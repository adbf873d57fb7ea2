# A verification project for sagiri-guard

sagiri-guard is a device-management system.  A server (C networking core, Go
application on top, MySQL through GORM; the devices keep SQLite) serves clients on the users' devices
and an administrator's console.  A device keeps a *notification* connection
open, on which the server pushes commands, and makes *API* requests, one
connection each.  It reports the history of the files it monitors, uploads
backups of them, restores versions from the server and blocks web sites by
rewriting its hosts file.

The modules here model the parts of the system in which several threads,
processes or machines meet, check them with TLC on small instances and prove
the main invariants with TLAPS for every instance.

## 1. Inventory

Paths are relative to the repository.

| component | state | operations | hard behaviour |
|---|---|---|---|
| Notification server, `server/core.c` | linked list of online clients, `active_clients`, one lock | accept loop; one `handle_client` thread per connection: register, announce, connect callback, greet, serve, unregister, announce, close; `server_send_to_device`, `broadcast_message`, `server_get_online_users` | a device reconnects before its old thread has noticed the end of the old connection; removal is by *name*; descriptors are reused; the result of `write` is ignored |
| Notification listener, `client/core.c` | socket, callback | dial, take the greeting, receive loop, reconnect after two seconds | the greeting is whatever comes first |
| Command queue, `go_server/server/helpers.go`, `wrapper.go`, `app/services/command_service.go` | the commands table | `CreateCommand`, `TrySendImmediately` in a goroutine, `ProcessCommandQueue` from the connect callback | sender, drain and crash interleave; both save whole rows; errors of the database are dropped |
| Backup upload, `go_client/internal/backup/worker.go`, `app/controllers/backup.go`, `app/services/backup_service.go` | sessions, snapshots, stored files; on the device `last_event_at`, `last_backup_at`, `activeMap`, `jobsChan` | resume, init, chunk, finish, cancel; the dispatch loop and its pool of three workers | time-outs leave handlers running; restarts on both sides; the file is edited meanwhile; versions are shared by sessions |
| Restore, `go_client/internal/backup/restore_worker.go`, `app/services/restore_service.go` | restore sessions on both sides, `.part` file, queue, `activeRestores` | queue from a command, recover at start and every 30 seconds, init, chunks, verify, rename | crash between removal, rename and save; a queue that blocks the listener; duplicated jobs; a `.part` file that sessions share |
| File monitor, `go_client/internal/monitor` | watches, attributes of files, event channel, `MonitoredFile`, `FileChangeEvent` | fsnotify loop, walk through new directories, five database workers | a directory fills while it is walked; events of a file are saved in any order; a full channel drops events; attributes, queries and writes fail unnoticed; `LIKE` patterns |
| File synchronisation, `go_client/internal/filesync/worker.go`, `app/services/file_history_service.go` | watermark `last_sync_id`, history table | read a batch, send it, advance the watermark; update the tree event by event, insert the batch | crash, lost or late answer between the two: at-least-once |
| Directory tree, `app/repositories/file_node_repo.go` | file nodes with parents and paths | `EnsureParent`, upsert, `MarkDeleted`, query | placeholders, unique keys of deleted nodes, `LIKE` patterns, names that differ in case, errors that nobody hears of |
| Firewall control, `app/services/firewall_service.go`, `go_client/main.go` | a setting per device; on the device the manager's flag and domains | save the setting and queue `FIREWALL_UPDATE`; fetch and apply | depends on the command arriving; concurrent updates |
| Hosts file, `go_client/internal/firewall/hosts.go` | a marked block in `/etc/hosts` | remove the old block, append the new one | truncated and rewritten in place, block of bytes by block of bytes |
| API transport, `server/core.c`, `client/core.c`, `protocol/protocol.c` | one socket per request | request, handler thread, response; ten-second time-out | short reads, two writes per packet without a lock |
| Login and registration, `app/controllers/auth.go`, `go_client/internal/auth`, `device` | users, devices, tokens | login, register a device, then save its identifier | check-then-insert |
| Logs, admin console, start-up, seeding, proxies | rows and files | single inserts, reads and wiring | nothing to interleave |

How they interact.  The connect callback of a handler thread runs the command
queue; the message callback of a client dispatches commands to the restore
worker, the log upload and the firewall; the file monitor writes the tables
that the backup dispatcher and the synchronisation worker read; all requests of
a device go through the API transport, every one handled by a thread of its own
on the server, which goes on when the device has given up.

What makes each component correct.

* Notification server: a connected device is served by a thread of its own;
  the list has a node for every thread that serves; the walk of online users
  is not cut short.
* Command queue: a command is marked SENT once, after it was sent, and every
  command is sent at last; a device gets its own commands.
* Backup: what a session claims is stored; a snapshot is the file; every event
  is followed by a backup; one worker per file.
* Restore: the file put in place is the version asked for; one restore of a
  file at a time; every session ends; a file removed to make room comes back.
* Monitor: every changed file has an identity and a row, and the log tells the
  server of it; the row is about the file as it is.
* Synchronisation: the history arrives complete, possibly more than once; the
  tree is the image of the history and every live row of it can be found.
* Firewall: the device ends up with the configuration last saved, and the user's
  lines of the hosts file stay.

## 2. Modules

| module | models |
|---|---|
| `NotificationServer` | accept loop, handler threads, list, counter, broadcasts, listener threads of the clients, breaks and crashes |
| `CommandQueue` | abstract: what the commands table promises |
| `CommandDelivery` | extends `NotificationServer` with the commands table, senders and drains; implements `CommandQueue` |
| `HostsFile` | the hosts file as operators on sequences of lines |
| `FirewallControl` | extends `CommandDelivery` with the firewall handlers of the server and the client, and the hosts file of one device |
| `BackupTransfer` | the upload of one file: worker and request threads of the server |
| `BackupDispatch` | the dispatch of many files over the pool of workers |
| `RestoreTransfer` | the restore of one file: queue, recovery, pool of workers, server |
| `FileMonitor` | from changes on the disk to the rows and the log in the device's database |
| `FileTree` | the directory tree as operators on the table of nodes |
| `ReplicatedLog` | abstract: a log that is replicated at least once |
| `FileSync` | extends `FileTree` with the synchronisation worker, request threads and the history; implements `ReplicatedLog` |
| `MC...` | instances for TLC |
| `..._proofs` | theorems and their proofs |

### NotificationServer

`registry` is the list under `ctx->head`, newest node first, and `active` is
`active_clients`.  A handler thread is named by the descriptor it owns;
`pc[fd]` says where in `handle_client` it stands and `device[fd]` is its local
`device_id`.  Every region under `ctx->lock` is one step, every region between
two locks another: `Register`, `AnnounceOnline`, the connect callback
(`OnConnectReturns`), `SendHello`, `Unregister`, `AnnounceOffline`, `Retire`,
`CloseSocket`.  `RecvIdFails` is the early return that leaves the counter
raised.  `Connect` joins the client's dial with the accept, because nothing
happens between them that anybody sees; the identifier may be read after its
sender has gone.  On the client side `client[d]` is the listener's state and
`inbox[d]` what was written to its connection.  A packet is written in one
step; the pause of two seconds between dials is left to fairness; the echo of
client messages is left out because no client sends any.
`server_send_unicast` has no caller.

### CommandDelivery and CommandQueue

`rows` is the table.  `sending` and `sent` are the goroutines of
`TrySendImmediately` before the send and before the save; `job[fd]` and
`batch[fd]` are `ProcessCommandQueue` in the connect callback of thread `fd`,
which reads the PENDING rows once and then sends and saves row by row.  A
crash of the server takes threads and goroutines, not the table.  Commands are
told apart by their keys; command text is left out.

Every call of the database may fail, as often as `MaxDbErrors` says, and the code
goes on: `CreateFails` (a command that is sent although it has no row, kept here
as an UNSAVED one, which the later save inserts), `QueryFails` (the drain sends
nothing on this connection), `SaveNextFails` and `SaveSentFails` (the row stays
as it is although the command was sent).  `missed` remembers the commands such a
call was about until they are saved or a drain reads them.

`CommandQueue` knows only the table and the commands some send has reported as
delivered.  `KeepsQueuePromise` is its specification, used as a property of
`CommandDelivery` under the identity mapping.

### FirewallControl and HostsFile

The composition of the administrators' requests, the command queue, one
device's listener and its hosts file.  `UpdateConfig` is three steps: look for
the row (`GetByDeviceID`), insert or update it, queue the command; two requests
interleave between any of them.  `Listen` is the listener step of
`NotificationServer` that hands a command to the callback; the callback runs in
the listener's thread, so the client reads no further packet while `stage` is
not `"idle"`.  `FetchConfig` reads the setting, and one or two calls of the
hosts manager follow (`calls`), each of which reads and truncates the file
(`Rewrite`) and writes it back (`Flush`).  The writer hands over blocks of 4096
bytes, which end anywhere: a client that dies between the two steps
(`HostRestarts`), or that cannot write on (`FlushFails`) and lives, leaves some
lines of what it was writing and perhaps the beginning of the next, a `Scrap`
(`PartsOf`), which is no marker even if it begins like one.  `UpsertFails`,
`FetchFails`, `FetchUnlisted` (the query for the domains fails, and the answer is
blocking without a domain) and `RewriteFails` are the other failures, beside
those of `CommandDelivery`.  A client fetches once when it starts, before it
connects.

`HostsFile` keeps lines as values and knows five kinds: the two markers, the
domains, the user's lines, of which one stands for all, and scraps.

### BackupTransfer

`backupFile` is a chain of requests, so its place is the request it is in
(`step`), the thread it waits for (`waits`) and the answer it got (`answer`).
The server's side is a pool of request threads, each reading a row, doing its
work and saving the row *as it was read*, in separate steps.  `RequestLost`,
`TimeOut`, `ServerRestart` and `DeviceRestart` are the failures; a thread whose
worker has given up goes on.  `HandleBackupCancel` never answers, so the worker
always waits out a cancel (`CancelTimesOut`).

The file is a sequence of units.  The first stands for the 64 KB of the head
hash and a chunk is one unit (in the code 16 MB: the head is part of the first
chunk in both).  A hash is represented by what was hashed.

### BackupDispatch

`dispatchJobs` reads a list (`Tick`), then for each entry claims it in
`activeMap` (`ClaimNext`) and queues it or gives the claim back (`Queue`).
Workers take a job, back it up or fail, and release the claim, in separate
steps, while `FileEvent` makes files due again.  `Stop` closes `stopChan`;
`LoopReturns` closes `jobsChan`.  What happens within one backup is the
business of `BackupTransfer`.  `Broken` are the files that can never be
opened, deleted ones for instance, which stay candidates for ever.

### RestoreTransfer

`queue` is `restoreQueue`; a full one makes the listener (`HandleRestoreCmd`)
and recovery wait, which is the guard of `Put`.  Recovery is three steps
because it looks at `activeRestores` (`RecoveryChecks`) and queues later
(`RecoveryQueues`).  `work[w]` is what worker `w` has in its local variables and
where in `performRestore` it stands; a step ends wherever something that
survives a restart is changed: `Open` and `PullChunk` the `.part` file,
`SaveOffset`, `Verify` and `SaveDone` the session row, `RemoveOld` and
`RenamePart` the file itself.  `pos` is the place in the `.part` file, which
stays behind `offset` when the ignored result of a write was an error.  Calls
of the server are single steps; the module's header says why a late one does
no more than one whose answer was lost.

A job for a file that is already in restore is dropped, also when it came from
a command and not from recovery: the administrator is not told.  The stored
versions are taken to be as long as their snapshots say, which `Upload` shows
for files that are not edited during an upload.

### FileMonitor

There is a root and one level of directories in it.  `disk` tells of each path
whether a file is there and which uuid its attribute holds; the kernel's
reports go to `inotify`.  The main loop handles one report at a time
(`HandleNewDir`, `HandleFile`, `HandleGone`); a new directory is watched, read
(`ReadDir`) and gone through file by file (`ScanFile`), while files in it come
and go and are reported too.  `EnsureFileID` tags a file, or fails to, which its
callers ignore (`TagFails`).  A database worker takes a job and goes through
`persistToDB`: of a job for what is gone first the children (`FindChildren`,
`LogChild`, `RecordChild`), then the uuid (`ReadId`), the row (`SaveRow`) and the
log (`SaveHistory`), one statement a step; `PersistFails` is the failure of any
one of them, of which the code takes no notice.  `Below` is the pattern of the query for
the children: what is inside the directory and what the pattern matches beside
(`Strays`: for `_`, `%` and the case of letters).  `Restart` is what
`NewFileMonitor` does: it watches and tags what it can, but writes no row.
When the loop hears that a path is gone and finds a directory there, because one
was made again since, it gives up the watch of it (`unwatchInternal`), and
fsnotify passes over the reports that this watch has still in the queue; they are
marked then and taken by `Skip`, like those of changed modes (`ChangeMode`), of
which the loop makes nothing.

`touched`, `dropped`, `overlap`, `cut` and `struck` are history variables: the
files changed since the client started, without those whose attribute could not
be written or read since; whether an event found the channel full; whether two
workers have been at work at once; the uuids whose row or log entry was lost to an
error or a restart, until the row is written again; and the uuids that a
pattern took for children of a removed directory they are not in, until then too.
A directory that is removed and made again after the loop heard of it is not
watched (`watchedDir` still holds it): files in it are not `Obliged`.  Of the log
the last entry of each uuid is kept.

### FileTree, FileSync and ReplicatedLog

`FileTree` is the table `file_nodes`: a row has a device, a parent, a uuid, a
path, a type and a mark of deletion, and a uuid says where it came from, since a
placeholder's uuid depends on its path only and is the same on every device: it
is kept as the source and what it was made of (`Uuids`).
`EnsureParent` makes the missing folders above a path, one `EnsureFolder` for each
name, as the recursion of the code does on its way back; `Browsed` is what an
administrator sees who opens the folders in sight (`Opened`) as often as there
are rows.  A uuid that is taken, by a deleted row or by another device, makes
`EnsureParent` fail with parent 0, and so does one too long for its column
(`TooLong`).  The server's MySQL decides what paths are equal and what a pattern
matches, and the module takes both as parameters: `Fold` maps names that the
collation takes for equal to one, `Strays` are the pairs of paths of which the
first as a pattern matches the second without being above it, `Escaped` the
paths whose backslash keeps the pattern from matching what is below them
(`Below`).

`FileSync` is one device and the server.  `Send` reads a batch behind the
watermark and gives it to a request thread; the thread takes the events one by
one into the tree (`FindParent`, `SaveNode`; `MarkNode`, `MarkChildren`), then
inserts the batch into the history and answers (`BulkCreate`).  `GiveUp` is the
ten-second time-out or a restart of the device: the thread goes on (`late`).
`ServerCrash` ends all threads between any two steps.  The errors of
`processFileNode` are dropped, and the thread goes on with the next event:
`FindParentFails` is a look-up or an insertion in `EnsureParent` that failed and
leaves the row without a parent or with a shorter chain above it, `UpdateFails`
any failing statement of the saving or of the two halves of the deletion.
`missed` are the events whose last update ended in such an error.  The log may
hold any sequence of events: a deletion logged twice, or of what was never
logged.  `SaveNode` is the query
for the row and its saving, and `FindParent` the queries and insertions of one
call; two threads at once on one device's tree are possible only when one is
late, and `TreeFollowsLog` says nothing then.  The constants have the shape that
the monitor and `processFileNode` give them (`EventsAssumption`): a folder's uuid
is made of its device and path, a file's is its own; a pattern that matches a
path matches what is in it (`StraysAssumption`).  `NamesKeepTheirKind` and
`StrangersOwnUuids` are circumstances, not assumptions: theorems name them as
hypotheses, and the instance for TLC states that it has them.

`ReplicatedLog` knows a log, the entries the server has, and the watermark.
`ReplicatesLog` is its specification, with `delivered` refined to the events
that have a row in the history.

## 3. Runs

| run | asks | bounds |
|---|---|---|
| `Commands` | types; every connection has a thread of its own; as many nodes as serving threads; `active_clients` counts every node and every thread without one; the send in the connect callback never misses; nothing reported as sent is lost while no connection breaks; the table implements `CommandQueue` | a device and the console, 2 descriptors, 1 command, 1 break, 1 crash, 1 failing call of the database: threads of an older connection run while the next is set up, a sender and a drain work on one row |
| `Firewall` | the hosts file comes back to its form; every queued command is sent at last; what was saved last is enforced | 1 device, 1 descriptor, 2 requests (off, or on with a domain), 1 fault of any kind, the part of the file that is written any, or a failing call of the queue's and then a crash of the server, which makes the device reconnect: the requests overlap with each other, with the client's start and with the fault |
| `Upload` | offsets are covered by stored data and stored files have no holes; without an edit snapshots are the file; without a failure stored files are what was hashed | 2 units of 2 values, 2 request threads, 1 edit, 1 lost or late request, 1 restart, 3 sessions: a late thread of one session overlaps the next session on the same version |
| `BackedUp` | after the last failure the file is backed up | 1 unit, 2 threads, 1 edit, 1 failure, 1 restart, 4 sessions, which is one more than they can use up |
| `Dispatch` | `activeMap` is exact; a file is in one place; every readable file is backed up; `Stop` returns | 3 files, one broken, 2 workers, list and channel of 2, 2 events, 1 failure: the channel fills up with an older list while a newer one is worked through |
| `Restore` | one restore at a time; what is put in place begins with a whole version; every session ends; a removed file comes back | 2 versions, the first longer, 2 workers, a queue of 1, 2 commands, 1 failed request, open or rename, 1 failed write, 1 restart: recovery queues a session that another worker is about to take, or that is in the queue, and waits on a full queue |
| `FileSync` | types; the history implements `ReplicatedLog`; no event twice unless something failed; the tree is that of the log but for failed updates; every live row is found but what such a failure left; all is synchronised at last | 8 possible events of a file that moves between the folders `d_r`, `D_R` and `d\r`, of which the first two are equal to the database, the first as a pattern matches the third, and the third does not match what is in it; 3 of them in a log, in any order, batches of 2, 2 threads, 1 fault of any kind; a row of another device takes the uuid of a placeholder, and one placeholder's uuid is too long |
| `FileMonitor` | every changed file gets a uuid and a row; rows are current if workers do not overlap; log and rows name the same files; everything is worked off | 1 directory `dir` in the root, 1 name `d_r`, 4 uuids, 2 workers, a channel of 2, 3 changes, 1 restart or failing operation: the directory appears and fills while it is walked through, the channel fills up, two jobs of one file are worked on at once, and the removal of the file `d_r` in the root is a pattern that matches `dir/d_r` |
| `Swallowed` | finding, see below | 1 device, 1 command, PENDING when the server starts and before the device connects, nothing fails |
| `WrongDevice` | finding | 2 devices, 2 descriptors, 1 break |
| `HashMismatch` | finding | a file of 2 units, the head and one beyond it, 1 edit beyond the head that keeps the size, 1 restart, 1 thread: no request is lost or late |
| `RestoreTail` | finding | 2 versions, 1 failure, 1 restart, no failed write |

`Commands` has 4.8 million states, `FileMonitor` 1.8 million, `Upload` and
`FileSync` 1.3 million each, `Firewall` 0.9 million; all end within four minutes.
Outside the runs were checked, for the invariants: `Firewall` with two faults (9.4
million states), `FileSync` with two faults (11.5 million) and `FileMonitor` with
two changes and two restarts or failures.  A report that is passed over because its watch
was given up needs five changes at least, so the run reaches `Skip` by
`ChangeMode` only; the theorem covers the rest.

`CHECK_DEADLOCK FALSE` is set everywhere because the bounded systems do stop:
breaks, edits and commands are used up, and with nothing due and nobody
connecting the program is idle too.

Bounds that are not in the code: every constant whose name begins with `Max`
except that `MaxEvents` of `FileSync` and `BackupDispatch`, `MaxChanges` and
`MaxCommands` merely end the input, and the sets `Fds`, `Threads` and `Workers`.
Without a free thread the worker of `BackupTransfer` waits, as a request would
in the accept queue.  `Capacity`, `Limit` and `BatchSize` are in the code, where
they are larger; the small values make a full queue and a second batch happen.

Fairness.  `CommandDelivery` and `FirewallControl`: weak fairness of every
thread, goroutine and client loop, since the operating system and the Go
scheduler run what can run; a request that was begun goes on, but nobody is
obliged to make one.  `BackupTransfer`: of the worker and of every request
thread.  `RestoreTransfer`: of recovery and of every worker.  `FileSync`: of the
ticker's worker and of every request thread.  `FileMonitor`: of the main loop
and of every database worker.  Nothing obliges a connection to break, a user to
edit or a process to crash, and failures are finite in number, which is what
"at last" must assume.  `BackupDispatch`: weak fairness of the loop and of every
worker; strong fairness of the loop's return, because a Go `select` picks at
random among the channels that are ready, so a ticker cannot for ever win
against `stopChan`.  `EveryFileBackedUp` holds because fewer files are broken
than candidates are read (10) and the channel (20) holds as many:
`MCBackupDispatch` states this as an assumption on the instance, and TLC finds
the property violated when two of three files are broken with a list of two, or
when the channel holds one.

Symmetry is used for descriptors in `Commands` and for request threads and
values in `Upload`, which check no liveness.

What the conditional properties leave out, because the code does not promise it:

* `ConfigEnforced` excludes a command that the greeting swallowed, one lost with
  a broken connection, a failed fetch, query or rewrite, a server that died between
  saving a setting and queueing its command, and a command that a call of the
  database failed for and that is not SENT: none of them is repeated.
* `EventuallySent` excludes the commands in `missed`: a row whose insertion, query
  or saving failed stays as it is until the device's next connection, and nothing
  makes the device reconnect.  When it does, the drain makes up for the failure,
  unless there is no row.
* `HostsFileInOrder` allows that the user's lines are gone, or end with a scrap,
  after the client died or failed while it wrote; the copy the manager makes is
  never read.
* `RestoredBeginsWithVersion` holds while no write fails, because the result of
  the write is ignored.
* `InOrderRowsAreCurrent` holds while no two database workers overlap; when they
  do, an older event of a file may be written last.
  The mark of a row that a pattern hit (`struck`) is wrong until the file changes
  again; a row that was not written (`cut`) may be an old one.
* `EveryChangeFindsItsFile` holds while no event finds the channel full, for
  files whose attribute could be written and read (`touched`); the row is there
  unless it could not be written (`cut`).
* `LogMatchesRows` leaves out a uuid whose row or log entry was lost to an error
  or a restart, until its row is written again.
* `TreeFollowsLog` excludes late threads, which set the tree back.  It says
  nothing of a row whose last event could not be applied, and of the mark of a row
  that the deletion of a folder spared or hit wrongly (`Errs`): because its update
  failed, because the server has never heard of the folder, or because the `LIKE`
  pattern and what is in the folder differ about this path.
* `EveryNodeIsFound` leaves out live rows in a folder that was deleted without
  them (`Forgotten`), by an error or because of a backslash in its name.

### Findings

* `Swallowed`: the client takes the first packet of a connection for the
  greeting (`client/core.c:41`), but the connect callback sends queued commands
  before the Hello is sent (`server/core.c:141`).  The first command queued for
  an offline device is printed as a greeting and never executed, although its
  row says SENT.  In the run the command is in the table before the device
  connects, and no sender is at work on it.
* `WrongDevice`: a thread removes the *first* node with its device's name.
  After a fast reconnect that is the node of the new connection, and the node of
  the old one stays with a descriptor that is closed and handed out again: a
  command for one device is written to another.
* `HashMismatch`: a resumed upload is accepted if size and head hash agree, so
  an edit further on leaves old units in the stored file and the hash of the new
  contents in the snapshot.  In the run both units of a file are stored, the
  device restarts before it finishes, the second unit is edited, and the resumed
  upload has nothing left to send.
* `RestoreTail`: the `.part` file is named after the file, not the session, and
  is never cut.  A shorter version restored over what an interrupted longer one
  left keeps the longer one's tail, and the hash, taken of what was received,
  agrees.

What `Upload` shows beside them: as long as the file is not edited, none of
this does harm, because whatever is written twice is the same.

## 4. Proofs

All theorems hold for any sets of devices, descriptors, files, threads and
workers and any bounds, under the named assumptions of the modules: model
values are distinct from the members of the sets they stand beside, `Fds` and
`Threads` are finite, bounds are natural numbers, the lists of domains are
finite and no domain is a marker, a scrap or the user's line, and events and uuids
of the synchronisation have the shape the program gives them.

**NotificationServer_proofs.**  `RegistryCorrect` proves `NodePerThread`,
`ServedIsListed` and `ActiveCoversThreads` from the
invariant `RegistryInv`.  The point is that a removal may take another thread's
node: which thread a node belongs to is not an invariant, only how many nodes
and threads a device has.  `NodePerThread` is therefore what must be carried
along, and with it the sum of nodes and unlisted threads that `active_clients`
covers; that a served device is listed follows by counting.  `TypeCorrect` and
`ConnectionsAreServed` are proved beside it.

**CommandDelivery_proofs.**  Every step of the composed system is a step of the
registry or leaves it alone, so `RegistryInv` carries over.  `DrainsSucceed`
follows: a thread in its connect callback is registered, hence listed.
`QueueRefined` proves `CDSpec => KeepsQueuePromise` with the invariant
`QueueInv`, which adds to the types that whoever is about to save SENT has sent;
a failing call of the database leaves the rows alone.
`RegistryCorrectWithQueue` and `ServerCorrectWithQueue` restate the theorems of
the server for the composition.  `NothingLostInCalm` proves
`NothingLostWhileConnected`: without a break or a crash no thread has
left (`NoneLeft`), so the node that a send finds is that of the only connection
of the device, and what is written there is in its inbox, swallowed as its
greeting or received (`NothingLost`); each drain holds rows of its own device
only.

**BackupTransfer_proofs.**  `OffsetsAreStored` and `TypeCorrect`.
`OffsetIsStored` is not inductive: what is saved in a row comes from a request,
which comes from the worker's offset, which comes from an answer, which comes
from a row.  `OffsetInv` states for each of these places that it fits the
stored file it speaks of (`ThreadOK`, `WorkerOK`) and that a thread the worker
waits for works on the worker's request (`WaitOK`).  All are preserved because
no step shortens a stored file or moves a session to another version
(`StoreGrows`); writing at an offset within the file leaves no hole
(`WriteAtFacts`).  The steps are proved by shape: a request is sent, a thread
goes on, a thread answers, the worker rests.

`SnapshotsFaithful` proves `SnapshotsAreTheFile` from `UneditedInv`: as long as
nobody has edited, every stored file begins the file, so whatever late threads,
repeated chunks or sessions of the same version write again, in whatever order,
is what stands there already; a finish request is sent only for what is stored
to the end.  `HashHoldsUndisturbed` proves `UndisturbedHashHolds` from `CalmInv`
and is the opposite case: the user edits, nothing fails.  Then there is one
session at a time, on a version of its own, and `PhaseOK` follows it through the
requests: what is stored is what was hashed, or one unit less while a chunk is
on its way.

**BackupDispatch_proofs.**  `ClaimsHeld`, `OneWorkerPerFile` and `TypeCorrect`
from `DispatchInv`: the map is the union of the claim, the channel and the
workers' jobs, and these are disjoint and without repetition.  Each needs the
other: a claim is new because the map is complete, and releasing it leaves the
map complete because it was held once.

**RestoreTransfer_proofs.**  `TypeCorrect`, `OneAtATime` and `BeginsWithVersion`
from `RestoreInv`, the conjunction of `TypeOK`, `OneRestoreAtATime`, `WorkOK` and
`DestOK`.  `WorkOK` says for each stage what the working goroutine may rely on:
that its session exists and, as long as no write has failed, that the `.part`
file begins with what was hashed whenever that is as long as the offset says
(`PartFits`).  That no other worker writes the file meanwhile is
`OneRestoreAtATime`, so the two have to be carried together.  A resumed session
hashes whatever is in the `.part` file; only `Verify` finds out whether it was
its own, and that is enough for what is put in place to begin with the version,
and not enough for it to end there.  `WorkerMoves` reduces every step of a worker
to what it makes of its own record; one lemma for each action follows.

**FileSync_proofs.**  `LogReplicated` proves `Spec => ReplicatesLog` and
`NoDuplicates` proves `OnceIfNothingFails`, both from `SyncInv`: the batch of a
thread the worker waits for is the part of the log behind the watermark up to
`upto`, and after an answer of success that part is in the history.  Late
threads may deliver what they like; the watermark does not depend on them.

`TypeCorrect`, `NodesFound` and `TreeFollows` are about the tree.  `EnsureParent`
and `Browsed` are recursive functions; that these exist, and what they return, is
proved by a least number for which it would fail, since the prover has no
induction.  `EnsureParentFacts` says that, whichever look-ups and insertions fail, nothing
but placeholders was added and that the parent is live and at the right directory,
or none; `BrowsedFacts` that
opening folders as often as there are rows reaches every live row below live
folders, because with each step up the number of live rows with a shorter path
gets smaller.  `TableInv` gives every row of the device a path that fits its
uuid, and every thread at work an event of its batch.

`NodesFound` proves `EveryNodeIsFound`.  While events are applied the tree is not
whole: between `MarkNode` and `MarkChildren` a deleted folder holds live rows,
and after a crash it does so until the batch is sent again.  `Rooted` says that
the folder of a live row is live, or that its deletion is in the log and is among
the events from `Reached` on, the next one to be applied, or was missed, or is of a
folder whose pattern does not match what is in it (`ToDelete`).  `Reached` goes back
to the watermark when an answer fails.  At the end only the last two are left, and
they are what `Forgotten` speaks of.  `ParentReady` keeps the folder that
`FindParent` found until `SaveNode` uses it.  The theorem is about logs in which no
file has the path of a folder (`NamesKeepTheirKind`): `FindByPath` does not look at
types, and the deletion of a file marks nothing below it.

`TreeFollows` proves `TreeFollowsLog`.  For the last event of each uuid, once it
is applied and its update did not fail, `RowsFollow` bounds the mark of the row from
both sides: it is deleted if a deletion applied since, of a folder the server knew,
has a pattern that matches it (`Caught`), and only if some deletion of the log has
such a pattern (`Catches`).  The gap between the two is what lets a batch be
applied again: a row may still be deleted by an event that has to be repeated.  At
the end all events are applied, and for a path about which no deletion errs the
sides meet, and meet at what is in the folder (`Buries`).  `MarkChildren` deletes
below a row only if the folder has one, which `RowsExist` gives for a folder that
was put without an error, and at the event's path, which `TableInv` gives.  Nothing
is assumed of the order of the events in the log.  The theorem is about events whose
uuids no other device has used (`StrangersOwnUuids`), because a row keeps its
device: of a file that came from another device with its attribute the row stays
there.

**FileMonitor_proofs.**  `TypeCorrect`, `ChangesFound` and `LogAndRows` from
`MonitorInv`.  `EveryChangeFindsItsFile` speaks of quiet states only; the
invariant `ChangesPend` says of every state at which of five places a changed
file waits: a report of the kernel, the walk through its directory, the channel,
a worker that has yet to read the attribute, a worker that has read it, or it
has its row, or the row was lost (`cut`).  It is preserved because a new directory is watched before it is
read, because a file is tagged when it is queued, and because no step takes a
row away (`RowsStay`) or another uuid to a file that has one (`TagKeeps`).
A failing attribute takes the file out of `touched`, and a failing write its uuid
into `cut`, and both only this one: every other file keeps its place.
`Fits` is what a worker relies on at each stage, and `FirstIsRow` that a row
found by a path is one: at most one row stands at the path of a directory, and
files have numbers as identifiers, which are well ordered.

`RowsInOrder` proves `InOrderRowsAreCurrent` from `OrderInv`.  A changed file's
event goes through three queues: reports, channel, worker.  `FilesInOrder` says
that behind the last thing on this way that would mark the file as gone there is
one that puts it right (`Settled`), or there is no such thing and the row is
right already; `DirsInOrder` says the same of the directory, whose removal marks
all that was in it; `KidsInTurn` and `OneAtATime` that a worker that marks
children has no other beside it.  Only what is inside a removed directory is
touched by it in this argument; a row that its pattern hits beside is marked too,
but keeps its path, and is in `struck` until it is written again.  The first attempt at this proof failed on
reports of a directory that was removed and made again, which the model then
handed to the loop although fsnotify passes over them; the model was corrected.

**FirewallControl_proofs.**  `FirewallUsesQueue` proves `FCSpec => CDSpec`: every
step of the firewall is one of the queue or leaves it alone, so what is proved of
the registry and the queue holds here.  `HostsFileKept` proves
`HostsFileInOrder`, and `FirewallTypes` the types, from `HostInv`.  A client that
dies or fails while it writes leaves any part of the user's lines and a block, the
last line perhaps a scrap, and `HostsFileInOrder` does not say what of: the
invariant is not about the form of the file but about what `removeBlockSection`
makes of it.  `Shapely` says that the file is lines that are no markers and behind
them nothing, or a start marker with no end marker before the last line; every
part of a file in form has such a shape, and what the next rewrite makes of it is
in form again (`FileInv`).  A block is made of a set of domains by
choice; its length and members come from the facts of the library about
sequences made of finite sets.

Only model-checked: liveness (`EventuallySent`, `ConfigEnforced`,
`EventuallyBackedUp`, `EveryFileBackedUp`, `StopReturns`, `EverySessionEnds`,
`RemovedFileComesBack`, `EventuallySynced`, `EventuallyQuiet`), which the prover
cannot treat.  Every invariant and refinement that a run checks is proved;
`EveryNodeIsFound` and `TreeFollowsLog` under the circumstances named above, and
outside them they are not claimed.

## 5. Not modelled, and the plan

Not modelled, with the reason:

* The HTTP proxy blocker has no caller: firewall control uses the hosts file.
  `AddDomain`, `RemoveDomain` and the built-in categories of the hosts manager,
  `ProcessPendingCommands` and `server_send_unicast` have none either, and
  `UpdatePaths` of the tree is reached only by a folder with the action
  `rename`, which no client sends.
* Login and registration: one check-then-insert behind a unique key, once in
  the life of a device.
* Log upload and viewing, the administrator's console, start-up, seeding and
  configuration, and the stand-alone C programs: sequential, or single inserts
  and reads.
* The bytes of packets: a packet is written and read in one step, so neither the
  two writes of a packet nor socket buffers that fill up while the list is
  locked are shown, nor an answer that is longer than the 4096 bytes the client
  has for it (`go_client/main.go:112`), a long list of domains for instance.
* Signals: a C thread that writes to a socket whose peer has gone may be sent
  SIGPIPE; the models let the write fail and the thread go on.
* An empty file: its upload sends no chunk, so the server never creates the file
  it then reports as stored.  `BackupTransfer` is about files of one unit or more.
* A watch that cannot be set (`file_monitor.go:419`) leaves a directory out of
  `watches`, about which `FileMonitor` promises nothing; what else is then done
  with such a directory is not modelled.

What is left to do:

1. Action properties beside the two refinements: what a step of the restore may
   do to a file that is in place, what a step of the upload may do to a snapshot.
2. `PacketStream`: packets as two writes on a socket that a handler thread and
   senders share, with the lock that only senders take.
3. A second level of directories in `FileMonitor`, and moves of directories.
4. The composition of `FileMonitor` with `BackupDispatch` through `last_event_at`
   and `last_backup_at`.
