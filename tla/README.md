# Directory replication of Univention Corporate Server in TLA+

Univention Corporate Server (UCS) keeps all its configuration in an LDAP
directory and replicates it to every system of a domain. Objects are made by the
Directory Manager (UDM, Python), and a change passes through

    UDM --> slapd + translog overlay --file "listener"--> Directory Notifier (C)
        --TCP, protocol 2 or 3--> Directory Listener (C) --> modules (Python)
                                        |                       |
                                   LMDB cache            replication.py -> local slapd
                                        |
                              file "listener" of a cascaded Notifier (option -o)

This project specifies the two C daemons with the files, messages and callbacks
between them, and the locks by which UDM processes keep names and numbers unique.
The paths below are relative to `src/management/univention-directory-notifier/src`
(notifier), `src/management/univention-directory-listener/src` (listener) and
`src/management/univention-directory-manager-modules/modules/univention/admin` (UDM).

Contents: 1 inventory, 2 plan, 3 modules and their correspondence to the code,
4 runs, 5 proofs, 6 disagreements between documentation and code, 7 limits.

## 1. Inventory

### Directory Notifier

One process, one thread, a `select()` loop and a signal handler.

| part | state | operations | what is hard |
|---|---|---|---|
| hand-over (`notify.c`, `univention-directory-notifier.c`) | files `listener`, `listener.priv`, `transaction`; entries below `cn=translog`; `notify_last_id` | rename, dump to LDAP, dump to files, unlink, broadcast; at the start the last id is read from the transaction file and the callback is run once | crashes between any two steps; repeated batches; `LDAP_SERVER_DOWN` with the add applied; a file that cannot be opened |
| network (`network.c`, `callback.c`) | the list of clients (`fd`, `version`, `notify`, `next_id`), `readfds`, the flag `LISTENER_CALLBACK` | accept, handshake, `GET_DN`, `WAIT_ID`, `GET_ID`, `GET_SCHEMA_ID`, broadcast, remove | signals that arrive at any point of the loop; clients that hang up, repeat themselves or register while a batch is being published |
| store (`cache.c`, `index.c`, `notify.c`) | ring cache, index file, transaction file | add, lookup with fall-back and repair | torn lines, index ahead of the file, ring boundaries |

Correct means: nothing slapd wrote is lost, nothing is published out of order or
before it is durable, a restart takes nothing back, a listener that waits is told.

### Directory Listener

One process that works off one transaction at a time. LDAP is ahead of it: what it
searches is the object's present state, not its state at the transaction.

| part | state | operations | what is hard |
|---|---|---|---|
| transactions (`notifier.c`, `change.c`) | the ids done (`cache_master_entry`, `notifier_id`), the pair `trans.prev`/`trans.cur` | fetch, search by entryUUID and by DN, update, delete, move (an `r` followed by its `a`), commit | LDAP changes while a transaction is processed; moves of objects moved, changed or deleted again; crashes between modules, cache and master entry |
| modules (`handlers.c`) | per module: ready flag, filter, attributes; per cached object: the modules that handled it | `handlers_update`, `handlers_delete`, initial import, prerun/postrun | failing modules; filters that cease to match; modules skipped as up to date |
| cache (`cache.c`, `cache_entry.c`, `cache_dn.c`, `cache_lowlevel.c`) | LMDB: DN to id, id to entry, master entry | update, delete, filter | the cache filter; consistency of the tree of DN ids |
| client (`network.c`) | the connection, a queue of messages by MSGID | `notifier_get_dn`, resend after `ALIVE`, reconnect | answers that arrive twice or late |
| transaction file (`transfile.c`) | `listener` of a cascaded notifier, `failed.ldif` | append, stop while `failed.ldif` exists | crash between append and commit |
| tree (`check_parent_dn`, `fake_container`) | containers created on a replica | create and delete parents through the modules | only with a local LDAP server |
| initialisation (`change_new_modules`, `change_update_schema`) | ready flags, schema id | initial import, schema replication | restart within the import |

Correct means: once the listener has caught up, its cache and what its modules know
are what LDAP holds; a module that handled an object is called when it goes away;
no transaction is counted as done or passed on before it is; none is met for ever.

### UDM locks and allocators

Any number of UDM processes on any systems of the domain; their only coordination
are lock objects in LDAP.

| part | state | operations | what is hard |
|---|---|---|---|
| locks (`locking.py`) | an object below `cn=temporary` per locked value, with `lockTime` | `lock`, `unlock` | look-up, add and take-over are LDAP operations of their own; locks expire under a live holder; anyone can delete them |
| allocators (`allocators.py`) | `univentionLastUsedValue`; `self.alloc` of the object being created | `acquireRange`, `acquireUnique`, `confirm`, `release` | a search sees only what has been added; two locks per number; the locks are held across other operations |
| users and groups (`handlers/users/user.py`, `handlers/groups/group.py`, `handlers/__init__.py`) | the object in LDAP | create, cancel, remove | which locks are held when the object is added; refused locks; removal releases locks by value |

Correct means: one holder per lock; no uidNumber, gidNumber or user name given
twice; no number allocated to both a user and a group.

### The rest of the repository

`univention-translog` and `univention-replicate-*` edit the files by hand. The
rest of the Directory Manager, its REST interface, the Management Console, portal, App
Center, joins, connectors and the base system use the directory but take no part
in its replication; PROJECT.json lists them as `not_modelled` with the reasons. By
far the largest part of the C code in the repository is vendored (the boot loader
shim with OpenSSL) and not a subject of this project.

## 2. Plan

The order in which the modules were written, the most important behaviour first.

| # | module | what | state |
|---|---|---|---|
| 1 | `Notifier` | hand-over, loop, protocol, clients, crashes | checked; safety proved in `NotifierProofs` |
| 2 | `ReplicationLog` | what a notifier promises its listeners | `Notifier` implements it: checked, and proved in `NotifierRefinement` |
| 3 | `Listener` | first start, import of modules, transactions, moves, modules, cache, crashes, cascade file | checked; types, `failed.ldif` and cascade file proved in `ListenerProofs`, the cache in `ListenerCacheProofs`, the modules in `ListenerModulesProofs` |
| 4 | `NotifierStore` | transaction file with torn lines, index, ring cache: a lookup returns the line of the id | checked; proved in `NotifierStoreProofs` |
| 5 | `ListenerClient` | message list by MSGID, receive buffer, `ALIVE`, repeated requests, reconnects | checked; safety proved in `ListenerClientProofs` |
| 6 | `Allocators` | locks, numbers and names of UDM | checked; safety proved in `AllocatorsProofs` |

Considered and not written, for the reasons in section 7: the tree of containers on a
replica (`check_parent_dn`), the tree of DN ids in LMDB (`cache_dn.c`), the
schema, and the composition of the listener with the notifier of a cascade.

## 3. Modules

Operators whose comment says "Mutant" are not part of a specification. Each is a
definition with a plausible bug in it; put in the place of the definition that
follows it, it makes TLC find a property violated (PROJECT.json, "mutants").

### Notifier.tla

A transaction is its id; slapd, external, numbers 1, 2, 3, ... without holes and
appends under `listener.lock`, the lock the notifier holds while it renames.

`pc` is the place in `notify_listener_change_callback` or in
`network_client_main_loop`:

| `pc` | code |
|---|---|
| `down` | the process does not run; `Start` is `main()` up to its own call of the callback |
| `take` | `notify.c:643-691`: a left-over `listener.priv` first and alone, else rename `listener` |
| `ldap`, `files`, `unlink` | `notify_dump_to_ldap`, `notify_dump_to_files`, `unlink`, one entry per step |
| `broadcast` | `network_client_all_write` for each entry of the batch |
| `unset` | the callback has returned to `check_callbacks`, the flag is still set |
| `loop`, `select`, `serve`, `check` | before `select()`, in it, handling descriptors, `check_callbacks` |
| `hung` | the `default:` branch in `network_client_all_write` |

* `SlapdWrites` appends a line and raises the signal. The handler sets `callback`;
  only when the process is in `select()` does it also interrupt it (`eintr`).
* `DumpToFilesFails` is the `goto error` of `notify_dump_to_files`: the batch is left
  out of the transaction file and the caller goes on. The history variable `leftOut`
  remembers such ids; it is read by properties only.
* `Crash` takes the process from any place and keeps the files and `cn=translog`.
  `abort`/`exit` paths (lock failures, unexpected LDAP errors) are crashes.
* `testfds[c]` is the work `select()` found at a connection: 1 for a connection
  to accept or closed, else the number of requests that have arrived,
  which the code reads as one packet.
* `AllWrite` sends to every client that waits for the id, protocol 3 clients getting
  `notify_last_id`. A send to a client that hung up may fail; it is removed,
  but its descriptor stays in `readfds` (`stale`), so `select()` returns at once.
* The clients: `Connect`, `HangUp`, `AskNext`, `AskAgain` (the resend after `ALIVE`,
  under the same MSGID), `AskId`, `Receive`. The MSGID is represented by the id asked for.
* `announced` is a history variable: the highest id sent to anyone.

Left out: `GET_SCHEMA_ID` and schema transactions (they store and return an id), the ring cache and the index (they
answer what the transaction file answers), texts of DNs and commands.

### NotifierStore.tla

How a protocol-2 request for a published transaction is answered. `Notifier` takes the
store for a sequence of ids; this module opens it up and abstracts the rest of the
hand-over to two numbers: ids up to `done` have been unlinked, `done + 1 .. last` are in
`listener.priv`.

* A line is two bytes, head and tail. `DumpLine` is one round of the loop of
  `notify_dump_to_files`: `index_set`, which writes the entry before (it seeks), then
  `fprintf`, which may fill the stdio buffer and cut the line. `CloseIndex` and `CloseFile`
  write what is left. A crash loses the buffers and keeps the files.
* `GetOneDn` is `notify_transcation_get_one_dn`: the index entry if the line there has the
  id, else the scan of the file, which sets the index for all lines it passes. Its value
  is a set of outcomes because an index entry left by a crash may point into a line,
  where `sscanf` leaves `id` unset.
* `LastNotifyId` reads the last line, torn or not. `CacheInit` is one round of
  `notifier_cache_init`; the ring (`cache`, `entry_min_pos`, `max_filled`) has the code's
  indices, so the first entry of an empty cache goes to slot 1 and the slot at
  `max_filled` is never searched.
* `RemoveIndex` is `univention-translog` removing the index of a file it has checked.

### ReplicationLog.tla

The promise: slapd's transactions are accepted, stored in order, and each
listener is told entry after entry, once, of what is stored. `Notifier` implements it under

    accepted <- written    stored <- the prefix in the transaction file    told <- done

so crashes, repeated batches, duplicated answers and connections are stutters.

### Listener.tla

`pc` follows one transaction through `notifier_listen` and `change_update_dn`, and a
start through `main()` and `change_new_modules`:

| `pc` | code |
|---|---|
| `exit` | the process ended by itself or was killed; `Restart` is `main()` up to the modules |
| `init` | `change_new_modules`, between two modules; `Listen` when all are done |
| `search_module`, `import` | `change_init_module`: the search for the names, then one name per step |
| `listen` | waiting for id + 1; `Fetch` is `change_update_dn` up to the search |
| `search`, `retry_dn` | search by entryUUID, then by DN; `Dispatch` is `change_update_cache` |
| `update`, `store` | `change_update_entry`: the modules, then the cache |
| `delete`, `drop` | `change_delete`: the modules, then the cache |
| `move` ... `move_store` | `process_move`: drop the old entry, delete and add through the modules, store |
| `finish`, `write_prev`, `write_cur`, `commit` | `notifier_listen:218-252`: `failed.ldif`, the transaction file for `prev` and `cur`, the master entry |

* An object has a uuid, a csn and a content `val` (as far as filters tell contents
  apart). `told[h][dn]` is what module `h` last accepted for a name; a module in
  `MayFail` may raise an exception at any call, which leaves `told` as it was.
* `states` are the files below `handlers/`, `ready` what the process has in memory,
  `pending` the modules `change_new_modules` has still to look at, `import` the
  one at work with the names found and `rv`. A module that is not ready is cleaned
  (`clean()`, the lists of modules in the cache) and told everything anew; `ImportDone`
  writes the state by the last `rv`. `Resync` is `univention-directory-listener-ctrl resync`,
  which removes a state file of a stopped listener. With `Fresh` the listener
  starts for the first time: no cache, and the notifier's id as the first master entry.
* Calling the modules and storing the entry are separate steps for a transaction
  and one step in an import, since a killed import starts over.
* `Crash` happens anywhere signals are not blocked, and with `Killed` there too. `Blocked`
  are the places between the modules and the cache where they are. A move is not one of
  them at its end: `process_move` unblocks signals (`change.c:565`) before it stores the entry
  (`change.c:568`), so an ordinary SIGTERM may come between.
* `severed` is a history variable that only properties read: the names which a crash left
  with the modules told and the cache not, or with the old name of a move gone from the
  cache and not from the modules (`Apart`: the places `store`, `move_from` and `move_store`).
* `Empty` is the cache entry without attributes that an object leaves which is
  deleted between the import's search and its look-up.
* The LDAP operations are external; `Racing` names those that may happen while a
  transaction is processed, `Reuse` lets a name be taken again while older transactions
  about it wait. slapd writes a move as an `r` and an `a` one behind the other, so the exit
  of the listener at an `r` without its `a` (`change.c:686`) is not reached.
* All modules are called in one step. A crash between two modules is, for the modules,
  the same as a failing of the later ones followed by a crash at the next place, where
  the name is `Apart`.

The model is of a system without a local LDAP server, where `check_parent_dn`
returns at once.

### ListenerClient.tla

The listener's end of the connection, which `Notifier` reduces to requests and answers.
Here the notifier is reduced instead: it publishes batches, answers (`ServeWaitId`),
keeps one request per connection (`waiter`), and closes or forgets the connection.

* `c2s` and `s2c` are what is in flight; `buf` is `client->buf`, where `recv_block()`
  leaves what follows the first message and where `select()` does not look
  (`Readable`); `messages` is the list of answers by MSGID.
* `AskNext`, `Receive`, `Maintenance`, `SendAlive`, `ReceiveAlive`, `AliveTimeout` and
  `HandleNext` are the rounds of the loops of `notifier_listen`. The answer to
  `ALIVE` makes the listener repeat its request under the same MSGID, so that an answer
  may come twice; the second one stays in the list for ever.
* `LoseConnection` with `"forgotten"` is the client the notifier removed after a failed
  `send()` without closing its descriptor (section 7). `Connect` is the restart after
  any failure.

### Allocators.tla

Each UDM process does one job: it creates a user or a group, with a number of its own
or an allocated one, or removes an object. Every LDAP operation is one action.

* `LockLookup`, `LockAdd`, `LockRead` and `LockTakeover` are `lock()`; a take-over
  replaces `lockTime` whatever it is by now, because `uldap.modify()` turns the
  change into `MOD_REPLACE`.
* `ReadLastUsed`, `NextNumber`, `NextRange`, `GiveBackPrevious`, `SearchRange`,
  `GiveBack`, `GiveBackOther` and `TakeNumber` are the loop of `acquireRange()`, with the
  lock of the other kind; `SearchName` and `SearchUnique` are `acquireUnique()`.
* `alloc` is `self.alloc`; `ConfirmLastUsed` and `ConfirmUnlock` work it off after the
  object was added, `Release` after a failure, the last entry first.
* `mine` and `spoilt` are history variables: the locks a process has taken and not
  given back, and the locks taken from a live holder, by a take-over after they had
  expired or by the removal of an object with that value.

### Proof modules

`NotifierProofs`, `NotifierRefinement`, `NotifierStoreProofs`, `ListenerClientProofs`,
`ListenerProofs` and `AllocatorsProofs` extend the modules they are about.
`ListenerCacheProofs` extends `ListenerProofs`, and `ListenerModulesProofs` the former:
what the modules know is proved from what the cache holds. See section 5.

### MC modules

`MCNotifierStore` and `MCListenerClient` only name the instance. `MCNotifier` and
`MCAllocators` add the symmetry of connections and processes, used in runs that check
safety only. `MCListener` names objects and filters, `MCAllocators` jobs and ranges.

## 4. Runs

Numbers of states are distinct ones.

| run | checks | instance |
|---|---|---|
| `notifier_safety` | `TypeOK`, `NoTransactionLost`, `LogOrdered`, `AnnouncedIsDurable`, `NeverGoesBack` | 2 transactions, 2 crashes, 2 clients of protocol 1 or 4, minimum 1, open failures; 6.1 million states |
| `notifier_live` | `ImplementsLog`, `TakenOverIsPublished`, `TakenOverIsAnnounced`, `SignalDrainsListener` | 3 transactions, 1 crash, 1 client of protocol 1, 2 or 3, minimum 2; 131 thousand |
| `notifier_store` | `TypeOK`, `GetDnIsRight`, `LastIdIsDone` | 6 transactions, 3 crashes, a cache of 3; 1.9 million |
| `listener_client` | `TypeOK`, `AnswerIsNew`, `RequestIsKept`, `InOrder`, `EveryTransactionIsFetched` | 3 transactions in batches of up to 2, 2 faults, 3 answers in flight |
| `listener_converge` | `CacheConverges`, `ModulesConverge`, `ModuleIsStillCalled`, `ModulesSucceeded` | 3 names, 5 transactions, adds, changes and moves racing, 1 crash anywhere; 4.1 million |
| `listener_import` | `TypeOK`, `CacheConverges`, `ModulesConverge`, `ModulesSucceeded` | first start; 3 names, one hidden by ACLs, 2 contents, 2 modules (one filtered, one with attributes), 3 transactions, 1 crash, a resync; 4.1 million |
| `listener_crash` | `CacheConverges`, `ModulesConverge`, `CascadeComplete`, `FailedLdifStops`, `EveryTransactionIsDone` | 2 names, 3 transactions, 1 crash anywhere, a replication module that may fail and be resynchronised beside one that does not, a cascaded notifier; 1.07 million |
| `alloc_numbers` | `TypeOK`, `LockIsHeldOnce`, `NumbersUnique`, `UsersAndGroupsApart`, `UserNamesUnique` | 2 processes, 5 jobs, 2 ranges, one user and one old lock there, 3 ticks, 1 process dies; 828 thousand |
| `notifier_lostwakeup`, `listener_deleterace`, `listener_importdeleted`, `alloc_takeover` | one property each, violated | section 6 |

What the bounds are for:

* Notifier. Two transactions give one batch of two or two of one, with
  another line arriving while a batch is processed; with three, a batch of two has
  a third line behind it. Two crashes let the repeated batch be interrupted
  again. Protocol 4 is negotiated down to 3; protocol 1 is refused (`MinVersion = 2`) or
  accepted and able to hang the broadcast (`notifier_safety`). One message in flight
  per connection at the time of a request is enough for a repeated request
  to be answered twice, since requests already registered are not in flight.
* Store. Six transactions with a cache of three let the ring wrap, start full, empty and with
  id 0 (`max_id = size - 1`); three crashes tear a batch, tear it again while it is
  repeated, and restart. Sizes 1 to 4 were checked with smaller logs.
* Listener. Five transactions and three names allow two moves and a change,
  a move of a moved object, a move there and back, with one crash at any place of any
  of them, also between a module and the cache (`Killed`). The three transactions of
  `listener_import` and `listener_crash` are a move and one more change, before, within or
  after the import or the crash.
* Client. With three transactions and batches of two a request can be answered at
  once, later, or with an id two ahead; two faults lose the connection once more
  after a reconnect. `MaxMsgid` bounds a connection that only idles and exchanges `ALIVE`.
* Allocators. Two ranges with a gap (1-2, 4) and a user who has 2 make an
  allocation run into a used number, the end of a range and the end of all. The life
  of a lock is one tick of three, so that locks expire once or twice under
  their holders.

Deadlock checking is on for `notifier_live` and `notifier_lostwakeup`. It is off where
the system really stops: when the bounded log is worked off (`listener_*`,
`notifier_store`), when all jobs are done (`alloc_*`), and after `BroadcastHangs`
(`notifier_safety`), where the process spins in the loop and changes no state.

Fairness. `FairSpec` of the notifier is weak fairness of the process as a whole,
`Start` included: one thread whose steps follow each other, restarted by
its supervisor. It says nothing of slapd or the listeners. `PatientSpec` adds that
listeners read what they are sent and repeat their request after `DELAY_ALIVE`, which
`notifier_listen` does; it is used where it strengthens a counterexample. `FairSpec`
of the listener is weak fairness of its process, restart included; `FairSpec` of the
client is weak fairness of the notifier's answers and of the listener's loop, whose
timeouts always come. `LdapServerDown`, `Crash`, `LoseConnection` and
`ResyncLdif` are outside these formulas. Crashes and other faults are bounded; the LDAP server
may be down for any number of tries, but weak fairness lets a later try succeed, as
the code's loop over `reopen` supposes. Nothing is claimed to happen in
the end for the allocators, which give up when a lock is refused.

The run `notifier_live` has `TfMayFail = FALSE`: with batches left out of the
transaction file, a crash before the broadcast makes the next start read
a lower last id, and nobody publishes the batch again until another change comes.

## 5. Proofs

All theorems hold for any values of the constants that satisfy the named
assumptions, which say that bounds are naturals, that given sets are subsets of each
other and what a null value is not; TLC evaluates them in every run.

| module | theorem | statement |
|---|---|---|
| `NotifierProofs` | `TypeCorrect`, `Invariance` | `Spec => []TypeOK`, `Spec => []IInv` |
| | `NothingLost`, `Ordered` | `Spec => []NoTransactionLost`, `Spec => []LogOrdered` |
| | `AnnouncedDurably`, `NoStepBack` | `Spec => []AnnouncedIsDurable`, `Spec => []NeverGoesBack` |
| `NotifierRefinement` | `Refinement` | `~TfMayFail /\ Spec => ImplementsLog` |
| `ListenerClientProofs` | `TypeCorrect`, `AnswersAreNewer` | `Spec => []TypeOK`, `Spec => []AnswerIsNew` |
| | `RequestsAreKept`, `HandledInOrder` | `Spec => []RequestIsKept`, `Spec => InOrder` |
| `ListenerProofs` | `TypeCorrect` | `Spec => []TypeOK` |
| | `FailedLdif`, `CascadeIsComplete` | `Spec => FailedLdifStops`, `Spec => []CascadeComplete` |
| `ListenerCacheProofs` | `CacheIsRight` | `Undisturbed /\ NoneForgotten => (Spec => []CacheConverges)` |
| `ListenerModulesProofs` | `ModulesAreTold` | `Undisturbed /\ NoneForgotten /\ Uncached = {} => (Spec => []ModulesConverge)` |
| | `ListedModulesSucceeded` | `Undisturbed /\ NoneForgotten => (Spec => []ModulesSucceeded)` |
| | `ToldModulesAreListed` | `Undisturbed /\ NoneForgotten /\ Uncached = {} /\ MatchAll => (Spec => []ModuleIsStillCalled)` |
| `AllocatorsProofs` | `TypeCorrect`, `LocksAreHeldOnce` | `Spec => []TypeOK`, `Spec => []LockIsHeldOnce` |
| | `NumbersAreUnique`, `NumbersAreApart` | `Spec => []NumbersUnique`, `Spec => []UsersAndGroupsApart` |
| | `UserNamesAreUnique` | `Spec => []UserNamesUnique` |
| `NotifierStoreProofs` | `TypeCorrect` | `Spec => []TypeOK` |
| | `AnswersAreRight` | `Spec => []GetDnIsRight` |
| | `LastIdIsAlwaysDone` | `Spec => []LastIdIsDone` |

None of the properties is inductive; each argument is its invariant.

**Notifier.** That a transaction is in some file depends on why `unlink` may remove
`listener.priv`, which depends on what the loops over the batch have done.
`IInv` says it with one number,

    Base == written - Len(listener) - Len(priv)

The ids written are three consecutive runs: 1..`Base`, then `listener.priv`, then
`listener` (`FilesSplit`). 1..`Base` are in the transaction file or were left out of it.
While the loops run the batch is `listener.priv` (`BatchIsPriv`), what they have passed
is in `cn=translog` (`LdapFirst`) and in the transaction file (`FilesNext`), so that
`unlink`, the only step that moves `Base`, may move it. What is broadcast are the ids
that end at `Base` (`BroadcastLast`), and while requests are served `notify_last_id`
is `Base` (`LastIdIsBase`), or lower if something was left out; so nothing above `Base` is
ever announced (`AnnouncedBelowBase`). `AnnouncedIsDurable` follows because 1..`Base`
are durable, `NeverGoesBack` because `notify_last_id` is `Base` again before the first
request after a restart.

**Refinement.** If the file can always be opened, its lines are exactly 1..n
(`Complete`): a line is either a repetition, a stutter of the log, or id n + 1, its
`Store`. A listener asks for the transaction after its last (`AsksNext`) and no answer
in flight is for more than was announced (`OnlyAnnounced`), which is stored by
`NotifierProofs`; so `Receive` is a `Tell` or a stutter. The assumption is needed: a
batch left out of the file is announced and never stored.

**Listener's client.** MSGIDs grow while a connection lasts (`MsgidsGrow`), and a
connection starts with nothing in flight. So a message that bears the MSGID of the
present request belongs to it (`RequestIsCurrent`, `AnswersAreNew`), although the
request may be sent, and answered, several times; what is answered is published
(`AnswersArePublished`, `IdIsPublished`), and what waits at the notifier is not
(`WaiterWaits`), so that no batch can step over it (`Kept`).

**Listener.** `InHand` says which of the variables of a transaction are set at which
place, without which `TypeOK` does not hold after the next step. `failed.ldif` may appear
only where `Finish`, which checks it, has still to be passed (`LdifChecked`). The cascade
file has 1..`master` and whatever a crash repeats; the place in `notifier_listen` says how
far the file is ahead of the master entry, by one transaction or by the two of a move
(`Position`, `MovesAreWhole`).

**Listener's cache.** `CacheConverges` speaks of the moment when all is worked off; the
invariant has to say what will put an entry right that is wrong now. `Fits` does, for a
name: what is cached there is of the object that has the name in LDAP; if LDAP shows
nothing there, a `d` or `r` of that name waits; and if it shows an object, the entry is
that object with its modules listed, or an `a` or `m` of that name waits, or the
entry may be missing or old (no module wants the object, or the cache filter leaves it out). `Cached` says
it of every name and of the transactions behind the one that is worked off.

A transaction in the file has a name and no object, and its name need not be in LDAP
any more. Which object a waiting transaction is about can be read off neither
LDAP nor the cache once the object has been moved twice, so the
invariant is `\E who : Following(who)`: some function attributes an object to
every transaction so that each name that waits belongs to one object (`Attributed`).
LDAP operations extend the function, the listener keeps it. `Directory` says
what is external: moves are written as pairs and a name is not taken again while
transactions about it wait. `Placed`, `Stashed`, `AtHand` and
`Seen` say, for each place, what `id`, `prev`, `cur` and `found` have to do with the log,
LDAP and the cache: above all that what a search found is still so, or a transaction
behind the present one will tell (`Seen`), and that nothing hides a moved object
between its `r` and its `a` (`Stashed`). `Loading` is about imports: a visible
name that is no longer to be looked at is cached for the module at work or will be
(`Imported`).

The hypotheses are on the constants, and TLC finds `CacheConverges` violated
without each of them:

* `Undisturbed`: names are not reused, nothing is deleted while a transaction
  is worked on (that is `listener_deleterace`), and if moves may happen then, no name is
  restricted: a move out of sight followed by another is, to the listener, a delete. The run
  `listener_import` has both, moves and a restricted name, but with its three
  transactions never two moves.
* `NoneForgotten`: a module that may fail is not initialised beside another one.
  `clean` takes the module off the lists and drops the entry nobody else is
  on. With the failed module not on the list either, an object that matches
  the filter of a module that is ready is cached no longer.

Crashes at any step, kills, the cache filter, failing modules and `failed.ldif`
need no hypothesis.

**Listener's modules.** `Telling` relates `told` to the lists of modules in the cache, for
the modules that are ready or being initialised and do not fail (`Reliable`). Crashes are
allowed at every step, in any number, with `Killed` or without. A crash between the modules
and the cache is why the parts of `Telling` differ in what they say of a name:

* A module on a list matches the entry (`ListedMatches`).
* A module on a list has been told of the object, if it is visible (`Knows`); this holds of
  every name. It has been told the state that is cached (`Agrees`) if the name is not
  in `severed` and the cache filter leaves nothing out (`ListedTold`). Where the modules have been called
  and the entry is about to be written, what will be written is what they have been told.
* A module that has been told of a name not in `severed` is on the list there, or the
  entry that lists it is in hand (`ToldListed`).

Since the cache is right once all is worked off, so is what the modules know.
What is not obvious is that `Knows` survives the steps of slapd and a crash. A name that
comes into sight under a list of modules would break it; but a name that is taken anew is
one no waiting transaction is about (`AppearsUnawaited`), so nothing is cached there or in
hand. A crash leaves the cache as it is and adds to `severed` just the name for which
`Agrees` or `ToldListed` relied on the entry in hand. The conditions, beside the two of the cache:

* `Uncached = {}`: a module is compared with the cached entry, which the cache
  filter leaves behind. That a listed module has once accepted the object holds with any filter.
* `MatchAll`, for `ToldListed` only: every filter matches every content (section 7).

Excepted in the properties themselves are, beside `severed`, the modules in `MayFail` and those
that are not ready. A module whose import was given up is not called any more, but stays
listed in the entries it was told of, and a move carries the list to names it
never hears of. The theorems say that a failing module does not harm the others:
`handlers_update` goes on to the next module, and an exception only keeps the module that
raised it off the list.

**Allocators.** From its search for a value until its object is added a process
holds the lock of that value, so nobody else adds an object with it
(`NumberStaysFree`, `NameStaysFree`). A process that allocates a number holds the locks of
both kinds at its search; afterwards it keeps its own. Of a user and a group that
want the same number, the one that searches later needs a lock the earlier one
still has (`OtherKindStaysFree`, `ReservedApart`). Everything is said of locks that are
not spoilt, which is all the code can promise (section 6, `alloc_takeover`).

**Notifier store.** The three parts are about the file, the index and the ring. A
crash tears only the last line of the file, and never the first line of a batch, which
fits into the buffer of stdio (`FirstUnbroken`); what is appended to a torn line is a
whole one, which it swallows (`HeadsBegin`). The batch is then written again, so behind
every torn line of what is done stands a whole one that begins where a scan looks
(`Mended`), and all lines of what is done stand before those of the present batch
(`Ordered`); both are stated of the file on disk and of the file with its buffer. An
index entry of what is done is right, or is not set and the first line of the id begins
before any torn line (`AllFound`): so a scan, which sets the entry to the *last* line it
passes, never sets it to a torn one. In the ring an id is right, or an earlier slot
has it right (`Ring`), which is what the search from the front needs; that it is filled
without gaps at the start follows from `Preceded`: before a line of the batch stand all
earlier lines of it.
`NoneAssumption` says that no line and no index entry is the null pointer.

In `Listener` it says the same of entries, objects, operations and imports, and that an
entry without attributes (`Empty`) is neither null nor an entry.

Only model-checked, since fairness is out of the prover's reach: the liveness properties
`TakenOverIsPublished`, `TakenOverIsAnnounced`, `SignalDrainsListener`,
`EveryTransactionIsFetched` and `EveryTransactionIsDone`.

## 6. Where documentation and code disagree

Each is a run that TLC finds violated; the quotes are in PROJECT.json.

* `notifier_lostwakeup`: `protokoll3.txt` says `WAIT_ID` blocks until a transaction is
  available. `check_callbacks` resets the flag after the callback has run, so a
  signal in between is forgotten: a listener waits, however patiently, for a
  transaction already in the file `listener`, until the next change to the directory.
  The same happens to a signal between `check_callbacks` and `select()`.
  `SignalDrainsListener` states what does hold: an interrupted `select()` drains all.
* `listener_deleterace`: an object moved and then deleted before the listener processed
  the move keeps its old name in the cache, against the comment that the pair of
  transactions decides between a move and a delete.
* `listener_importdeleted`: a comment in `change_init_module` says that an object deleted
  after the search need not be cared about. If it is the last one of the search, the
  import returns `LDAP_NO_SUCH_OBJECT` and the module is switched off until the
  listener is started again.
* `alloc_takeover`: `lock()` documents that it returns until when the lock is acquired,
  or raises `noLock`. Two processes that read the same expired lock both take it over,
  the second one over the valid lock of the first.

## 7. Limits

Observed, and left to the reader because no run has room for it:

* The registry documents 1 to 3 as minimum versions of the protocol. A client of version
  1 that waits makes `network_client_all_write` loop for ever (`network.c:437`);
  `BroadcastHangs` models it, and the properties of `notifier_safety` hold all the same.
* The developer reference (`listener.xml:658`, `675`) says that a module is called if the old
  or the new state matches its filter. `handler__update` matches the new state only
  (`handlers.c:752`) and drops the module from the list that would have it called for the
  delete. So `ModuleIsStillCalled` is checked with a filter that matches everything.
* A client removed by the notifier because `send()` failed keeps its descriptor open and in
  `readfds`, so that `select()` returns at once from then on (`stale`). That the
  listener behind it finds out by `ALIVE` is checked in `listener_client`.
* `ALIVE` and a late answer to `WAIT_ID` may arrive in one packet. The answer then stays
  in the listener's buffer; the listener may take it for silence and end
  (`AliveTimeout`), and is right after its restart.

What the checked properties suppose:

* In `Notifier` lines are written whole; `NotifierStore` tears them, but only behind the id
  (a cut within the digits would make another id) and only as a killed process can: nothing
  is ever synced to the disk, and a power failure may lose more.
* `GetDnIsRight` supposes that batches are not left out of the transaction file, and that
  the index is not removed while the file has a torn line: a scan for the id of that line
  returns it together with the line it has swallowed.
* `ModulesSucceeded` leaves out the modules that may fail. After a move the cache entry
  inherits the module list of the old name (`copy_cache_entry`), so a module that
  fails for the new name stays listed as successful and is not called again,
  although the developer reference says that the list names those that succeeded. It says
  that a listed module holds the object, not in which state, and so holds with any crash.
* `ModulesConverge` and `ModuleIsStillCalled` leave out the names in `severed`. There one
  SIGTERM is enough to leave a module with old contents for good, since `process_move`
  unblocks signals before it stores the entry (`change.c:565`): the import of a
  module `h1` caches d1 with the content "in"; LDAP moves d1 to d2 and changes it to "out"; the
  import of `h2` caches d2 with "out" and `h2` on the list; the move is processed, and tells `h2`
  of d2 with the cached "in"; the listener is stopped. Started again, it finds nothing cached
  at d1, takes the transactions for changes of d2, and finds `h2` up to date with the cached
  "out". `h2` keeps "in". (A move removes the old entry before it blocks signals, too,
  `change.c:543`: a crash there leaves the modules with the old name.)
* `CacheConverges` is checked without deletes racing a move (section 6) and without the
  reuse of names: if a name is taken again while transactions about it wait, the cache
  can keep an object LDAP no longer holds. With restricted names a move
  out of sight that is followed by another behaves like the delete. A module that
  failed beside one that is initialised can lose an entry. These are the hypotheses of
  `CacheIsRight` (section 5).
* `ModuleIsStillCalled` is checked and proved with filters that match everything: see above.
* `Uncached` is empty in all runs: an object that begins to match
  `listener/cache/filter` keeps its last cached entry. A module with an
  attributes list may miss a change that follows, and an import tells it the old entry.
* The names of groups are not among the `Guarded` locks: a group notes its name in
  `self.alloc` before it has the lock (`group.py:498`), and a creation that is refused
  releases the lock of another one.
* `UsersAndGroupsApart` is about allocated numbers. Numbers that were asked for are compared
  with the other kind's without a lock, so a user and a group can both get one.
* `acquireUnique` leaves its lock behind when the value is in use (`allocators.py:189`), and
  `acquireRange` that of the last number of a range; they block the value until they
  expire. `univentionLastUsedValue` may go back when two creations finish in the other
  order; the search for a free number makes up for it.

Not modelled:

* `check_parent_dn` and `fake_container`: they act only on a system with a local LDAP
  server, where they search and add to that server through the modules; the model would
  need a second directory and the replication module's own logic.
* The tree of DN ids in LMDB (`cache_dn.c`) and the encoding of entries: sequential
  code within one LMDB transaction, nothing of which is visible in between.
* The composition of a listener's output file with the notifier of a cascade. The
  two meet in one property each: `CascadeComplete` is what that notifier finds in its file
  `listener`. Unlike slapd the listener repeats lines after a crash, which `Notifier`
  does not assume of its input.
* The schema: an id of its own, stored together with the master entry.
* Loading the Python modules, `prerun` and `postrun`, and modules without `clean()`.
* `univention-translog`, run by hand with the services stopped, and the packets' texts.
* SIDs, mail, host and MAC addresses among the locked values: `acquireUnique` with another
  attribute. A failure after an object was added (`_ldap_post_create`), and changing a
  name.
* The components listed in section 1 as outside the replication.
