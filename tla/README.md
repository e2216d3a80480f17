# Mashroom in TLA+

Mashroom indexes GRIB files, answers searches over the index and shares index
references and extracted data between hosts over TCP.  This directory holds TLA+
modules for the parts of it where threads, sockets and time limits meet and for those
that must survive a restart or lose nothing on the way to a file, the TLC
configurations that check them on small instances, and TLAPS proofs for the parts
where a result for every instance could be had.  Paths below are relative to the
repository, which is `src/` in `PROJECT.json`.

Line numbers in this file and in `PROJECT.json` belong to the commit the modules were
written from.  `PROJECT.json` maps every definition to the lines it models.

## 1. The system

### 1.1 Components

| component | state | operations | talks to |
|---|---|---|---|
| process object (`network/include/abstractprocess.h`, `abstractqueuableprocess.h`) | a `jthread`, a mutex `m`, a `shared_future`, a task queue and `cv` | `execute_process`, `enqueue`, `ready`/`busy`, `wait`, `request_stop`, destruction | owned by the pool (server) and by `Client` |
| connection pool (`abstractconnectionpool.h`, `network/server/connection_pool.h`) | `peers_` (socket to process object), `mp_connections`, the future `result`, a mutex `m` | `add_connection`, `modify_connection`, `polling_connections`, `execute`, `stop` | accept thread, polling thread, workers, stop task |
| multiplexor (`multiplexor.h/.cpp`) | an epoll set, an interruptor (flag and eventfd) | `add`, `modify`, `remove`, `wait`, `interrupt` | pool and `CommonServer`, one each |
| server life cycle (`commonserver.h`, `network/server.cpp`, `program/mashroom.cpp`) | `server_`, `status_`, `accepter`, the accept thread | `deploy`, `launch`, `accept`, `close`, `shutdown`, exit of the program | the command line thread, pool |
| request handling (`src/network/server/connection_process.cpp`) | `mprocess_` (last message received and sent) | `reply` | worker of a process object, data store, extraction |
| message framing (`send.h`, `receive.h`, `message_process.h`) | send and receive buffers, `recv_hmsg_` | `send_message`, `receive_any_message` | both sides of a connection |
| client (`include/network/client.h`, `commonclient.h`) | one socket, one process object, one `MessageProcess` | `connect`, `request` (waiting, not waiting, with a time), `get_result`, `get_intermediate_result` | server, through TCP |
| clients handler (`program/clients_handler.*`) | list of request instances | `connect`, `request` | client |
| socket (`commonsocket.*`) | a shared descriptor | copy, assignment, destruction, options | everyone above |
| data store (`program/data.*`, `data/datastruct/grib1.*`) | index maps, `unsaved_`, `files_`, the files on disk | `add_data`, `find_all`, `match_data`, `read`, `write`, `save` | index, extraction, request handling |
| configuration (`sys/config.*`) | named user and server settings, two files | read, write, add, remove, set up, select | command line, server |
| indexing (`proc/index.cpp`) | result of one command | `execute` | data store, GRIB decoding, clients handler |
| extraction (`proc/extract.cpp`, `proc/extract/write.cpp`) | series per parameter, output files | `execute` | data store, GRIB decoding |
| integrity, contains (`proc/*`) | none that outlives a pass | `execute` | GRIB decoding |
| command line parsing (`cmd_parse/*`) | option tables | one handler per command | all commands |
| serialization, GRIB decoding | none of their own | conversion | framing, data store |

### 1.2 How they interact

A server has four kinds of threads.  The command line thread launches and closes.
The accept thread waits on the accepter, accepts one socket per event, puts it into
the pool and switches its registration to edge-triggered.  The polling thread waits on
`mp_connections` and, for a socket with an event whose process object is ready or
absent, makes a new process object and starts its worker.  The worker runs `reply`:
one message is received, at most one is sent; then it stays in the queue loop of
`after_execution_protected` until it is asked to stop.  `stop()` interrupts the polling
thread, waits for it and starts an asynchronous task that moves the process objects
out of `peers_` and destroys them.

A client owns one process object at a time.  Each request replaces it, which joins
the worker of the last request, and starts a worker that sends one message and
receives one.  The protocol has no request number: a reply belongs to a request by its
place in the byte stream.

### 1.3 What is hard

* lost wake-ups: `notify_one` outside the mutex and before the stop flag; edges that
  are consumed by someone who does not act on them; flag and eventfd of an
  interruptor;
* ownership: process objects moved between `peers_`, the polling thread and the stop
  task; the accepter freed by one thread and used by another; the one future `result`
  assigned by two threads;
* reads without the mutex: `polling_connections` and `ConnectionPool::execute` look
  into `peers_` unlocked;
* time limits: replies that arrive after their request was given up, `wait(timeout)`
  that joins after its time is over, messages sent or read in part;
* failures that are not reported: `request(true)` returns NONE in every case, several
  requests get no answer, `execute` of an extraction returns NONE whatever was written;
* descriptors closed by hand: `use_count()` is read before the share is given up, and an
  assignment closes what other copies still use;
* files truncated and written in place, two that belong together one after the other;
  failed writes that count as saved; a reader that expects another form than the writer
  writes;
* boundaries: messages of length 0, windows that include both ends, rows counted by the
  longest column.

`PROJECT.json` lists these hazards one by one at their lines.

### 1.4 What makes each part correct

* process object: tasks run in order and at most once, none is slept over, the future
  is pending while user code runs, a stop ends the worker;
* pool: every process object has one owner, no worker outlives its object, a busy
  process is not replaced, `stop()` leaves nothing behind, requests are served;
* life cycle: a close that returns leaves no thread serving, the stop task sees all
  there is, interrupts are not missed, freed objects are not used;
* exchange: one worker per client, the reply handed out is the one asked for, callers
  return;
* socket: a descriptor is closed exactly once, and after its last use;
* data store: what was added is found, what is saved is read back, an answer of "no" to
  the question whether to save is respected, a failed write stays unsaved;
* configuration: what was written is read back, the current setting exists;
* extraction: each message asked for is read once and reaches one file; it ends;
* clients handler: a bounded number of connections per host.

## 2. The modules

| module | models | builds on |
|---|---|---|
| `ProcessLife` | what the pool may assume of a process object: new, busy, ready or exited, and asked to stop or not | |
| `QueuableProcess` | the process object in detail: mutex, condition variable, queue, future, stop flag | `ProcessLife` (refined) |
| `QueuableProcess_proofs` | TLAPS proofs for it | |
| `ConnectionPool` | pool, epoll registrations, accept thread, polling thread, workers, `stop()` | `ProcessLife` (every process object is used as it allows) |
| `ConnectionPool_proofs` | TLAPS proofs for it | |
| `ServerLifecycle` | launch, close, shutdown, exit against accept thread, polling thread and stop task | connections and process objects as counts |
| `ServerLifecycle_proofs` | TLAPS proofs for it | |
| `Exchange` | client, worker, TCP streams, `reply` | |
| `Exchange_proofs` | TLAPS proofs for it | |
| `SocketSharing`, `SocketSharing_proofs` | copies of a `Socket`, the shared block and the kernel's descriptor table; TLAPS proofs | |
| `IndexStore` | what the index promises over restarts, without its files | |
| `DataStore` | index command, `save`, exit, start, index file and list file, crashes | `IndexStore` (refined) |
| `Configuration` | user and server configurations, their two files, crashes | |
| `Persistence_proofs` | TLAPS proofs for the two parts that outlive a session, `DataStore` and `Configuration` | |
| `Extraction`, `Extraction_proofs` | reading of input files, series, the three ways of writing; TLAPS proofs | |
| `PointValue`, `PointValue_proofs` | from a position to the bits of one value of a message; TLAPS proofs | |
| `MC*` | the modules TLC runs, with symmetry for pool, sockets and configurations | |

### 2.1 QueuableProcess

The state is the object's members (`m`, `queue`, `future`, `stop`), the program counters
of worker and owner, and four history variables.  `ExecuteProcess`, `BodyDone` and the
worker's actions from `WorkerLock` to `LoopTest` follow `execute_process` and
`after_execution_protected` from one visible step to the next; `CvPredicate` and
`CvSleep` are two actions because `notify_one` is called without the mutex and may come
between them.  `Enqueue` holds the mutex over push and notify as the code does.
`RequestStop` is the locked part of `request_stop_protected(false)`, `StopNotify` and
`StopFlag` its last two statements in their order.  `RequestStopWaiting` is
`request_stop(true)`: it evaluates `ready()`, which locks `m`, with `m` held
(`abstractqueuableprocess.h:55`), and never returns.  No code in the repository calls
`enqueue` on an instantiated process, so this part is checked as a library promise.

`Destroy` is the body of `~AbstractQueuableProcess`, which is a `request_stop(false)`.
After it the members go in the reverse order of their declaration: `cv` and `queue`
(`abstractqueuableprocess.h:10-11`), then `future` and `m`
(`abstractprocess.h:26-28`), all in `DestroyMembers`, and only then does `~jthread` join
(`Join`).  A worker that is not in user code, asleep or gone meets destroyed members with
its next step: `UseDestroyed` takes it to `undefined`, from where the thread may end
(`UndefinedExit`) or not.  No property says anything about what such a thread does.
`askedBefore` remembers whether the flag was already up when the destructor began.

`ProcessLife` keeps only whether one of its functions runs, whether a stop was asked
and whether the worker has gone.  `Life` in `QueuableProcess` is the mapping.

### 2.2 ConnectionPool

A connection is a model value; descriptors are not reused.  `reg` and `edge` stand for
epoll: a level registration reports as long as something can be read, an edge
registration once per arrival.  `AddConnection` and `ModifyConnection` are two steps of
the accept thread with the polling thread free to run in between; `PollFindMisses` is
the outcome of `peers_.find` running unlocked against an insertion, a miss or a fault.
`WorkerLookup`, as unlocked, can miss or fault while the map is being changed
(`Restructuring`: an insertion, or an erase that has not come back).  `PollFind` has
`is_valid()`: a socket that was reset after the event is passed over.  The destruction of
a process object takes two steps (`BeginDestroy` or `StopDestroy` asks the worker,
`PollJoined` or `StopJoined` end the join).  In between (`InDestruction`) `mprocess_`
and the members of the base classes are destroyed, so a worker that is replying or in its
queue loop may become `undefined` (`WorkerUndefined`), and end or never end
(`UndefinedExit`).  `freed` remembers which objects are gone.  System calls may fail:
`accept` returns -1 (`AcceptFails`), the epoll ADD throws after the entry was made
(`AddFails`), the MOD throws (`ModifyFails`), `epoll_wait`, `make_process` or the start
of a thread throws and the polling thread returns (`PollThrows`); `syserr` remembers
which thread met it.  `StopAsk` may be
the waiting form; then the process object is `stuck` as `QueuableProcess` explains.
`remove_connection` and `event_process` have no caller and are left out.

The pool works on process objects without their mutex and queue, so it has to keep to
what `ProcessLife` says of one.  `Life(p)` reads the life of process object p off the
pool's state, and `UsesLife` says that every step of the pool is a step of it or leaves
it alone.  `ProcessLife` is thus what the two modules meet in: `QueuableProcess`
implements it (`ImplementsLife`), and the pool does nothing else with it.

### 2.3 ServerLifecycle

`Launch`, `LaunchRefused`, `DeployFails`, `ListenFails`, `Close(w)` and `Exit` are what
the command line can cause; the steps of a close are separate actions, since accept
thread and polling thread run in between: `CheckAccepter`, `InterruptAccept`,
`InterruptPoll`, `CheckResult`, `WaitResult`, `StartTask`, `StoreTask`, `AwaitAccept`,
`JoinTask`.  `StartPolling` and `StorePolling` are apart because a close may overtake
the accept thread between starting the polling thread and storing it in `result`.

### 2.4 Exchange

A request is its number, which the code does not have: it lets the properties say whose
reply was handed out.  `c2s` and `s2c` are the two directions of the connection.  A
message of which a part was sent or read turns into `Junk` (0 towards the server), and
the reader never gets past it.  `Request`, `Replace`, `RequestReturns` (and `TimeIsUp`,
`TimeoutReturns` for `request(int)`) are the steps of `Client::request`.
`GetResultWaited` has no look at the exception, as `client.h:111-113`.  `Connect` is
`connect(host, port)` on a client whose process is ready: it gets a new socket, and
`recv_hmsg_` stays.  On the server `ReplyIndexRef`, `ReplyExtractError` and
`ReplyNothing` are the ways through `reply`; the file transfer after
`DATA_REPLY_EXTRACT` is not reached, because `file_size` is asked for the directory
and throws (`connection_process.cpp:95`).  `has_more_` is never set
(`message_process.h:181` defines the function and does not call it), so the loop in
`network::request` and the waiting branch of `get_intermediate_result` are dead.

### 2.5 SocketSharing

A holder is a place for a `Socket` object, a block the `shared_ptr<int>` that copies
share; block b was made for connection b, and `table` says which connection a number
means now.  `operator=` and `~Socket` take two steps each (`AssignClose`/`AssignTake`,
`DestroyTest`/`DestroyRelease`), because the block and the table are shared between
threads and nothing locks them; one object is used by one thread at a time (`Mine`).
`AssignEqual` is the branch in which the numbers are equal, which is also taken when
the numbers agree by reuse.  `cut` and `raced` remember the two ways in which this class
can go wrong, so that the properties can say there is no third: an assignment that
closes what copies still hold, and a `~Socket` that counts the share of another thread
which is giving it up, in `~Socket` or in `operator=`.

### 2.6 DataStore and IndexStore

A source (file or host) has a version, the index the version it saw.  The index command
reads sources one at a time (`IndexFile` into the command's own result, `IndexHost` into
the store at once), and may return early (`IndexAbandoned`), which drops what came from
files and keeps what came from hosts.  `AnswerYes`, `ExitDeclined` and `ExitClean` are
the ways out of `Mashroom::save`; each of the two files is truncated (`WriteOpen`,
`ListOpen`) and then filled (`WriteDone`, `ListWrite`), and the program may end in
between.  `Kept` is what the next start would read.  What the library makes of an index
file that was cut short cannot be seen here: it is a submodule, and `data.cpp:11` drops
its result.  `TornIndex` is the assumption that nothing is read from one.
`UnsavedOffered` and `ImplementsStore` rest on it; `NothingConfirmedLost` exempts sessions
after a write that was cut short.  `IndexStore` has only the view the
program answers from, the last index written as a whole and what a start would read.
The search maps of `DataStruct` are not part of the state: re-indexing a file leaves
entries of its former content in them (`grib1.h:62-70`), and `Extraction` takes the
positions it is given as possibly stale for that reason.

### 2.7 Configuration

A configuration is its name: the sets compare by name and no operation changes what is
stored under one.  Both files are modelled by what the reader takes from them: the user
file is written without the keys the reader looks for, the server file has `configs` as
an array where the reader asks for an object, so that it finds none (`StoredServers`).
From an object it would take `as_array()`, which throws out of a `noexcept` function
(`config.cpp:78-79`): `ReadThrows`, which the writer's form never reaches.  `ended` remembers
whether the last `~Config` completed.

### 2.8 Extraction

A message is the parameter and the time of its value; `other` stands for all that the
filters refuse, `Zero` for a message whose length field is 0.  The series of a parameter
is a count per time, since the code sorts by time alone; `Values` names its values one by
one, so that `values.size()` is the number of elements of a set.  `Inputs` are the input
files a command may have; `MCExtraction` bounds them for TLC.  `ScanMessage` is
`__extract__(file)`, `ReadPosition`/`PassPosition` the indexed form, which applies no
filter.  `TxtRow` is one iteration of `write_txt_file`, `WriteWindow` one of
`write_json_file` or `write_bin_file`.  `TxtTerminates` is the second file of a txt
export to a relative path: the name of the second is appended to that of the first.
`OpenCrashes` is an empty file or a directory: `mmap` fails, the pointer is compared with
null and not with `MAP_FAILED` (`message.cpp:198-203`), and a message is read there.
`Period` may be 0, which neither the command nor a request refuses
(`extract.h:102-107,114-115`); then `WriteWindow` goes on for ever.
No code sets the stop token of an `Extract`, so its tests are false throughout.
The extraction code does not look as if it could be compiled at this commit (a
`static_assert` in `extracted_data.h` fails, and `unordered_set<fs::path>` has no hash of
the form it is given); it is modelled as it is written.

`ReadOnce` counts the messages that hold a value (`Sought`) against the series.
`RowsExported` and `WindowsExported` say what an export without errors and with a positive
period holds, the first for txt, the second for json and bin: no file truncates another,
and up to the latest first time of a column nothing is lost.  The window a time lies in is
computed from the time alone (`Own`), without the loop.  Neither says that all data is
written, because it is not (section 5).

### 2.9 PointValue

One message and one position.  `Refuse` and `Locate` are the end of `__extract__`:
`pos_in_grid` and `value_by_raw`.  `checked` says whether the first is asked.  It is when
files are scanned, where the command line requires a grid type (`extract_parse.cpp:59`);
messages found through the index are read without it (`extract.cpp:163-169`).  `correct`
is `is_correct_pos`: without it `value_by_raw` returns UNDEFINED, which is converted to
`int` (`grid.cpp:41,49`).  The rest is `Message::extract_value`, one action per branch and
per round of its loop.  A value is the interval of bits it was made from, not a number:
whether the right bits are taken is the question, and what they say does not matter to
it.  Undefined behaviour (the variables that the bitmap branch never sets, `(1<<width)-1`
from a width of 31 on, the offset of a number that does not fit) returns `any`.

Positions are counted in `1/Sub` of an increment from the first point.  The code computes
column and row in `float`, adds them and truncates the sum (`lat_lon.h:84-85`), so
`ValueByRaw(e)` takes the rounding error e of the sum, up to `Slack` in either direction
and less than one point; that rounding is monotone keeps the sum at 1 or more (`Errors`).
A position on a point may therefore give the point before it.  The corners of a grid are
taken to be `nx - 1` and `ny - 1` increments apart, as the format demands and the code
does not check.  `extract_all` has no caller and is left out.

## 3. The runs

| run | instance | shows |
|---|---|---|
| `process` | 4 tasks | order, at most once, no stranded task, at most one task after the flag, busy while running, no worker asleep in `cv` when it is destroyed if it was asked to stop before, refinement of `ProcessLife`; under fairness tasks are served |
| `process_stop_once` | 1 task | **violated** `StopTerminates`: asked once, the worker can sleep through it |
| `pool_safety` | 2 connections, 3 process objects, 2 requests each, symmetric | no replacement of a busy process, one owner, process objects used as `ProcessLife` allows, `stop()` is final, and where a lookup faults, the accept thread dies or a reply is overtaken by destruction |
| `pool_first_request` | 1 connection | unless a system call fails, the first request is served across the switch from level to edge; `stop()` wakes the polling thread |
| `pool_requests` | 1 connection, 2 requests | **violated** `RequestServed`: the edge of a second request is dropped while the process is busy |
| `server_lifecycle` | 3 clients, 4 commands | a close that returns is final, the stop task sees every process object, the interrupt flag is raised in a live accepter, the accept thread is not missed |
| `exchange` | 3 requests | one worker at a time, which reply `get_result` and `get_intermediate_result` may hand out, callers return |
| `socket_sharing` | 4 sockets, 3 connections, 2 descriptor numbers, symmetric | unless an assignment closes what copies hold, every socket speaks to its own connection; a descriptor leaks only when `~Socket` counts a share that another thread is giving up |
| `data_store` | 2 files, 1 host, 2 versions | what a completed save was confirmed for is in every later session, unless a write failed or was cut short; unsaved data is offered for saving unless a write failed; refinement of `IndexStore` |
| `configuration` | 2 names and the default, symmetric | the current configuration is a registered one; after an orderly end there is a default one |
| `extraction` | 2 parameters, 4 times, 3 messages, windows of 2 | each message asked for is added once; no output file truncates another, and which values an export cannot lose, for rows and for windows; it ends unless a message or a window has length 0 |
| `point_value` | grids up to 3 by 3, thirds of an increment, 11 widths, sums off by up to two thirds | `value_by_raw` gives a point of the grid, on a parallel the right one or its neighbour; `extract_value` takes as many bits as a value has, those of value n for 16 bits and for the first value; nothing outside the section is read for 16 bits or more |

Every property of a passing run has a mutant in `PROJECT.json`: a changed definition,
such as a missing guard or a swapped order, under which TLC finds the property violated.
The type invariants of `ConnectionPool`, `Exchange`, `SocketSharing`, `DataStore`,
`Configuration` and `Extraction` are in no run: section 4 proves them for every instance.

### 3.1 Bounds and why they are enough

* `MaxTasks = 4`: a task can be running, one be taken out and two queued when the queue
  is cleared, and one more be enqueued later.  The safety part is proved for any number.
* two connections and three process objects: one object is being replaced, one is new
  and one belongs to the other connection.  Races in the pool involve one connection
  and the insertion of another.  Two requests are needed for an edge that meets a busy
  process.  One system call fails in a run: after it the thread that met it goes on as
  before or is gone, and a second failure would add nothing to the first.  The safety part
  is proved for any number of connections, objects and requests.
* one connection for `pool_first_request`: with two, `PollFindMisses` can lose the event
  of the first, so `FirstRequestServed` is a promise only for a client alone, which is
  what the repository's tests exercise.
* three clients and four commands: launch, close, a refused launch and a close again,
  then exit, with the destructors' own calls of `stop()`.  The safety part is proved for
  any number.
* three requests: one is given up, its late reply is read by the second, whose own is
  read by the third.  The safety part is proved for any number.
* four sockets, three connections, two numbers: a leak through an assignment takes one
  object in `operator=`, its source and two that share with it, and the numbers are
  given out again.  (With three sockets that way to leak does not occur.)  Proved for any
  number.
* two files, a host and two versions: a file read before and one read after an early
  return, a host added at once, and a source that changes between two saves.
* two names: one can be current while the other is removed.
* three messages over four times with `Period = 2`: a value at the start, one where two
  windows meet and one behind the last window, columns of different length, a shifted
  column; two files with one message each.  `Period = 0` is not in the run: the properties
  on output files exclude it, and what is read does not depend on it.  The safety part is
  proved for any files, times and period.
* grids up to 3 by 3 with `Sub = 3`: inner points, edges and positions between two
  parallels that are carried into the next column; with `Sub = 2` a position is never
  carried a whole row.  `Slack = 2` is the largest error below a point.  The widths are those
  on both sides of every test in the code.  Proved for any grid, any `Sub` and `Slack`
  below it, and all widths.

### 3.2 Fairness

Threads of the program are scheduled (weak fairness of each thread's steps), and a
thread that waits for a mutex which is released again and again gets it in the end
(strong fairness of `WorkerLock` and the like: the holders' critical sections are
short and end).  The exit of a worker of the pool has no fairness: it may sleep through the
request, and it may meet destroyed members.  Nothing is assumed of a thread that did, of
system calls that fail, of clients, of users, or of spurious wake-ups.
`PollJoined` in `ServerLifecycle` has no fairness: the worker that the polling thread
joins there may be the one that sleeps through its stop.  In `Exchange` the client's
threads run and its socket's time limits expire; the server owes nothing.  In
`Extraction` the one thread runs (weak fairness of `Next`): `execute` waits for nobody.

Deadlock checking is off where the system may rightly stop: bounds used up, a client
that asks no more, or a caller of `request(int)` whose server is silent.

## 4. The proofs

Assumptions: that the bounds are natural numbers (`MaxTasksAssumption`,
`RequestsAssumption`, `BoundsAssumption`); that the marks `absent`, `null` and `none` are
neither connections nor process objects (`PoolAssumption`); that descriptor numbers are natural numbers
(`SharingAssumption`); that files and hosts are different things and a source has at
least one version (`StoreAssumption`); that no configuration can have the empty name,
which the option `--name` refuses (`NamesAssumption`); that a period, which may be 0, is a
multiple of its smallest unit (`ExtractionAssumption`); that a grid has a side, an
increment is divided, the rounding error of a position is less than one point, which 24
bits of mantissa give for grids of up to about a million points, and a width fits
`uint8_t` (`PointAssumption`).  `TornIndex` (section 2.6) is an assumption as well, in the
form of a definition.

**QueuableProcess_proofs.**  `IInv` is the conjunction of `TypeOK`, `LockInv` (the
worker holds `m` in exactly the locations that say so), `OrderInv` (started tasks,
current task and queue are increasing and bounded by what was enqueued), `InOrderOnce`,
`NoStrandedTask`, `LateInv`, `FutureInv`, `StartInv` and `OwnerInv`.  `NoStrandedTask` alone is not
inductive: that the worker between predicate and sleep has an empty queue follows only
because it holds `m` there, which is `LockInv`, and because `Enqueue` needs `m` and
notifies.  `AtMostOneLateTask` needs `LateInv`: after the flag the worker can only have
one task in hand, the loop test ends it.  `BusyWhileRunning` needs `FutureInv`.
`NoSleeperInDestroyedCv` needs `OwnerInv`: a worker that was asked before the destructor
began does not go to sleep again, and is notified before the members go.  `LockInv`
speaks of `m` only as long as there is one.  The
theorems are `TypeCorrect`, `TasksInOrderOnce`, `NoTaskStranded`, `LateTasksBounded`,
`RunningIsBusy`, `CvDestroyedUnused` and `LifeRefinement`, the last one by mapping the initial state and
every action to a step of `ProcessLife` or a stutter.

**ConnectionPool_proofs.**  `IInv` is `TypeOK`, `CountInv` (each request was answered or
is in the receive buffer), `LockInv` (who holds `m` where), `NewInv`, `PollInv`,
`StopInv`, `OwnInv`, `FreedInv` (the freed have no running worker) and `FaultsOnlyWhere`.  The polling thread looks
into `peers_` without `m` and acts later under `m`, so what it saw must still be so:
`PollInv` says that the entry is still there, that a process object it found ready
stays ready, and that a new one is its own until it is executed.  This holds because
nobody else erases or replaces (`StopInv`: `stop()` touches `peers_` only when the
polling thread has returned) and because a connection the accept thread adds is new
(`NewInv`: nothing was ever made for it), so `AddConnection` overwrites nothing.
`OwnInv` says which of `peers_`, polling thread, `stop()` and the freed has a process
object, and that its entry is that of the connection it was made for; this gives
`OwnedOnce` with one fact on cardinalities (`EntriesOf`).  It also says that an object in
`peers_` was not asked to stop, and therefore that a worker which finds its entry null has
been taken by `stop()`: one of the causes `FaultsOnlyWhere` names.  The theorems are
`PoolTypeCorrect`, `ReplacedIsIdle`, `StoppedForGood`, `OneOwner`,
`FaultsHaveOneCause` and `PoolUsesLife`, the last one by `LifeStep`: an object is asked to
stop only when it was started (`PollInv`, `StopInv`) and started only when it is new.

**ServerLifecycle_proofs.**  `IInv` is `TypeOK`, `CountInv` (no more connections than
clients, no more process objects than connections), `LaunchInv`, `FlagInv`, `QuietInv`
and `EndInv`.  `QuietInv` is the heart: once `stop()` is past `result.wait()` with the
flag up, the polling thread handles no event and is in no join, and it stays so, since
it tests the flag after each wait (`FlagInv`).  If `stop()` looked at `result` before the
accept thread stored the polling thread there, `LaunchInv` (`Early`) says that there is
no connection yet.  `TaskSeesAll` follows.  `ClosedForGood` needs `EndInv` as well: every
way out of a close goes through the accept thread's future, and the flag is up from
`InterruptAccept` on (`pc = "awrite" => aintr`), which `FlagInLiveAccepter` needs for the
second and third interrupt of the destructors.  The theorems are `LifecycleTypeCorrect`,
`CloseIsFinal`, `StopTaskSeesAll` and `FlagMeetsAccepter`.

**Exchange_proofs.**  `IInv` is `TypeOK`, `WorkerInv`, `FlightInv`, `RecvInv` and the
three results.  `OneWorker` rests on `WorkerInv`: the worker that runs is `process`'s,
and `process` is the last request's (or the one before, while it is being replaced).
`ReadyResultIsNew` and `ResultFresh` rest on `FlightInv`: a request number is at one
place only (towards the server, in its hands, on the way back), and only while its
worker waits or has gone without its reply.  So when a worker reads a message, either it
is its own or its owner is in `lost`, which is what `RecvInv` keeps about `recv_hmsg_`.
The theorems are `OneWorkerAtATime`, `ResultsAreFresh`, `ReadyResultsAreNew` and
`ExchangeTypeCorrect`.

**SocketSharing_proofs.**  `IInv` is `TypeOK`, `BlockInv` (blocks that were made have a
number, holders hold such blocks), `AssignInv` (an object in `operator=` has a source
which is at rest), `OwnConnection` and `OpenInv`.  `LeakOnlyByRace` is not inductive: an
object that is about to give up its share still has the number, so `OpenInv` asks for a
holder at rest.  `CloseInv` and `TakeInv` are the two halves of all the operations:
closing a number and taking a share.  The theorems are `SocketsKeepConnection`,
`DescriptorsLeakByRace` and `SharingTypeCorrect`.

**Persistence_proofs.**  First `DataStore`, which the module extends.  `IInv` is
`TypeOK`, `VersionInv` (nothing is newer than its source, and an index command never
carries an older version than memory has), `WriteInv` (what `Data::save` has left when
the list of files is written), `KeptInv` (the files hold what was confirmed whenever
neither is truncated), `OfferInv` and `NothingConfirmedLost`.  The last one needs
`KeptInv`, because a start reads the files, and `VersionInv`, because a later save must
not go back.  The theorems are `ConfirmedIsKept`, `UnsavedIsOffered`, `StoreTypeCorrect`
and `StoreRefinement`: every step is a step of `IndexStore` or leaves its view alone.
Then `Configuration`, whose definitions do not share a name with those of `DataStore`.
`ConfigInv` is `ConfigTypeOK`, `ConfigFileInv` (a completed `~Config` leaves a server file
that parses), `CurrentRegistered` and `DefaultAfterOrderlyEnd`.  The theorems are
`CurrentIsRegistered`, `DefaultIsThere` and `ConfigTypeCorrect`.

**Extraction_proofs.**  `IInv` has a part for each phase.  While files are read,
`PlaceInv` says where reading is and that positions are taken and files skipped behind
it, and `CountInv` that the series has one value for each message asked for that reading
has passed (`Got`).  `ReadOnce` speaks of the end alone and is not inductive; it follows
since at the end `Got` is `Sought` (`AllGot`).  A message of length 0, whose value is
anything, is excluded there by `NoZeroLength`, as in the property.  `SizeInv` says that the
series are finite and have a longest one, so that `MaxLength` exists.  While rows are
written, `RowsInv` says that what is in the files and what is left make up the data,
that the values of a time are in one file, and where the open file stands: it began at
`limit - Period`, earlier files have lower names and earlier times, and nothing that is
left is earlier than what was written.  So a new file never has the name of an earlier
one (`NewName`; a Unit is not longer than a Period), and truncating it loses nothing.
`LeftInv` counts: a row takes at most one value of a column, so while rows are left there
are values left (`ValuesLeft`, without which the earliest time left would be undefined);
it takes exactly one of a column that is `Longest`, which therefore ends with the last
row, and all others with it.  While windows are written, `WindowsInv` gives the exact
content of every file; `WindowOrder` and `WindowPlace` do the arithmetic of the property
(that windows do not share a name, and that a time is in its `Own` one).  Both parts on
output files hold for a positive period; the rest for any.
The theorems are `EachReadOnce`, `RowsComplete`, `WindowsComplete` and
`ExtractionTypeCorrect`.

**PointValue_proofs.**  `IInv` is `TypeOK`, `ReadInv` (pointer and bits read move
together: `8 * bits - t_bits` stays `16 * (n - 1)`), `ValueBits`, `IndexInGrid` and
`NumberInv` (the number found stays one of the grid's to the end of the call).
`InGrid` does the arithmetic of `value_by_raw`: with the position as whole increments
and a rest, the sum is `Sub * Point` plus the rests and the rounding error, and
`DivBounds` says what the conversion makes of it.  `InsideSection` follows from `IInv`.  The theorems are
`PointOfTheGrid`, `BitsOfTheValue`, `StaysInSection` and `CallTypeCorrect`.

Only model-checked: all liveness (`TaskServed`, `PollStops`,
`FirstRequestServed`, `InterruptEndsAccept`, `CallReturns`, `ExtractionEnds`), which the
prover does not handle.  Every safety invariant, action property and refinement that a
run checks is also a theorem.  Sums over series would need induction over data, which is
out of its reach; numbers of messages and of values are cardinalities of sets instead,
which grow by one element at a time (`OneRead`, `OneMore`).

## 5. Disagreements between code and its comments, tests and assertions

Two violation runs show what takes several steps to reach and can be set against a
sentence of the repository; `PROJECT.json` quotes it under "findings".  The passing runs
contain further disagreements: the model has the step in question, and a property says
where its effect ends.

* `stop()` moves a process object out of `peers_` while its worker is starting, and
  `assert(process)` (`connection_pool.h:20`) fails (`abstractconnectionpool.h:150`).
  `FaultsOnlyWhere` shows that the program ends only so, or by one of the two lookups that
  run unlocked against a change of `peers_` (`connection_pool.h:19`,
  `abstractconnectionpool.h:107`).
* a client that resets between `add_connection` and `after_accept` ends the accept
  thread: `invalid_argument` passes the handlers for `runtime_error`
  (`abstractconnectionpool.h:62`, `server.cpp:32`); `FaultsOnlyWhere` shows that only a
  reset or a failed system call does.
* the members of a process object are destroyed before its thread is joined
  (`abstractprocess.h:26-28`, `abstractqueuableprocess.h:10-11`,
  `connection_process.h:28`).  `IdleWhenReplaced` and `NoSleeperInDestroyedCv` say what is
  safe all the same: no reply is under way in an object that is replaced, and a worker
  asked to stop before the destructor is not in `cv.wait`.  A HangUp (`PollErase`) and
  `stop()` destroy busy objects, and the queue loop may meet destroyed members in any.
* two clients behind one edge of the listening socket, one `accept`: the second waits
  for a third (`commonserver.h:109,181`).
* the accept thread frees the accepter between flag and write of `interrupt`
  (`commonserver.h:170`, `assert(interruptor)` in `multiplexor.cpp:87`);
  `FlagInLiveAccepter` shows that the flag itself is always raised in a live one.
* a `~Socket` that overlaps with another one or with an assignment leaks a descriptor,
  and an assignment closes one that copies still hold (`commonsocket.cpp:45,95`).
* `request(true)` returns NONE whatever its worker met (`client.h:72`), and
  `tests/mashroom_data_exchange_test.cpp:78-81` takes NONE for success: after a request
  that failed `get_intermediate_result` hands out the reply kept from the one before it.
  `ResultFresh` shows that this takes a failed worker.
* `bits += 2*(n-1)` is called "even offset to the n - value of datum" (`message.cpp:50`):
  with any width but 16 every value except the first is put together from bits of its
  neighbours, and below 16 bits the last are read behind the section.  `ValueBits` says
  where the comment is right, `InsideSection` where reading stays in the section.
* a position between two parallels is looked up in another column, up to a whole row off,
  and one on a point may give the point before it (`lat_lon.h:84-85`: in `float` 90 -
  89.3 divided by 0.1 is less than 7).  A message found through the index is read at the
  position asked for without a look whether it is in the grid (`extract.cpp:163-169`).
* an index that could not be written counts as saved (`data.cpp:93`); `~Data` saves after
  an answer of "no" (`data.h:57`, `mashroom.h:97`).
* no server configuration but the default survives a restart (`config.cpp:78,142`); the
  first session has no default one, and removing any then dereferences `end()`
  (`config.cpp:211`).
* `extract_parse.cpp:78-80` says that all extracted data is separated by files: json and
  bin leave out what comes after the last window and write values where windows meet
  twice (`write.cpp:251,281`), the windows begin at the first time as it is, without the
  flooring that is spoken of, a zero period, which `extract.h:102-107,114-115` accept,
  writes the first window for ever (`write.cpp:258-300`), an empty file or a directory ends
  the program (`message.cpp:198-203`), txt cuts columns that are shifted against each other
  (`write.cpp:196`), the second txt file of a relative path ends the program
  (`write.cpp:205`), and a message of length 0 keeps the scan for ever
  (`extract.cpp:83`).

Others need no model checker to see:

* a request that finds no descriptor left takes the instance of an earlier request out of
  the list, and pops an empty list if there is none (`clients_handler.cpp:30,36`);
* with a bitmap `extract_value` returns what was on the stack (`message.cpp:24`);
* `request_stop(true)` locks `m` twice (`abstractqueuableprocess.h:55`);
* `stop()` passes references to its parameters into a task that outlives the call
  (`abstractconnectionpool.h:139`);
* a server that was closed cannot be launched again: `status_` stays READY because
  `at_closing()` has no caller (`mashroom.cpp:137-139`);
* the option `close` has a default value, so every server command without `--launch`
  closes (`server_parse.cpp:38-52`);
* a close hangs behind a worker that never joins;
* in `~AbstractConnectionPool` the mutex `m` goes before `result`, whose task uses it;
* `request(int)` sets no limits on the socket and joins after its time is over, so a
  silent server holds the caller (`abstractprocess.h:86`).

## 6. What is not modelled

* The clients handler: one list that only the command line thread uses.  An instance and
  its request are the `Client` of `Exchange`.
* Serialization: its templates live in a submodule that the repository only refers to.
* GRIB decoding beyond `PointValue` and the walk over messages in `Extraction`, the code
  tables and grid definitions: bit layouts, floating point and generated tables.  They
  are most of the repository's lines (the tables under `API/grib1` and `API/grib2` alone
  are more than half) and have no state and no control worth a model, so the share of all
  lines that the map covers stays small.
* The search over `DataStruct` (`grib1.h`, `grib1.cpp`): in the middle of a rewrite,
  with functions whose types do not fit their declarations (`grib1.cpp:52,153`).
* Integrity: one sequential pass over a file, in code that uses a `unique_ptr` as the
  object it holds (`integrity.cpp:69`) and does not compile.  Contains: commented out.
* Command line parsing: option tables.  The commands that change state are actions of
  the other modules.
* The archive written after an extraction, the stop token of `Extract`, headers,
  formatting, logging and messages to the user.
* `collapse_server`, `configure`, `setup_server_config`, `add_user_config`,
  `Data::write(file)` and moving a `Client`: empty, without effect or without a caller.

## 7. Plan

Algorithms as functions against a reference, once the index structures settle: merging of
time series and the search of the index.
