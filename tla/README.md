# A model of HighloadCup's server

`src/` is an in-memory HTTP server: users, locations and visits are loaded from
a data set, then inserted, updated and queried over HTTP. One thread accepts
connections, three threads (`processor`) parse and answer requests, and one
background thread belongs to `base`, the object that holds the data. This
directory holds TLA+ modules for what those threads do with the shared data,
TLC configurations that check them, and TLAPS proofs about the modules.

Contents: the inventory; the modules and how they correspond to the code; the
runs; the assumptions about fairness; the proofs; what is not modelled; the plan.

## 1. Inventory

| Part | State | Operations | Interacts with | What is hard | What makes it correct |
|---|---|---|---|---|---|
| Connections (`hl_server`, `processor`) | sockets, epoll sets, `m_stop_flag` | accept, give, read, close, stop | kernel, peers | start-up race, reused descriptors, one read per request, shutdown | every connection is served by one thread, answered in order, and closed only when its peer left |
| HTTP parser (`sp_http_proto`, `request`) | method, path, parameters, data pointer | parse | processor's buffer | one object for all reads, parts of requests, boundaries | what is parsed is what was written |
| Request dispatch (`processor::handle`) | the parsed request | 5 kinds of request, 4 answers | parser, `base`, socket | nested conditions, exceptions, assertions | every request gets one answer, the one its kind calls for |
| Validation (`deserializate`) | the object that is filled | insert and update bodies | called by `base` | required members, limits, partial effect of a refused body | stored objects are complete and within limits |
| Users and locations | the object and its cached text | insert, update, forced refresh, GET | handlers overwrite the object themselves, the worker refreshes the text, GETs share the string | a GET that fills the cache late; a string cleared while it is sent | settled writes leave a fresh text; an answer is whole |
| Visits and indexes | `m_visits`, `m_user_visit`, `m_location_visit` | insert, update, serve a task | handlers write the map, only the worker writes indexes and existing visits | nothing locks a visit's fields; update overtakes insert; copies of stale visits; tables that cannot erase | the indexes agree with the visits; accepted writes take effect whole and in order |
| Background worker (`base.cpp` 26-132, ends of `insert`/`update`) | three queues, a mutex and an atomic flag each, `m_cv`, `m_stop_flag` | push-flag-notify, wait, swap, serve, stop | request threads push; destructor stops it | users and locations notify under a mutex the wait does not use | no task lost, doubled, reordered; visit tasks served; the destructor returns |
| Queries `get_visits`, `get_mark` | `m_buffer_for_avg` | filter, order, average | read maps and indexes without locks | indexes between two steps; shared buffer; equal timestamps | an answer is right about what was not written meanwhile |
| Ages (`base.h` 92-134) | the date and the table of 100 ages, made at start-up | look-up, computation beyond the table | `get_mark`, `atoi` | the second of a birthday, 29 February, days that pass, an int year that wraps | an age limit separates the right birth dates |
| Loader and `main` (`highloadcup.cpp`) | the archive, the data files, a child process | wait, unpack, scan, insert, listen | `base`, `hl_server` | an archive that is still being written, files of an earlier start, objects that cannot be taken, addresses that fail, the way out | the server runs, and holds what the files say |
| Numbers (`util.h` 23-67, `format`) | none | `atoi`, `itoa`, `set_all_bits` | dispatch, parser | widths, bytes that are no digits | a text is converted exactly or refused, without overflow |
| Lengths of texts (`util::length_utf8`) | the locale of the process | measure | called for every text that `deserializate` limits | `mblen` fails with -1, which is added; the locale may be missing | a text is measured by its characters, and the measuring ends |
| `http_proto`, `types`, `log`, `stream`, the rest of `util` | | | | | not modelled, see section 6 |

A request's way: a peer's bytes reach the processor its connection was dealt to
(`Server`), are parsed (`HttpParse`), dispatched and validated (`Dispatch`), and
read or write the data (`ObjectCache`, `VisitIndex`, `Query`); writes go on in
the background thread (`BaseWorker`).

The hazards behind these entries, each at its line, are in `PROJECT.json`.

## 2. Modules

| Module | Role |
|---|---|
| `TaskQueue` | abstract: one FIFO of tasks per kind of entity |
| `BaseWorker` | the hand-over of tasks to the background thread, implements `TaskQueue` |
| `BaseWorker_proofs` | theorems about `BaseWorker` |
| `VisitStore` | abstract: visits, and a log of accepted writes that take effect whole and in order |
| `VisitIndex` | visits, the two indexes and the background thread's work on them, implements `VisitStore` |
| `Query` | the two queries; extends `VisitIndex` and reads its state while it changes |
| `ObjectCache` | one user or location and its cached serialization |
| `Server` | connections, descriptors, epoll sets and the threads that serve them |
| `Dispatch` | requests one after the other: what is decided, validated, stored and shown |
| `HttpParse` | the parser and the query string |
| `Numbers` | the conversion of a text to an integer type |
| `Utf8` | the length of a text in characters |
| `Ages` | age limits; extends `Numbers`, which converts the ages |
| `Startup` | `main`, `load` and the listening socket, up to the server's loop |
| `Query_proofs` | theorems about `VisitIndex` and `Query` |
| `Ages_proofs` | theorems about `Numbers` and `Ages` |
| `ObjectCache_proofs`, `Server_proofs`, `Dispatch_proofs`, `HttpParse_proofs`, `Utf8_proofs` | theorems about these |
| `MC...` | instances of these for TLC |

`BaseWorker`, `VisitIndex` and `ObjectCache` look at the same threads from three
sides. `BaseWorker` has the queues, locks and flags and leaves out what a task
does; `VisitIndex` and `ObjectCache` have what tasks do and take for the queue the
FIFO that `BaseWorker` implements (`VisitIndex`) or a count of equal tasks
(`ObjectCache`, where all tasks of one object do the same). `Dispatch` takes each
request for one step, since the races between them are the other modules' subject,
but lets the background thread lag behind.

### BaseWorker

The code has three copies of one block, for visits, users and locations; the
module has functions on `Kind`. `m_mutex["visit"]` is `m_tasks_mutex`, which
`m_cv.wait` and the destructor use too. A handler's block is three steps
(`HandlerPush`, `HandlerSetFlag`, `HandlerNotify`), with the mutex held from the
first to the last. Mutex and push are one step, since the queue is touched only
under the mutex; so are the worker's lock, swap and flag reset (`WorkerSwap`).
The wait is split where it matters: `WorkerWait` locks and evaluates the
predicate, `WorkerBlock` releases and blocks, and a notification between the
two is lost. Flags that the code reads without a lock (`WorkerLoop`,
`WorkerCheck`) are read in steps of their own. Spurious wake-ups are allowed.

### VisitIndex

A visit is a function on four fields, two of which (`IndexField`) have an index;
its id never changes. Each index operation, each field `visit(visit&)` copies and
each field `move` writes is a step, and handlers and the worker interleave between
any two of them. `old` is `ts.m_old_ptr` after the
constructor's arguments are taken into account: `update` passes the copy first
and the stored visit second. For an insertion `m_new_ptr` is the stored visit
itself, so `ListInserted` reads the keys the visit has *when it is served*; this
is why an update that overtakes the insertion does no harm. A list that is absent is the empty set.

The tables are `dense_hash_map`s with an empty key (0, `src/base.cpp:31-36`) and
without a deleted one. With assertions, which nothing in `CMakeLists.txt` turns off,
two operations on the indexes abort the process: the erase of a list that has become
empty (`EraseLast`), for want of a key to mark its bucket with, and `operator[]` for
user or location 0 (`InsertEmptyKey`), which no check keeps out of a visit. `wstep` is
then `"aborted"` and nothing happens any more (`Alive`). That a visit's own id is not
0 is `Dispatch`'s subject. `EndsOnlyWhenLast` says what it takes: a visit that moves
away from a list with another one on it is safe.

`MCVisitIndex` has two kinds of behaviours, chosen at the start (`mode`): in `loaded`
each list holds a visit that stays, as after the loading of a data set, and two
threads write two more; in `fresh` there is nothing else, one thread writes, and it
may name the empty key.

### ObjectCache

One object suffices since users and locations do not refer to each other.
Members are read by the copy constructor and by `serializate`, and written by
`move`, one per step. The string operations are one step each. `None` stands
for an empty `m_serialization`. A GET is `get_object` (build the text if there
is none) and then the processor's three uses of the shared string: the test for
empty, the length, the body.

### Query

A reader goes through `base::get_visits` or `get_mark` one access to a visit's
member at a time, while handlers and the worker of `VisitIndex` go on. Users and
locations do not change here: `Known` says which exist, and a request carries in
`fits` those that pass its filters on country, distance, age and gender. Walking
an `unordered_set` that the worker changes is modelled as meeting elements in any
order, one that comes or goes being met or not; elements met twice are allowed
after a change. `disturbed`, `touched` and `clash` are history: lists that changed,
visits that were written, and averages printed by the other reader meanwhile.
`MCQuery` has two kinds of behaviours, chosen at the start (`mode`): one reader
while two visits are written, and two readers that print averages of one visit.
Marks and times are numbers, the average is kept as sum and count. The two conditions
on dates read `m_visited_at` one after the other (`FilterFrom`, `FilterTo`).

### Server

Three parties: peers (`Connect`, `Send`, `Leave`), the main thread in
`hl_server::run` and `~hl_server`, and one thread per processor. Assumed of the
kernel: `accept` returns the lowest free descriptor; epoll is level-triggered and
reports of an interest set any nonempty part; `close` removes the socket from
every epoll set; a read returns what has arrived. A chunk is at most one buffer
(1024 bytes) long. `m_epoll_fd` is 0 until the thread has run `epoll_create1`, so
that `Give` may find it unset: `epoll_ctl` then fails and the connection is closed
(`refused`). A write to a peer that has reset the connection raises SIGPIPE, which
nobody handles (`alive`). The number of processors `N` is a parameter; the
constructor assigns 3 to `num`, whose declaration is commented out
(`src/hl_server.cpp:19`), and takes it from there.

### Dispatch

One action per branch of `handle`, each with what `base` decides in it. Values are
tokens on both sides of each limit. `Deserializate` is the common form of the six
branches of the three `deserializate` functions: the members in order, each taken
over if it is accepted, the first that is not ends it. The JSON library is
external: a text that does not parse leaves the empty object that `SetObject` made
(so an update with it is answered 200 and changes nothing, an insertion 400), and
asking a value that is no object for a member throws (`json.h`), outside any
`try`: `Throws` ends the process. So does a new object with id 0, the tables' empty
key, which `deserializate` accepts (`InsertsEmptyKey`). Visits are queued, those that
are new and those that are updated, and the background thread serves the queue one
task a step; the lists it keeps are those of `VisitIndex`, so that here it matters
only for which tasks they end the process (`EndsProcess`). Texts are of characters that
`length_utf8` can measure; the others are `Utf8`'s.

### HttpParse

One action per `case` of the switch, one step per byte; a token stands for one byte
the parser looks at, or for some plain bytes. `Receive` is the beginning of `parse`,
with all that is reset and `m_method`, which is not. `ReadOptions` includes case
VERSION, into which case GETOPTIONS falls through. `unquote` and `parse_urlencoded`
are recursive functions on the bytes (`Decoding`, `Scan`), one iteration of the loops
a step (`Decode`, `TakeByte`), with `value_start` 0 for no value yet as in the code.
`Written` is the text of a request as a client writes it, from which the reads are
cut (`SentAssumption`), and `IsRequest` says what a client writes: no part has in it
the byte that ends it, and a header does not begin with a colon. (A line that is a
colon only would leave `m_flag_2n` set and so end the headers.)

### Numbers

One call of `atoi` at a time, one iteration of a loop per step: `AllBits`
(`set_all_bits`), `Itoa`, `Digit`; `Check` pads the text and compares it. A type
is its number of values, a power of two, and its sign, and `Wrap` what is left of a number in a
variable of it, so that an overflow would be seen. A byte is its distance from
`'0'`: 0 to 9 are digits, others are below or above them, as in the comparison of
strings. The code computes the largest value twice, the model once.

### Utf8

`length_utf8`, one iteration of its loop per step. A byte is given by the length of
the character it begins, 0 if it continues one. `mblen` is external: in UTF-8 it
takes whole characters; if `setlocale` finds no `ru_RU.UTF-8` (the image of
`Dockerfile` installs none) the locale of C stays, in which it takes ASCII only or
every byte, depending on the library. What it does not take is -1, in `size_tt` the
largest number: `Plus` wraps, so that the offset goes back by one, or leaves the text
if it was 0.

### Ages

`get_mark` with one age: the parameter is converted (`Convert`, the steps of
`Numbers`), looked up, or computed if it is above 99 (`LookUp`), and the limit is
compared with birth dates. `mktime` is a day count over the Gregorian calendar that
normalizes 29 February as the library does; the program is taken to run in UTC,
since the code takes the date with `gmtime` and gives it to `mktime`, which takes it
for local time. A day has `DaySeconds` seconds, of which the first and the last
matter, and an int has `IntSize` values: `tm_year -= age` wraps. Dates are dates of
the calendar (`OnCalendar`), those of the clock from 1900 to what an int can count. `NewDay` lets days
pass; the table and the date stay those of the start-up.

### Startup

`main` step by step: `FindArchive` is the loop that polls for the archive, `Deliver`
writes it in two steps, so that it may be found when half of it is there, and
`ChildEnds` is `unzip`, which may fail after any part. The directory that is read is
`argv[2]`, which need not be the one that is unpacked to, and either may hold files of
an earlier start (`Leftover`). `Scan` is one byte of a file, `Insert` what
`base::insert` makes of a text: it is stored if it is a whole object and its id is new.
What the other modules show of objects that base cannot take is here the object's
`effect`: one has a text that `length_utf8` never gets past (`Utf8`), so that `load`
stays in it ("measuring"); one has id 0 (`Dispatch`), and one is a visit of user or
location 0 (`VisitIndex`), which end the process, the second while it is inserted and
the third whenever the background thread lists it (`ListAborts`). Then
`hl_server::run` opens the listening socket: the addresses in turn (`OpenSocket`,
`Bind`), the three calls after that (`Prepare`), and the loop, which `Server`
continues. If it throws, `main` returns, and the server's destructor joins processors
that wait in `epoll_wait` without a timeout and without a connection: `Joined` may
happen, since a signal can interrupt that wait or `epoll_create1` have failed, but
need not.

## 3. Runs

| Run | Module, cfg | Instance | Shows |
|---|---|---|---|
| `worker` | `MCBaseWorker`, `MCBaseWorker.cfg` | 2 handlers, 3 tasks of any kinds, fair threads | flags cover queues; wake-ups are lost only for users and locations; the queues are FIFOs; visit tasks are served; a stranded task is rescued by a visit task; the destructor returns |
| `visits` | `MCVisitIndex`, `MCVisitIndex.cfg` | 2 handlers, 2 visits, 2 keys, and on each list another visit that stays; or 1 handler, 2 visits, 3 keys with the empty one; 2 outstanding writes, fair threads | the indexes agree with the visits after every step; uncontended copies are exact; writes take effect whole and in order; an inserted visit is listed; the process ends only for the empty key or a list's last visit |
| `objects` | `MCObjectCache`, `MCObjectCache.cfg` | 2 updaters, 1 getter, 3 outstanding writes | the one way a stale text stays, and the one way an answer is torn; uncontended updates change what they name |
| `queries` | `MCQuery`, `MCQuery.cfg` | 1 reader, 2 visits, 2 keys, 3 writes; or 2 readers, 1 visit, 2 writes; 1 handler | answers are right about visits that were not written meanwhile, averages but for a clash in the shared buffer |
| `connections` | `MCServer`, `MCServer.cfg` | 2 connections, 2 chunks each, 2 descriptors, 2 processors | reused descriptors confuse nobody; the server hangs up on nobody it could register; no processor blocks in `read`; patient peers get one answer to each request |
| `connection_progress` | `MCServer`, `MCServerLive.cfg` | 2 connections, 1 chunk each, fair threads | what arrives is read, what waits is accepted, a processor stops with the next event |
| `dispatch` | `MCDispatch`, `MCDispatch.cfg` | a client that tries every kind of path, method and parameter; one that sends users and locations with each member missing, alone, or with each value; one that writes and reads two visits; id and user 0 in each | one answer to each request, as a flat table says, or the end of the process where it says so; stored objects are complete; nothing changes but what an accepted body gives; a GET shows the accepted writes |
| `marks_documented` | `MCDispatch`, `MCDispatchMark.cfg` | as above | violated: marks have no upper limit |
| `parser` | `MCHttpParse`, `MCHttpParse.cfg` | whole requests with all query strings of up to 2 name=value pairs of 12; beginnings and ends of 16 requests; in any order | what is parsed is what was written; a part is not taken for another request; nothing is left over |
| `age_limits` | `MCAges`, `MCAges.cfg` | 4 integer types of up to 256 values; all texts of up to 3 bytes out of 7, and one of 4; 3 dates of start-up and of answers; 76 dates of birth; fair conversion | no overflow, exact conversion, every conversion ends; age limits are right |
| `lengths` | `MCUtf8`, `MCUtf8.cfg` | all texts of up to 5 bytes, with characters of up to 3; 3 encodings; a fair loop | a text is measured by its characters; the loop ends unless a text begins well and goes on badly |
| `startup` | `MCStartup`, `MCStartup.cfg` | archives with a file of 0 to 2 objects of 8 and a second file of the same entity, or with files of no or another entity and one that cannot be opened; 2 addresses; a fair main thread and `unzip` | what is stored is what the files say; the server gets to its loop, or a named cause keeps it from it |

Bounds. Two handlers are enough for every race between handlers, and with the
worker for every three-way race the code allows: only the worker and, for one
object, other handlers of that object write what a handler reads. Three tasks
let a batch be served while another task is pushed and a third is being
announced. Two outstanding writes let an update overtake the insertion of its
visit, or start from a copy that another is about to change; two ordinary keys distinguish
a changed from an unchanged key, and two of its fields a whole write from a torn
one; one time and one mark are then enough. The theorems of section 5 remove these bounds for the safety properties of all
modules but `Startup`. `MaxOutstanding` caps writes under way, `MaxSteps`
the elements a reader meets and `MaxWrites` the writes while readers run (two
visits, one of them met again). The second of two connections can get the
descriptor of the first while events of it are held (`MaxFd` 2, lowest first), and
two chunks let a peer send before its answer (`MaxSent`). Two queued updates of a
visit let the later one overtake (`MaxQueue`). The properties of `HttpParse` and
the status table speak of one request, so that two in a row, with all leftovers of
the first, are enough. In `Ages`, 8-bit integers stand for 32-bit ones: of the ages
beyond the table, those from 246 on (249 in 2020) wrap the year and the others do not. Two objects
in a file let one tear and the other follow, six texts put a brace of each kind,
both, or none between the others, and one object each stands for an effect (`Startup`). Five bytes hold a character of each
length with a character or a stray byte before and after it (`Utf8`).

Not every invariant of types and locks is in a configuration: `TypeOK` of
`BaseWorker`, `VisitIndex`, `ObjectCache`, `Server`, `HttpParse` and `Utf8`, `QueryTypeOK`,
`NumTypeOK`, and `MutexOwnership` are proved (section 5).

The configurations of `VisitIndex`, `Query`, `Server`, `Dispatch` and `Startup` do not
check for deadlock: a server whose peers have all left waits for ever, or has ended, and
a process that an exception or an assertion ended does nothing more.

The properties that state an exception state all of it:

* `NoLostWakeup`: a sleeping worker may have missed a user or a location task
  (`missed`), never a visit task or the stop request. Such a task waits until
  the next notification (`StrandedTasksRescued`). Until then the object answers
  correctly: its text is built by the GET.
* `UncontendedCopyExact` (visits) and `UncontendedUpdateExact` (users,
  locations): updates that overlap another update of the same object, or for
  visits one that is still queued, may take back its fields. One client that
  sends two updates of a visit in a row can meet the second case.
* `FreshWhenSettled`: a GET that started to build the text before a field moved
  may store it after the refresh (`tainted`); it then stays until the next update.
* `AnswerIntact`: holds for GETs whose string did not change while it was used.
* `VisitsAnswered`, `AverageExact`: queries whose list changed while they walked it
  promise nothing of the whole, and nothing of a visit that was written meanwhile.
  Of two visits of a user at the same second one is shown.
* `KeepAlive`: a connection is also closed if its processor had no epoll set yet.
* `RequestsRead`: an interrupted `epoll_wait` ends a processor's thread, whose
  connections are then never read nor closed, and new ones still given to it.
* `BacklogAccepted`: waits for a descriptor.
* `StopsWithTraffic`: the stop flag is looked at only after an event; without
  traffic `~processor` waits for ever.
* `AcceptedWritesShown`: a GET of a visit may lack what is queued, and an update
  that was taken from an old copy takes back the fields of the one before it.
* `IndexComplete`, `InsertedIsListed`: the visit whose move ended the process was
  already taken off its old list, and is on no other.
* `WholeRead`: a last parameter with an empty value is not seen, a body loses the
  line breaks it begins with, and a parameter with an empty name is refused. It speaks
  of query strings that are lists of name=value pairs: a parameter without a `=`, as in
  `?a&b=1`, which the parser takes for one named `a&b`, is no request of the model.
* `StatusContract`: a body that is JSON but no object ends the process where its
  members are asked for, and so does a new object with id 0 (`Fatal`); later, without a
  request, a task that the indexes cannot take (`EndsProcess`). What follows `new` in the path of
  a POST is not looked at if it is empty: `/users/new/` inserts as well (`Bare`).
* `Converted`: zeros in front count as digits, an empty text is 0, and there is no
  minus sign.
* `LimitsRight`: answers are given for the date of the start-up; after a start on 29
  February, ages that lead to a year without one are counted from 1 March; an age so
  large that the year wraps takes everybody for old enough and nobody for young
  enough.
* `LoadedExactly`: an object with a brace in a string is torn and refused, and takes
  no other with it; of two objects with one id in files that are read, one is stored;
  if `unzip` failed, or unpacked elsewhere, the data are those that the directory has.
* `StartsServing`: after a call of the network that failed, `main` waits for the
  processors, maybe for ever; a failing `bind` is such a call only if no other address is
  left. An object that base cannot take keeps the server from its loop, or ends it.
* `TypeOK` of `Dispatch`: the limits are those of the code's checks, taken as one
  `Accepts` for all six branches of `deserializate`, read side by side. The ranges that
  comments give for dates (`src/base.h:145`, `src/base.h:186`) and marks are not among
  them.
* `PatientAnswered`: a chunk is a whole request; one that arrives in two segments is
  answered by its first (`BeginningHonest`).
* `LengthRight`, `Measured`: a text that begins with what is no character of the
  locale is taken for one character, whatever follows; on a text that begins well and
  goes on badly `length_utf8` does not end, and the thread serves nobody any more.
* `BeginningHonest`: a request cut in its query string is answered without it.

One run states what a comment says and the code does not do: `src/base.h:187` gives
the range of `m_mark` as 0-5, `deserializate` accepts every unsigned number.

Every property has a mutant in `PROJECT.json`: a definition marked `Mutant` in
the module, put in place of the one it deviates from, makes TLC report the
property violated.

## 4. Fairness

`FairSpec` of `BaseWorker` and `VisitIndex` assumes weak fairness of the worker
and of each handler once it is inside a request: the operating system schedules
threads that can run, and no code path waits except for a mutex or for `m_cv`.
Nothing is assumed of clients, of spurious wake-ups, or of the process being
torn down. Weak fairness is enough for the mutexes because the number of tasks
is bounded, so nobody can hold a waiting thread off for ever by taking the mutex
again and again; with unboundedly many requests the code relies on the fairness
of `std::mutex`.

`FairSpec` of `Server` assumes weak fairness of the main thread and of each
processor, for the same reason. A thread in `epoll_wait` or `accept` can run when
something is ready. Peers need do nothing, and neither a failing `epoll_wait`
(`WaitFails`, `RunThrows`) nor a signal has to occur.

`Server` takes a request for answered at once, and with it that `handle` returns. It
does, since its loops are over data that end, but for `length_utf8` on the texts that
`Measured` leaves out, and for the requests that end the process. `AgesSpec` and `Spec` of `Utf8` assume weak fairness of the
conversion (`Convert`) and of `length_utf8`: a thread inside them waits for nothing. `Spec` of `Startup` assumes it of the main thread, for the
same reason, and of `ChildEnds`: `unzip` ends, well or not. Nobody has to deliver an
archive, and no call has to fail.

`ObjectCache`, `Query`, `Dispatch` and `HttpParse` have no liveness properties:
tasks are served when `BaseWorker` says so, and the rest are loops over data.

## 5. Proofs

TLAPS checks the theorems for every set of threads, tasks, visits, keys, values,
connections, processors, types and texts. The only assumptions are those of the
modules: actors are distinct and `None` is none of them (`ThreadsDistinct`,
`ActorsDistinct`, `NoneIsNoObject`, `NoVisitIsNone`), counts are positive
(`FieldCountPositive`, `NPositive`, `BoundsPositive`, `DayAssumption`) and bounds are
numbers (`MaxWritesOK`, `MaxQueueOK`), the number of a type's values is a power of two
(`TypeAssumption`), dates are on the calendar (`DatesAssumption`), texts are sequences
(`TextAssumption`, `ReadsAssumption`; in `Utf8` shorter than the largest number but one,
with `SizeAssumption`), what a read returns is a part of a request that a client may
write (`SentAssumption`), requests have the members that are read (`RequestOK`), users and
locations are keys (`KnownOK`), and times and marks are numbers (`NumbersOK`). The TLC runs
evaluate them on their instances.

`BaseWorker_proofs`. The inductive invariant `IInv` adds to the four checked
invariants: nobody owns two mutexes, `signalled` only while blocked,
`m_stop_flag` from the destructor's first step on, and a batch only while it is
served. The first is needed since a handler's kind is the kind of the mutex it
holds; the last because the refinement mapping puts the batch in front of the
queue of the current stage. Theorems: `TypeCorrect`, `Exclusion`,
`FlagsCoverQueues`, `WakeupsAccounted`, and `Refinement` (`Spec =>
ImplementsTaskQueue`: the swap and every step but the push and the pop of a
nonempty batch are stuttering steps).

`Query_proofs`, about `VisitIndex`. `IndexSound` and `IndexComplete` speak of `ListKey`, the
key a visit is listed under: its update's once the worker is past the field, its
own otherwise. When the last field is moved the two must agree; `MovedSoFar` is
what makes that inductive. `EndsOnlyWhenLast` follows in one step from `IndexComplete`
(`EndsStep`): a list that is about to be emptied holds one visit, so any other visit with
its key is not listed yet. `UncontendedCopyExact` needs `UncontendedAlone`: an
uncontended copy stays exact because no other update of its visit is under way
or queued, and the worker writes only the visit of a queued update. Theorems:
`TypeCorrect`, `IndexesSound`, `IndexesComplete`, `EndsOnlyLast`, `CopiesExact`, and
`Refinement` (`Spec => ImplementsVisitStore`: a write counts from the worker's
first step for it; until it is moved whole the mapping shows the task's value).

`Query_proofs`, about `Query`, builds on that invariant. `NoStrangers` and
`VisitsAnswered` are not inductive: a visit that a reader met may be moved to another
list while an update of it is served, and gets its new key one field at a time.
`Friend` says that a visit that was met has the key that is asked for, or gets it from
the update that is being served; `Current` says what the reader knows of the visit it
is at after each access, `Shown` what the answer so far shows and misses. Each is kept
by the reader's own steps, and by a writer's step (`FriendsStay` and the lemmas after
it) unless that step writes the visit (`touched`) or the list (`disturbed`).
`AverageExact` compares a total that grew mark by mark with the sum over the visits that
should count. `AvgInv` says what the total stands for after each access: the marks of
the visits met so far that were selected (`Added`), as long as neither was disturbed, and
that what is in the shared buffer is this reader's average unless the other one printed
meanwhile (`clash`). That the sum of a function over one more element is the sum and
that element (`SumOfOneMore`) needs that the sum does not depend on the order in which
the community modules' fold picks elements; it is proved from the existence of a least
size of a set for which it would. Theorems: `QueryTypeCorrect`, `MeetsNoStrangers`,
`AnswersVisits`, `AveragesExact`.

`ObjectCache_proofs`. `FreshWhenSettled` is about the end of all updates; the
invariant says at every moment who will make the text fresh: unless a getter raced
with a move (`tainted`), the text is the object's when no task is queued and no update
has moved anything (`CacheFresh`), and a text the worker is building is exact, or
another task comes after it (`WorkerFresh`). `Alone` and `UpdateExact` say the same of
an uncontended update's copy, `AnswerSound` of what a getter has in hand. Theorems:
`TypeCorrect`, `FreshAfterSettling`, `UpdatesExact`, `AnswersIntact`.

`Server_proofs`. `IInv` adds that only open connections are registered, each with one
processor (`Registered`), that the connection just accepted is registered nowhere
(`JustAccepted`), and that the events a processor still holds are of different
connections and still true (`EventsTrue`): what was ready stays ready until this
processor reads or closes it, and no other thread does. This is what makes reused
descriptors harmless and `read` not block. `Conversation` relates, for a patient peer,
what was sent, what has arrived, what is being answered, and the answers. Theorems:
`TypeCorrect`, `EventsOwn`, `KeepsAlive`, `NeverBlocks`, `PatientPeersAnswered`.

`Ages_proofs`, about `Numbers`. The numbers that the first digits of the largest value
write are the values from which `itoa` split them off (`Quotients`). The number read so
far is at most the one of as many digits, and the same only if the digits are
(`ResultBelow`), because the padded text is not greater; so the next step stays within
the type. For `Converted`, `Growing` says that `set_all_bits` has the bits below a power
of two and so ends with the largest value of the type (for which the size has to be a
power of two), `SplitOff` that the digits of `itoa` and
what is left write that value, and `Taken` that the result is the value of the digits
taken. A text of digits is then taken exactly if its value is not above the largest
(`GreaterValue`, `PaddedValue`: texts of one length are ordered as their values, and
zeros in front change nothing). Theorems: `NumTypeCorrect`, `NeverOverflows`,
`ConvertedRight`.

`Ages_proofs`, about `Ages`. Every step of `Ages` is one of `Numbers` or leaves it alone
(`ConvertsAsNumbers`), so the age is a number of the type. A year of the Gregorian calendar
has 365 days or 366 (`LeapDaysGrow`), hence dates are ordered as their day counts
(`DaysCompare`) and a second of a day is before a limit exactly if its day is
(`DayLimits`). `AgesRight` then compares the date of birth with the date of the start-up
moved back by the age, the wrap of the year and 29 February set aside as `LimitsRight`
says. Theorems: `ConvertsAsNumbers`, `LimitsAreRight`.

`Dispatch_proofs`. Of `Deserializate` only `DeserializateResult` is used: it accepts
exactly the bodies whose members are there, if they must be, and within their limits, and
then takes over what the body gives. The invariant has for each stored object the
members of its kind within their limits and an id that is not 0 (`Stored`), for each queued
task a whole visit (`Tasks`), and for each object that what was accepted for it is what is stored or, for a
visit, the update of it that is queued, unless an update was overtaken (`Writes`). For
`ChangesNamed` the members that an update leaves alone are those of the copy, which is the
stored object; a visit's go into the task and from there into the visit. Theorems:
`DeserializateResult`, `Inductive`, `TypeCorrect`, `AnswersCorrect`, `ChangesNamed`, `WritesShown`.

`HttpParse_proofs`. `NothingLeftOver` is about the end of a read; the invariant says
for each state what has been found so far: no blank (`InMethod`), one and no second
mark (`InPath`), and behind the path the two marks, with which method and path agree,
and that parameters come only after a question mark (`BehindPath`). The query string
is left unexpanded: where its result is kept is enough.

For `WholeRead` and `BeginningHonest` the bytes of a request are related to its parts.
`WrittenBytes` gives the positions at which they end (`MethodEnd` to `HeaderEnd`), that
the byte there is the one the parser waits for, and that none before it is; of the
headers, that a line feed after a line feed and line breaks only comes at their end and
nowhere before (`HeaderShape`). `Stage` then says how far a read from the first byte of
a request has been parsed: one position and what is known there for each state;
GETOPTIONS has two, as it also reads the version. Each step leads from a stage to a stage or to a right answer (`ParseStep`),
and the end of the read before the end of the request finds a path, or none, and no body
(`EndStep`). For the parameters, `Unquoted` shows by induction over the symbols
of a spelling that `unquote` gives their meaning, `OnePair` that the scan from one pair
to the next adds its name and value if the name is new (`Keep`), and `QueryParsed`, by
induction over the pairs, that what is kept is the first value of each name
(`Firsts`) and that a name that is missing refuses all. Theorems: `TypeCorrect`,
`NothingStays`, `WholeReads`, `BeginningsHonest`.

`Utf8_proofs`. In a well-formed text the loop stands between two characters and has
counted those before it (`Counting`); a bad start makes the offset the largest number
at once (`Failing`); any other text has a byte at which no character begins and beyond
which none goes that begins before it (`Barrier`), and the loop never gets past it
(`Trapped`). Theorems: `TypeCorrect`, `LengthsRight`.

Induction. The induction theorems of the library take an operator as a parameter, which
the provers cannot instantiate. Where an induction over data is needed, its hypothesis is a
set instead (`UpTo` of `Ages_proofs` and `HttpParse_proofs`: a set of numbers that has 0 and with each number the
next one has all), or the least counterexample is refuted (`Least` of `Query_proofs`).

Only model-checked: the liveness properties, as fairness is out of the prover's reach,
and everything of `Startup`, with `LoadedExactly`.

## 6. Not modelled

* Undefined behaviour inside libraries: lookups in a `dense_hash_map` while
  another thread inserts, the memory of an `unordered_set` that is walked while the
  worker changes it, reading a `unique_ptr` that is being moved. A racing read has
  the value before or after the write.
* A build without assertions (`NDEBUG`), which the build files do not ask for. The erase of
  an emptied list then writes the empty key over its bucket, which cuts the chains of probes
  that go through it: lists of other users or locations can no longer be found. An object
  inserted with id 0 is answered 200 each time and never found. `IndexComplete`,
  `VisitsAnswered` and `StatusContract` do not hold of that build.
* What `unzip -uo` does with a file of an earlier start that has the name of one in the
  archive: here files are added to a directory, and one is never put in another's place.
* The byte behind a read that fills the buffer (`src/include/sp_http_proto.cpp:43`).
* `http_proto`: no object of the class is created; its `unquote` is in `HttpParse`.
* `types` and `stream`: sequential and without state the program relies on. `types`'
  string pointer that is never null is used where `get_object` is modelled. Of `util`,
  only the number conversion, what `load` calls and `length_utf8` are used by anything
  that runs; `Dispatch` has texts by their number of characters.
* `log`: the threads write to `std::cout` without a lock, so that lines may be mixed.
  Nothing reads them; output is not redirected, as `set_output` is never called.
* `print_backtrace`, the handler of SIGSEGV and SIGABRT, writes to the log and returns;
  both signals come after undefined behaviour or an exception that nobody caught.
  `heating` is called by nobody.
* Tasks that are queued when `~base` stops the background thread: the loop head looks
  at `m_stop_flag` only (`src/base.cpp:55`). They are lost with the data, at the exit.
* `mktime` in a time zone other than UTC.

## 7. Plan

All components that run are modelled. What would come next:

1. `LoadedExactly` as a theorem, with assumptions on the texts of the objects (braces
   that match outside strings) and the scan related to the file's text as in `HttpParse_proofs`.
2. An abstract key-value store that `Dispatch` implements when no update is
   overtaken, with the refinement proved from `DeserializateResult`.
