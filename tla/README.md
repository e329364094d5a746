# A TLA+ development of musicd

musicd (`src/`) is a music server in C: it keeps a database of the music files
below one directory and serves it over HTTP, with thumbnails, lyrics and
transcoded streams.  This directory holds TLA+ models of its parts, the TLC runs
that check them, and theorems about them that TLAPS proves.

Paths such as `task.c:62` are lines of `src/src/`.

## 1. The system

Four kinds of threads and one signal handler:

| actor | code | what it does |
|---|---|---|
| main thread | `musicd.c` | starts everything, asks for the first scan, then sleeps; runs the handler of SIGUSR1 |
| server thread | `server.c`, `client.c`, `protocol_http.c` | one poll loop over all connections; every HTTP method runs on it |
| scan thread | `scan.c`, `cue.c`, `track.c` | walks the music directory and updates the library; detached, restarts itself |
| task threads | `task.c`, `image.c`, `lyrics.c` | run tasks (thumbnails, lyrics) from a queue, at most 32, at most 4 of them workers |
| SIGINT handler | `scan.c` | sets `interrupted` while a scan runs |

They share one SQLite connection (`db.c`), the cache directory (`cache.c`), the
queue of tasks (mutex `task_mutex`), the scan flags (partly under `scan_mutex`)
and the list of sessions (mutex, but only the server thread uses it).

### Components, their state, operations, hard behaviours and properties

**Task manager** (`task.c`).  State: the queue, `active_workers`,
`active_threads`, the pipe of each task.  Operations: `task_new`, `task_start`,
`task_launch`, `task_free`, and the loop of `thread_func`.  Hard: the limits are
tested and the counts updated in different critical sections; threads quit while
the queue may hold tasks they cannot run; the task is used after the mutex was
given back.  Correct if: the limits hold, no task is lost, run twice or touched
after it was freed, and each ends.

**Event loop and connections** (`server.c`, `client.c`).  State: the list of
clients, the poll array that caches a descriptor and events per client, and per
client the state (normal, feed, wait for a task, drain), input and output
buffer.  Operations: accept, `client_process`, delete.  Hard: the poll array
changes while the loop walks it; a client in the wait state is not looked at
until its task signals; peers send ahead, send halves of requests, stop reading
and leave at any time.  Correct if: the array matches the clients, answers come
in order, every request is answered, no task in flight is freed and none is
left behind.

**HTTP protocol** (`protocol_http.c`).  State: the attached session and stream
of a connection.  Operations: detect, process (parse, attach session, call
method, static files), feed, close.

**Scan control** (`scan.c:67-94`, `scan.c:439-516`, `musicd.c`).  State:
`thread_running`, `restart`, `interrupted`, `status`, the disposition of SIGINT.
Hard: `thread_running` is written outside the mutex; four kinds of callers; a
restart hands over from thread to thread; the last test of `interrupted` is made
after the last unlock.  Correct if: one scan at a time, every request is followed by a
complete scan, musicd ends only when it is stopped, no flag outlives its reason.

**Library scan** (`scan.c:113-437`, `cue.c`) and **library** (`library.c`).  State:
the tables `directories`, `files`, `tracks`, `albums`, `images`, `lyrics`.
Operations: add, clear and delete files, tracks, images and directories, the walk
that compares modification times.  Hard: counts kept beside the rows
(`albums.tracks`), rows that refer to rows that go, an interruption or a crash
in the middle of a walk, modification times of one second.

A cue sheet ties the tracks of one file to another, more than one sheet may
name a file, and a sheet may name a file of a directory below its own.

**Sessions and authorisation** (`session.c`, `protocol_http.c:461-502,1125-1183`).
State: list of sessions with reference counts and times of last use, limited to
10000.  Operations: new, get, deref, purge.  Hard: the purge of the oldest session
when the limit is reached, while a request holds one.  Correct if: references are
exactly those of the request at work, the session purged is the one unused longest,
and a protected method runs only with a session or without authorisation at all.

**Queries** (`query.c`).  State: filters, order and bounds of a statement, and
the rows it has come to.  Hard: values are bound in an order of their own, the rows
are read while the scan writes, and the total is counted by another statement.
Correct if: the answer is what the parameters ask for.

**Streams** (`stream.c`, `method_open`).  State: demuxer, decoder, resampler,
encoder, muxer and the packet or frame between each two of them.  Hard: buffering
between rates and frame sizes, packets held back, errors half way, all on the one
server thread, results that are not checked.  Correct if: nothing is lost or reordered between decoder and muxer,
each resource is freed once, a stream ends for a reason, and each call returns.

**Images, lyrics and the cache** (`image.c`, `lyrics.c`, `cache.c`).  State: the
files of the cache directory, the table `lyrics`.  Hard: two tasks do the same work
and write the same file, the file is measured, read and written by different threads without a lock, a crash or
a full disk leaves half of it, the rowid it is named after is given to another row, lyrics are stored
in the transaction of whatever scan is running, and a search for them has no timeout.  Correct if: an answer is right
unless one of these happened, found lyrics are kept, every request ends.

**Not modelled**: the schema (`db.c`) and the configuration (`config.c`), which are
read once on the main thread before any other thread is started, and the helpers (`json.c`,
`strings.c`, `url.c`, `log.c`, `format.c`, `libav.c`), text and thin wrappers in
which no state of the system lives.

`PROJECT.json` lists, as hazards, the places where this code is hard to test, with
the properties that would show them going wrong.

## 2. The modules

| module | what it is | extends / instances |
|---|---|---|
| `TaskService` | what the task manager promises its users | |
| `TaskPool` | `task.c`: queue, threads, counters | `INSTANCE TaskService` as what it implements |
| `TaskPoolProofs` | seven theorems about `TaskPool` | `TaskPool`, `SequenceLemmas` |
| `EventLoop` | the server thread, its connections and the HTTP protocol on them, with tasks | `INSTANCE TaskService` as the task manager it uses |
| `EventLoopProofs` | five theorems about `EventLoop` | `EventLoop`, `SequenceLemmas` |
| `ScanControl` | who starts, interrupts, restarts and ends scans | |
| `ScanControlProofs` | six theorems about `ScanControl` | `ScanControl` |
| `Library` | the tables and the operations of `library.c` on them | |
| `LibraryScan` | the walk of a scan with cue sheets, the file system under it, interruption and crash | `Library` |
| `LibraryProofs` | five theorems about `LibraryScan` and the operations of `Library` | `LibraryScan`, `SequenceLemmas` |
| `Session` | the list of sessions, `session.c` | |
| `Query` | statements made of filters, order and bounds, and the rows they give, `query.c` | |
| `Requests` | a request from its session to its answer: logging in, lists and indexes | `Query`, `Session` |
| `SequenceLemmas` | what removing one element does to a sequence, and that numbers have a least one | |
| `RequestsProofs` | five theorems about `Requests` and `Query` | `Requests`, `SequenceLemmas` |
| `Stream` | opening, feeding and closing a stream | |
| `StreamProofs` | five theorems about `Stream` | `Stream`, `SequenceLemmas` |
| `Results` | thumbnails and lyrics: the tasks that make them, the cache, the answers | |
| `ResultsProofs` | three theorems about `Results` | `Results` |
| `MC...` | instances for TLC, one or more `.cfg` each | the module of that name |

The task manager and the event loop are composed through `TaskService`:
`TaskPool` is shown to implement it, by TLC on the instance and by TLAPS for all
tasks, threads and limits, and `EventLoop` runs against `TaskService` instead of
against the threads.  `Requests` composes sessions and queries on the server thread
with a scan that changes the tables; `Results` the methods, their tasks, the scan's
use of rowids and a restart; `Stream` the method `/open`, the feeding of the connection and its
closing.  `LibraryScan` takes from `ScanControl` that a scan may be
interrupted at any moment, and assumes that there is one scan at a time, which
`ScanControl` shows not to be guaranteed (see 5).

Operators called "seeded fault" in a comment are not part of any model: each is
a definition of the code with a mistake in it, used to show that the property
the fault is about notices it (`mutants` in `PROJECT.json`).

### TaskPool and TaskService

`queue` is the list `next_task` .. `last_task`; `active_workers` and
`active_threads` are the counters; `pc` and `task` say where each thread of
`thread_func` is; `stage` is the life of a `task_t`.  Each critical section under
`task_mutex` is one action: `StartTask` (`start`), `Pick` and `Quit` (the first
section of the loop, `task.c:52-94`), `Finish` (the second, 95-105).  `Tell` is the
code after the unlock, where the task is still used.  `TaskService` has the same
tasks with a life of six stages and nothing else; `LifeOf` is the refinement
mapping.

### EventLoop

`clients` is the list of `client_t`, `client[c]` one of them, `poll_fds` the array
that `build_pollfds` makes and `client_process` updates, `ready` and `at` the state
of the loop over it.  `sent`, `taken`, `unread` and `gone` are the two directions of
each socket, with a send buffer of `SendBuffer` pieces.  One call of
`client_process` is one action: it runs on the server thread alone and touches
only data of that thread.  Everything else, the peers that connect, send, read
and leave, and the task manager, interleaves with the loop between any two of
its steps.  Data is a sequence of segments, each a piece of a request of some
kind (`Kinds`); what the reply says is left out.

### ScanControl

`thread_running`, `restart`, `interrupted` and `status.active` as in `scan.c`; `pc`
for each caller of `scan_start` and each scan thread.  A critical section under
`scan_mutex` is one action, and so is every access to a flag outside it, which is
where the interleavings come from.  `CreateFails` is a `pthread_create` that makes no
thread; `stuck` remembers it until a scan ends, because until then the flags may be set
with nobody to reset them.  `overtaken` remembers that a restart was asked for while a scan thread was
between its last unlock and its last test of `interrupted`: that thread then takes the restart for
a stop and calls `exit(0)`.  `ExitHasReason` says that there is no other way for musicd to end without SIGINT,
and `RescanHonoured` that every call of `scan_start` is followed by a complete walk unless musicd
ended so or a thread could not be made.  Left out: `music-directory` not set, and the handler of
SIGUSR1 running inside a critical section of the main thread.

### Library and LibraryScan

A table is a function from rowids to rows; a new row gets the highest rowid plus
one, as SQLite does, so a rowid that was freed at the end is given again.  The
operators of `Library` are the functions of `library.c`, each as the sum of the
statements it executes.  In `LibraryScan` the recursion of `scan_directory` and
`scan_directory_cb` is a stack of frames; a step handles one row or one directory
entry, and between any two steps files may be put, rewritten and removed (the
music directory itself too, as when a disk is unmounted), the scan may be interrupted,
and the program may die, which takes `db` back to `saved`.  The entries of a
directory come in any order.  The paths are finitely many and make a tree, as those of a file system
do.  `quiet`, `rewritten` and `astray` are history variables.

Assumed of the user: each change has a time of its own, where the code compares
whole seconds, and touches the directory it is made in, where the code does not look
into a directory whose time is unchanged.  Nor do cue sheets name the files with each other's base names in a circle
(`NoCircle`), from which the code does not return (`cue.c:212`): no change makes one.

A cue sheet is a file that names another one, in its directory or below it, as its directory is put before the name (`cue.c:193`), or
none.  `cue_read` answers true also for a sheet without a `FILE` (`Taken`), so that one with the base name of a file keeps any other
sheet from being read for it.  A row that a sheet adds is put in the directory of the sheet, wherever the file is
(`CueFile`); `astray` has the sheets that have ever named a file of another directory, after which two directories
share the row and the library need not agree with the file system any more.  `Preferred` is the sheet `cue_read`
goes by, `CueRead` what it does to the library: the file named loses its tracks
and gets those of the sheet, and the row of the sheet itself is there only as long
as a track was added since it was last looked at.  Sheets that name each other's files in
a circle are left out, as the code does not return from them.  The walk over the known files is a
statement that is being stepped, so that it comes to rows that are added behind its
position (`KnownFile`).  Not modelled: artists and track positions, image prefixes beyond an order (`Rank`), the meta table.  The functions of
`library.c` are single steps, though another thread can read between two
statements of one.

### Session, Query and Requests

`Session` has the list as a sequence whose head is the newest session, and its
functions as operators on it, as only the server thread calls them.  `Oldest` says
at once what the loop of `purge_oldest_session` computes, so that it can be proved about.  `Query` is pure: `QueryNew`,
`QueryFilter`, `QuerySort` build a statement.  A question mark and a value that is bound are each a slot
`<<i, k>>`, the `k`-th one of the `i`-th field; `Placeholders` are the slots `build_filters` writes, `Bindings` those
`bind_filters` fills, and the value with `Number` `n` among the second goes to the question mark with that number among
the first.  `Plans` are the ways SQLite may go through the
rows: sorted beforehand, or by rowid or by an index that covers the statement, one row at a time.

In `Requests` a request goes from `Receive` (`attach_session`) over a method to
`Finish` (`session_deref`); between any two statements time passes and the scan
changes the tables of tracks, artists and albums, which is seen before it commits, as both use one connection (`db.c:32`).
`Tables` has all three after each of its statements.  `Asked(noauth)` is what clients send.  A filter whose name `query.c` does not have
is passed over, by the code and by the reference alike, the documented `id` among them (see 5).  Of the filters that the code knows,
`Misbound` names the one case in which it answers something else than was asked (see 5), and `AnswersMatch` is about all the others: `ListMatches` and `IndexMatches` say
what the answer has to be, given the versions of the table `at` which the rows were counted, the statement was started
and its last row was read.  The reference it is checked against, `Fitting` and `Places`, speaks of rows, not of statements.
`IsRequest` and `IsTable` are what is assumed of what the parser of HTTP and the schema may give.

### Stream

`opening` and `stream` are records of the fields of `stream_t` that matter for the flow of
data, with counts of samples, frames and packets as history.  Each of `StreamOpen`,
`StreamTranscode`, `StreamRemux`, `StartFeed` is one step of `method_open` with
its failures; `DecodeNext`, `EncodeNext`, `MuxNext` are the loops of `stream_next`,
a step per packet or frame.  What the libraries answer is free: a packet may
belong to another stream, fail to decode, give nothing or samples; the resampler may keep samples in its filter (`Outputs`), or fail, which
is not looked at: the samples of the frame are gone (`Unconverted`) or, since the negative result is taken for a count, the process is (`Dies`);
an encoder may hold a frame back.  `live` counts what is allocated, `lost` what an overwritten stream held.

### Results

One id of an image and one of a track, with what the row of that id stands for,
the cache file in two halves (`fopen` truncates, two writes, either of which may be cut short), the row of table
`lyrics`, and per client the step of its task.  The server thread reads the file as `cache_get` does: it opens and
measures it (`CacheGet`), then reads one half and the other (`CacheRead`), with the tasks in between and no other request (`ServerFree`).
Between the `BEGIN` and `COMMIT` of a scan (`saved`) rows go and their ids are given again; all threads share one connection
to the database (`db.c:32`), so the lyrics stored meanwhile belong to the same transaction, and a restart takes all of it back.
It also loses the tasks, and keeps the cache file.  Tasks are a part of the client that waits,
as `TaskPool` shows that each is executed once and then told.
`answer` has what was sent and, in `despite`, what the request may have suffered
from; `AnswersSound` says that without any of these an answer is right.

## 3. The runs

| run | instance | distinct states | shows |
|---|---|---|---|
| `taskpool` | 3 tasks, 2 threads, 1 worker at a time | 25 000 | counters, limits, one place per task, nothing stranded, no overtaking, every task served, implements `TaskService` |
| `eventloop` | 3 connections for 2 places, 2 segments | 930 000 | the clients and the poll array, tasks and the order of answers |
| `eventloop_live` | 2 connections, 2 segments | 92 000 | every request is answered or its connection closed |
| `scancontrol` | 3 callers, 4 scan threads, 3 requests, 1 failure | 205 000 | no flag outlives its reason, nor does musicd end without one; every request is followed by a complete scan, with the exceptions named |
| `libraryscan` | 2 directories, a file, its sheet, another sheet and an image in the one below, a sheet above, 2 changes, 3 scans, 1 interruption or crash | 789 000 | counts and references at every step, the walk, and what a scan leaves behind |
| `requests` | 2 sessions at most, 3 logins, 3 versions of 3 tracks, 3 artists, 3 albums | 725 000 | the list of sessions, who may call what, and that lists and indexes are what the filters the code knows ask for, also while the scan changes the table |
| `stream` | 4 packets of up to 2 samples, frames of 2, source rates 1, 3, 4, 5 against 4 and 2, a filter of 1 sample, 2 streams | 322 000 | samples, packets, resources, reasons to end, and that each call returns |
| `results` | 2 clients, 2 requests, one id used twice, 1 restart | 387 000 | answers from cache and table, found lyrics, and that requests end |
| four violation runs | the smallest instance that shows it | | see 5 |

Why these bounds are enough for the interesting cases:

- `taskpool`: with two threads and one worker at a time both limits are reached,
  a worker is passed in the queue, and a thread quits beside a task it may not
  run; a third task can start while that happens.
- `eventloop`: three connections for two places reach the limit in every order
  with connections being closed; two segments are needed for a request in two
  parts and for a request sent ahead of an answer; a send buffer of one piece
  makes every write stop half way.  `MaxWorkers = 1` makes thumbnails queue.
- `scancontrol`: one request for each of a first scan, a restart, and one that
  arrives while the restart is handed over; the fourth thread is for the restart
  of that.  A starter that calls again, and two that race, are covered.  One failure to make a thread can meet each of them.
- `libraryscan`: a directory below the root is the least that has recursion.
  One file of music, the sheet with its base name and another sheet are the least in
  which a sheet is preferred to another; at the start the file and the other sheet are there.  The
  sheet above may come as one that names the file below it.  A
  third scan is needed to look at the library after a good scan followed by
  one that was broken off.  Two changes give a sheet that comes beside another, a file
  that is replaced, a directory that goes and comes back, and a change under a
  running scan.  A sheet has two tracks, so that one too many or too few shows.
- `requests`: with room for two sessions a third login purges one, also the one the
  login itself came with.  Every filter alone and every pair of filters is asked
  for, which is what a shift between values and question marks needs; sorting with
  two keys, unknown names, limit and offset go with a few filters.  Without `no-auth`, requests carry
  every pair of a share and a cookie.  Then a file is scanned anew: the second version of the tables lacks its track, the
  number of tracks of its album is lower, and there are a new artist and a new album, still without tracks; the third has the
  track again under a higher rowid and the number of the new album raised, so that rows come, go and change in place.
- `stream`: the rates make every path of `find_sample_rate` (the rate itself, one
  closer, none) and both directions of resampling; a frame of two samples leaves a rest in the fifo;
  the limit of errors is one, so that it is passed and also reset.
- `results`: the second request comes while the task of the first one works, while the file is read for it,
  or after it; either of the two ids passes to another row once; the cache file has two halves, so that it can be torn.

Deadlock is checked in `libraryscan`, where it says that the walk never gets
stuck (`Idle` is the one state in which the bounded model may stop), in `requests`,
in `stream` (`Closed` is the end of a connection) and in `results`.  The other
systems may really stop, with nothing to do or with the process ended, and
there the liveness properties say that nothing is left undone.

### Fairness

Weak fairness only, of steps the operating system's scheduler takes for a
thread that can run: each task thread (`TaskPool`), the server thread, the task
manager and a peer that reads what was sent to it (`EventLoop`), each caller
of `scan_start` and each scan thread (`ScanControl`), the server thread inside
a call (`Stream`), each task (`Results`).  That task functions return is assumed, in `TaskPool` and in `Results`, and for
the search of lyrics it is an assumption about the site and the network: `url_fetch` sets no timeout (`url.c:47`), and a site that accepts and stays
silent keeps the request without an answer and a thread of the pool busy.  Peers are not assumed to send, to
connect or to leave, nor users to ask for anything.  The scan's walk is
assumed to end by itself; `ScanControl` may break it off only when
`interrupted` is set.  That a peer reads is the condition on which an answer
can be promised at all: a peer that never reads keeps its connection open forever.

## 4. What is proved

`TLAPS` proves 36 theorems, not counting `Invariance`, the inductive invariant that those of four modules follow from, for any sets of connections, clients, tasks, threads and callers, any tree
of directories, any contents of the tables and any limits and bounds, from the assumptions on the constants
alone: `PoolAssumption`, `LoopAssumption`, `ScanAssumption`, `LibraryScanAssumption`,
`SessionAssumption`, `RequestsAssumption`, `StreamAssumption` and `ResultsAssumption`.  Every invariant of the
passing runs is among them, and so are the refinement of `TaskService` and the
action properties on overtaking, undisturbed tasks, the session purged and the lyrics kept.

**TaskPoolProofs.**  The inductive invariant is `TypeOKInt /\ OnePlace /\
CountersExact /\ CountsBounded /\ NothingStranded`.  The types cannot be proved first:
that a counter stays a natural number when `Finish` or `Quit` decrements it follows from
its being the cardinality of the threads it counts, so `TypeOKInt` asks for integers
only and `TypeOK` comes out of the whole.  `CountersExact` needs `OnePlace` (a thread's
task is nobody else's, so that it is counted once), the limits need the exact
counters, and `NothingStranded` needs all of them: a thread quits beside a queued
task only if that is a worker and the limit is reached, so some thread is busy with a worker,
and that thread is not this one.
`OvertakenOnlyAtLimit` is an action property that follows from `OnePlace`, by what
removing one position does to a queue without repetitions.
`PoolImplementsService` maps every step to a step of `TaskService` or to a stutter;
the only step of the service with a guard on the others, `Begin` of a worker, is
allowed because `active_workers` counts at least the workers that are executed.

**ScanControlProofs.**  The inductive invariant is the conjunction of the invariants of
the run.  They need each other: a request to restart is noted only when
`thread_running` is set, so it is noted for a thread that will see it because the flag is
backed; `interrupted` has a reason because `End` resets it with `restart` under the mutex.
Both of the first two except the time between a failing `pthread_create` and the end of a scan (`stuck`).
To these comes `LateIsOvertaken`: `End` sends a thread to its last test only if no restart is noted, so a restart that is
noted while it is there was asked for too late, and from that `ExitHasReason` follows.

**RequestsProofs.**  Everything about the list of sessions is in `Sound(q, ids, held, wronged, t)`:
`q` has each session of `ids` once, with a user, last asked for at `t` or before, and its `refs` is one if it is
`held`, less one if it is among the `wronged`.  One lemma says what each operation makes of it: `GetSound` takes
a reference, `DerefSound` gives it back, or wrongs a session if that is not the one held, `PurgedSound`
makes room, `LoggedInSound` puts the new session before what is left; they rest on `OldestIsLeastRecent`
(from `HasLeast`, that a nonempty set of numbers has a least one) and on `RemoveAtElements`.
`SessionsSound` alone is not inductive: it takes
`AttachedSound`, that a session purged while a request held it was purged by that request's own login, so that
the new session at the head of the list, which `Finish` takes for it, has not been wronged before.
`MethodsGuarded` takes `Allowed`, that a request on its way to an answer was let through when its session
was looked for and that no step between can undo that.  `PurgedLeastRecent` is an action property that
follows from `Sound` and `PurgedSound`.

`AlwaysAnswersMatch` says of answers, for tables of tracks, artists and albums with any contents, requests with any number of filters and sort keys, and a
scan that changes the tables at any moment, that they are what the filters with a name that `query.c` has, the sorting and the bounds ask for.  It comes in four parts.  (1) What the request asks for: `FilteredIs` and `QueryIs` say
what `parse_query_filters` and `query_sort_from_string` make of it, of two filters on a field the last one; both are
recursive functions over the arguments, and what is said of them is shown for the first argument where it could fail.
(2) Which rows the statement selects: `SlotsOrdered` and `MarksBound` say that question marks and values are numbered alike
unless something is `Misbound`, `MatchesMeets` that the pattern bound is met by the rows that meet the filter, so that
the rows chosen are those that fit (`ChosenFit`).  (3) Their order: `PlanIs` and `BeforeOrders` say that each plan orders the
rows of a table totally and keeps to the sorting asked for, so that the place of a row in that order is one
of its `Places` (`PlaceAllowed`).  (4) The walk through them, which is the inductive part: `Looked` says that until the answer is
sent what was counted is right and what was read is a `Walk`: rows that were each in the table at some version
since the start, in the order, none twice, at the places from the offset on if the table was left alone, with
everything that was in the table all the time either read or still to come, from the sorter or from the table.
`WalkStarts`, `WalkGoes` and `WalkScanned` are its steps, and `ListSent` and `IndexSent` read the answer from it.  TLC has
checked `Looked` as an invariant of the run before.

**EventLoopProofs.**  The inductive invariant follows the data of a connection from end to end.  `ListInv`: the list has
the open connections, each once, and the poll array an entry for each as `client_process` left it, from which `ClientsPolled`
follows between two loops as well as inside one.  `ConnInv`: `Consumed` is how many segments have come out of the input
buffer; what is in it are the next ones in order, and output and socket together answer the requests up to
there (`Caught`), less the last while the connection waits for its task.  `ReadyInv`: a client that was found ready
and waits, waits for a task that has signalled, also when the loop comes to it after others were
deleted from the array and the rest moved up.  `OneTaskPerWait` and `FreshInv` say whose the tasks are.
`AnswersInOrder` follows from `ConnInv` in each of the states a connection can be in.
`TasksUndisturbed` is an action property: between the start and the signal the loop leaves a task alone, because the
client in the wait state is skipped until then.

**LibraryProofs.**  The inductive invariant is that the tables in use and those last committed are `Sound`, and the stack of
calls is `StackSound`, with sheets that name files wherever they are.  `Sound` has more than `TablesSound` and `AlbumCountsExact`: the tables are finite, so that there is a next
rowid and a number of tracks; the rows of directories are a tree as the directories are (`Rooted`);
rows of images are of files that are images.  One lemma for each operation of the library says that it
keeps `Sound`, and which directories it leaves as they were; of `cue_read`, `scan_file` and the rescan of a known file
they are put together.  `StackSound` says that what each call still has before it are rows or
entries that are there, that calls go strictly deeper, and that only the last one is at
its files.  It is why the walk never works on a row that is gone: `library_directory_delete` deletes what
is below the subdirectory (`BelowIs`), a call is above it, and the rows a call higher up has before it
are of directories less deep.  `WalkSound` alone is not inductive, as it says nothing of
how the calls lie to one another.  `Preferred` and `CueRead` go from sheet to sheet and from track to track by recursive
functions; what is said of them is shown for the least place where it could fail (`HasLeast`), which needs no
induction theorem.

`CompletesAlways`, that an undisturbed scan makes the library agree with the file system whatever happened before it, takes a second
inductive invariant, `JInv`, which says what the tables owe to the file system at every moment, in the midst of scans and changes.
`FileTrue`: a row with the time of its file has the tracks or images that come of the file, or tracks of a sheet.  `DirectoryTrue`: if the row
of a directory has the time of the directory (`Fresh`, so that the next scan passes it over), all that is in the directory is `Read`
and its files are `InTime`; a directory that has changed since has another time and owes nothing.  Both hold of `db` and of `saved`, so
that a crash keeps them (`LibraryTrue`).  `FrameTrue`: a call that goes over its files or entries owes this of the ones behind it (`Seen`),
and, of the entries, only if its directory has not changed since the call began (`Steady`); with an empty `todo` that is what `DirectoryTrue` asks for when `End`
sets the time.  `CallbacksSound`: a call whose result ends the loop of its caller was made from the loop over subdirectories.
All this is said as long as sheets name files beside them, or none (`Orderly`): only then is what a directory owes a matter of its own
entries.  `KInv` has `JInv` until a sheet strays.
`Undisturbed`: since the start of a scan that nothing disturbed every directory is `Fresh` or still before the walk (`Pending`), so at the end all are fresh.  TLC has
checked `JInv` as an invariant of the run before.  The proof needs of the constants what paths are like anyway: that a
directory is no file, an image no file of music, and that the sheet with the base name of a file is beside it.

The steps are shown by what an operation leaves alone: `Touches(d, e, T, N)` says that it changes the rows of the files of `T` only and may add those of `N`,
and what touches the entries of one directory is `Apart` from every other, where all that was owed stays paid
(`DirectoryApart`, `FrameApart`).  `ScanDone` says what `scan_file` makes of its file, through `cue_read` and the sheet it goes by
instead (`CueReadTouches`: its file has the tracks of the sheet and no others), `RescanDone` the same of `scan_files_cb`.
A change of the file system disturbs only directories that it gives a new time (`Changed`); of all others
`LibraryChanged` and `FrameChanged` say that what was read is still what is there.  At the end `Agreed` puts it together, with the
directory nearest to the music directory that would be missing (`DirectoriesKnown`).

**StreamProofs.**  The invariant says at each place of `stream_next` how the packet in hand relates to the packets encoded and
muxed (`Given` between two of them, `Due` before one is muxed), so that the order of packets,
and that a packet is muxed once more only for a frame the encoder held back, come out of the counts.  `Conserved` has
the equation of samples, with the rest the resampler keeps and those of frames it failed on; without a resampler both rates are the same
(`Direct`), as `stream_transcode` makes sure.  `Acquired` has what a stream holds at each place of
`method_open`, and `Allocated` that everything allocated is held by one of the two streams, or is the track just
looked up, or was lost, which makes `ResourcesReleased` provable.

**ResultsProofs.**  `AnswersSound` is about one step, and takes what the files and rows are between steps.
`FileSound` gives every half of the cache file that is missing a task that is still to write it, unless an event an
answer may suffer from has happened; `AloneSound` that, as long as no two tasks have written at a time, the file is
the work of one; `ReadSound` that what the server thread has measured and read is what is in the file, unless a task has written meanwhile;
`TasksSound` what a task can count on at each of its steps; `RangesSound` that nothing
stands for what an id is yet to be given to, also after a crash (`DurableSound`).  From the same, `LyricsKept`.

Only model-checked is liveness (`EveryTaskServed`, `EveryRequestAnswered`, `RescanHonoured`, `CallsReturn`,
`RequestsAnswered`), which is out of this prover's reach.

## 5. Where the code does not do what its documentation says

Each is a run that TLC finds violated, with the line quoted in `PROJECT.json`.

- `taskpool_disturbed`: with four workers running, `start` (`task.c:130`) creates no thread for
  a task that is no worker, which then waits for a worker to end though 28
  threads are left.  The comment at `task.c:31-37` says that 32 threads can be running in total, that
  only workers are limited further, and that tasks that are mostly waiting can be doing so meanwhile.
- `eventloop_leak`: a peer that leaves while its request is with the task manager takes the
  connection down (`client.c:164`) but not the task and its pipe; `protocol.h:49` says closing
  frees all resources.
- `eventloop_starved`: an incomplete request during a stream keeps `feed` from being
  called although the socket can be written to (`client.c:224`, `client.h:36`).
- `scancontrol_two`: `thread_running` is tested under the mutex and set after it (`scan.c:85`), so
  two scans can run at once; `scan.h:26` says nothing is done if one is active.

Also seen while modelling, and part of what the properties say rather than runs of their own:

- Scan control.  A call of `scan_start` during a scan breaks that scan off and has the directory walked again
  from its beginning (`scan.c:71-74`), where `scan.h:26` says it does nothing if one is active; `RescanHonoured` goes by the code.
  A scan thread looks at `interrupted` after its last unlock (`scan.c:511`): if another scan
  was started meanwhile and is told to restart, the first thread calls `exit(0)`, so that asking for a scan ends
  musicd without SIGINT (`overtaken`), where the comment at `scan.c:71` says the scan is signalled to restart.  After `pthread_create` has failed `thread_running` stays set (`scan.c:88`, `stuck`), and
  `scan_start` returns 0 from then on though no scan runs, where `scan.h:27` says 0 means that one does.
- Library scan.  An image is deleted while its album goes on naming it (`library.c:299`), and another one is chosen only if
  the album has images left (`scan.c:339`), so the rowid is of none, or in time of another album's; `doc/http-api.1.txt:214`
  says `/album/image` redirects to the album's main image.  A file written anew between `scan_files_cb` and `iterate_directory` has its tracks added a
  second time, and the next scans do not notice (`rewritten`).  Of several sheets for a file, none with its base name, the one read last counts
  (`cue.c:225`), where the comment at `cue.c:204` says the one with the highest mtime.  A sheet with the base name that cannot be read still gives the file its time (`Misdated`), and one that has no `FILE` keeps other sheets
  from being read (`Taken`).  The row of a file that a sheet names in another directory is put in that of the sheet: a change there is not seen with the file's own,
  and a file written anew has its tracks added beside the old ones (`astray`).  The tracks of a sheet
  that was removed stay until the file they are of changes.
- Sessions.  A login leaves the new session with a time of last use of 0, so that it is the next to be purged
  until it is asked for.  The head of the list is purged at the limit even if the request that logs in holds it, and
  its reference is then taken from the new session (`hurt`).  `session.c:72-75` cannot be reached.
- Queries.  A text filter that the kind of query does not have shifts the values of those behind it to the
  wrong question marks (`Misbound`).  A total of 0 is left out of the answer, where `doc/http-api.1.txt:87` says it
  is returned.   The filter `id` that `doc/http-api.1.txt` gives the lists (lines 70, 151 and 182, and `/tracks?id=4,6` at 118) is not among the names
  that `query_field_from_string` knows (`query.c:75-88`), and every row is returned; `AnswersMatch` passes over it like the code and does not claim it.  A malformed
  list of ids is answered with 500.  The index of `/track/index` is one in the order of the rows of `/tracks` only if both sort.
- Streams.  A read error ends a stream as the end of the file does.  The seek to the start of a track
  (`stream.c:164`) is not checked.  `find_sample_rate` may return 0.  What the fifo, the resampler and the
  encoder hold when the input ends is lost.  The result of `resampler_convert` is not checked (`stream.c:546`): when it fails, the samples of the frame are lost
  (`failed`), and the negative count goes to `av_audio_fifo_write`.
  A second `/open` on a connection overwrites `http->stream` (`protocol_http.c:1050`), and nothing ever closes the first stream, where
  `protocol.h:49` says that closing frees all resources associated with the client; `ResourcesReleased` counts it in `lost` and does not forbid it.
- Results.  Two tasks for the same lyrics may end in any order, and the one that found nothing may
  replace what the other found.  A crash during a scan takes back the lyrics that tasks have found meanwhile, with the whole transaction of the scan.
  `LyricsKept` names both.  A cache file left empty or half written by a crash, or by an `fwrite` that is cut short and not looked at (`cache.c:111`), is
  answered with 404 or sent as it is for ever.  A file that another task truncates between `ftell` and `fread` (`cache.c:85-90`) is sent with 200 and
  no body.  `AnswersSound` names each cause.

## 6. Plan, and what is not modelled

Planned: `EventLoop` takes a stream for a number of pieces and a task for something that signals once; `Stream` and `Results`
should be shown to implement that, as `TaskPool` is for `TaskService`.

Not modelled, and why:

- The schema (`db.c`) and the configuration (`config.c`): read once on the main thread before any other thread is
  started, and what fails there ends the program.  The options that matter later, `no-auth` and
  `http-root`, are variables that keep the value `Init` chooses.
- Text: parsing of HTTP, JSON, the wildcards of LIKE, cue sheets' contents, pixels, lyrics pages.  What was
  understood is a value of a small set, and what was found is a value or nothing.
- `/status`, `/root`, `/album/image` and `/album/images`, which read one row and keep nothing.
- Circles of cue sheets, from which the code does not return (`cue.c:212`); `NoCircle` keeps them out.  Files that a sheet names by a path with
  `.` or `..`, which get a second row under that name, links in the file system, and sheets with a `FILE` and no `TRACK`.
- Failing system calls and statements.  Modelled are a `pthread_create` that fails, a peer that has left, `fopen`
  and a short `fwrite` of the cache, and in streams what `stream.c` looks at and the result of the resampler; not the fifo, memory that runs out,
  an `fread` that fails, or statements on the database.  Nor is
  a signal handler that runs inside a critical section of its own thread (`musicd.c:110`).
