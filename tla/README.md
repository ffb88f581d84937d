# A verification project for HostLiveScan

HostLiveScan watches a list of hosts: it sends each one an ICMP echo request at
a fixed period and calls the application back when a host has not answered for
too long, and again when it answers.  The library is a small actor system cut
from a messaging library's core (contexts, mailboxes, pollers) with its own
reaper and sessions on top; the list of hosts is read with a copy of TinyXML.  This
directory holds TLA+ modules of its logic, TLC configurations that model-check them
on small instances, and TLAPS proofs about the mailbox, the queue below it, the threads, the
poller, the scanner, the probes and the matching of replies, the send queue, the options and
the strings.  Source paths below are relative to `src/src/`.

## 1. The system

| component | state | operations | talks to |
|---|---|---|---|
| mailbox (`mailbox`, `ypipe`, `atomic_ptr`, `signaler`) | queue of commands, pipe pointers `r` `w` `f` `c`, a mutex, a socket pair, the flag `active` | `send` from any thread, `recv` from the owner | every thread; the poller watches its socket |
| queue (`yqueue`) | chunks, begin/back/end positions, a spare chunk | `push`, `unpush`, `pop`, `front`, `back`, destructor | the pipe only |
| application interface (`host_scan.cpp`) | the global context | `host_init`, `host_asyn_send`, `host_sutdown` | context, reaper |
| context (`ctx`) | threads, mailbox slots, tids | `start`, `terminate`, `choose_io_thread` | all |
| reaper (`reaper`) | link list, `_connecters`, the two callbacks, a send queue | `create_link`, `open_all_link`, `process_plug`, `session_time_out`, `session_leave`, `process_fetch_buf`, `process_stop` | commands from the application and the sessions, commands to the sessions; calls the application |
| session (`session`) | raw socket, timer, `_last_check_tick`, `had_report` | `process_plug`, `timer_event`, `in_event`/`on_recv`, `out_event`/`write`, `error`, `exit`, `process_term` | its I/O thread's poller, the reaper, the network; calls the application |
| I/O threads (`io_thread`, `io_object`, `object`, `command`) | a mailbox and a poller each | take commands, dispatch them | everyone |
| poller (`epoll`) | watched descriptors, retired entries, timers, load | `add_fd`, `rm_fd`, `set_pollin/out`, `loop` | sessions, mailboxes |
| send queue (`data_queue`) | one block of memory as a ring: insert, terminal and query positions, sizes | `push_item`, `pop_item` | application and reaper, under one mutex |
| helpers (`sock_op`, `clock`, `net_utils`) | a static text buffer | address to text, time stamps, checksum | sessions |
| configuration parser (`tinyxml`, `tinyxmlparser`, `tinystr`) | a document tree, a cursor in a text, strings with shared empty representation | tree editing and walking, `LoadFile`, `SaveFile`, `Print`, `TiXmlPrinter`, `Parse`; the operations of the string class | the reaper's `create_link`, which loads a file and walks it |
| options (`options`) | a field per option | `setsockopt`, `getsockopt` | every object keeps a copy; only `affinity` is read, and nothing sets one |
| thin wrappers, `select`, Windows code | - | - | - |

How a silence travels: `host_init` reads the list, sets the callbacks and sends
the reaper `plug`.  The reaper makes a session per link and sends each one `plug`
on the least loaded I/O thread.  The session opens a raw socket and arms its
timer.  Each time the timer fires the session compares the time since the last
accepted reply with `m_time_out`, posts `connect_time_out` to the reaper the
first time it is exceeded, asks for `EPOLLOUT`, and arms the timer again;
`out_event` then sends one echo request.  The reaper calls `_out_func`.  An
accepted reply clears `had_report`, restarts the silence, and calls `_recv_func`
from the I/O thread.

How it ends: `ctx_t::terminate` deletes the context, whose destructor stops and deletes the
reaper first and the I/O threads after it, each by a `stop` command, a join of the thread and the
destruction of its mailbox, while the others are still running.  Nothing in the repository calls
`terminate` or deletes the context: `host_sutdown` is empty (`host_scan.cpp:77`), so the program ends
by being ended, and what is said of shutdown here is said of code that waits for a caller.

What the program uses of its parts.  The modules follow each part's code, and several parts
offer more than the scanner asks of them:

- the context always has four I/O threads (`ctx.cpp:50`);
- `terminate` and the destructors behind it have no caller, as said;
- the pipe's `unwrite` and the queue's `unpush` have no caller;
- `rm_fd` is called only by a thread for its own mailbox, when it stops (`io_thread.cpp:100`,
  `reaper.cpp:180`); a session closes its socket without it;
- the options' `setsockopt` and `getsockopt` have no caller;
- of the operations that edit a document only `LinkEndChild`, which the parser calls, is reached, and
  nothing is ever saved; of the strings what the parser and the walks need.

The modules of TinyXML, the strings and the options carry far more detail than the scanner uses.  They are
here because the code is; what matters to the scanner is the core: mailboxes, threads,
poller, sessions, send queue.

What is hard here: the lock-free pipe with its sleep/wake protocol, in which the
writer signals after it has released the mutex; callbacks and commands that
cross threads; reports that race replies; errors in the middle of a `plug`;
threads and mailboxes deleted while others send to them; chunks of memory handed from
the reader of a queue to its writer; events that wait in a buffer for objects that are
removed meanwhile; ring
arithmetic with items of several sizes; a static buffer shared by the I/O
threads; integer widths of time differences and process ids.  `PROJECT.json`
lists each hazard at its line, with the properties aimed at it.

## 2. The modules

### Mailboxes and queues

`CommandChannel` -- what a mailbox promises: a reliable FIFO queue from many
senders to one reader, with every posted command taken in the end.

`Mailbox` -- `mailbox_t` over `ypipe_t` over the signaler, one step per access to
shared memory: lock and write, the `cas` of `flush`, the `set` of `flush`, the
unlock, the byte sent after it; `poll`, `read` with its `cas`, the byte taken
back, the zero-timeout `wait`.  A pointer is the number of commands pushed before
it; `log` holds all the cells.  Each assertion of `recv` and of the signaler that
could fail sets `aborted`.  Not modelled: `flush` with nothing to flush and `read` from
an empty pipe after shutdown, which no caller reaches; a poll interrupted by a
signal is a stutter.  `Channel` maps a mailbox onto `CommandChannel`: a
command is posted when the flush publishes it, taken when `recv` returns it.
The modules named `...Proofs` hold the theorems of section 5.

`YQueue` -- the memory behind that log.  `begin`, `back`, `end` with their positions and
the locals `sc`, `o`, `cs` of the two threads are the code's; `alloc` is what `malloc`
has handed out, a pointer field nobody has written is `Garbage`, and `fault` records a free
or a dereference of anything else.  `push` is three steps when it crosses into a
new chunk (the cell, the exchange of `spare_chunk`, the link), `pop` four (read
`next`, step over, give the chunk away, free what came back), `unpush` two, the
destructor one per chunk.  `CellQueue` is what it implements: a queue extended and taken back
at one end, read at the other.  Memory is finite (`MemoryAssumption`), of any size; `Layout` says which
chunk is which and is the core of the inductive invariant.

### Threads

`Lifecycle` -- `ctx_t::start`, `host_init`, `ctx_t::terminate` and the destructors.  A mailbox
here is a FIFO queue (what `MailboxIsChannel` establishes) with what its destruction can
meet: the mutex a sender holds, the byte it still owes after giving it back, the closing of the
descriptors.  A loop waits for the byte, drains the mailbox and leaves
when `stopping` is set.  `Touch` records in `fault` a thread that uses a mailbox after
it was closed; `Next` stops there, as what follows is not the program's any more.
A session only plugs, reports, leaves and is terminated: what it measures is in `HostScan`.

`Epoll` -- `epoll_t`: entries in memory that is used again, descriptors whose numbers are
used again, the buffer `epoll_wait` has filled, the three tests made on each event, handlers that
register and remove objects while later events wait, `retired` entries, the kernel's pending
error and data, and a `recvmsg` that blocks when it has neither.  That an object
removes itself before its descriptor is closed is the contract of the poller.  `epoll_wait` returns any
ready descriptors up to `MaxEvents` (`max_io_events`), not necessarily all.
`EventLoop` is what it implements: one handler at a time, of an object that is registered.

### Hosts

`HostScan` -- application, reaper, sessions, hosts and the clock together.  Each
handler runs to its end on the thread that owns its object, so it is one step
(the exception is the reaper's `process_plug`, one step per link, `PlugLink` or `SkipLink`, since the
I/O threads run meanwhile).  Mailboxes are FIFO sequences.  `sess` is the life of a session
object (`none`, `created`, `live`, `exited` after a failed `plug`, `deleted`); `polled`,
`pollout` and `timer` are what the poller keeps about it; `age` is
`now - _last_check_tick` as the 32-bit value that `abs ()` receives, wrapping at
`WrapTicks`.  `silence` is the same time without the wrap; it and the counters
marked "history" exist for the properties only.  Left to nondeterminism: whether
the list can be read, the outcome of each `plug` (`PlugOutcomes`), whether
`sendto` sent anything, which hosts reply, how late and how often, and failed
reads.  The `catch (...)` of `on_recv`, which calls `error ()` when the callback has thrown (`session.cpp:377`), is
`InEvent` followed by `ReadError`: the reply has counted by then and the error is noticed as that of a read is.
Replies that `on_recv` refuses change nothing here; which ones it refuses
is `ReplyMatch`'s subject.  `inet_ntop` on an IPv4 address with a buffer of 128 bytes
cannot fail, so that branch of `on_recv` is left out.

`HostMonitor` -- what all of it is to the application: hosts are watched, a silence is noticed
once, a failed read is noticed each time, an answer ends the silence, and the
application is told of the notices in their order.  `HostScan` implements it with the
reaper's mailbox, as far as it holds reports, for the notices.

`ReplyMatch` -- `on_recv` in finer steps, on any number of threads: every raw socket gets every
ICMP packet, `sock_ntop_host` begins to write a static buffer and is done with it (`StartWriting`,
`FinishWriting`; what a reader finds in between, or what two writers leave, is one of `Halfway`), the session
compares the buffer, the type, the id and the length, and the callback copies the buffer once
more.  `process_plug` writes the same buffer for its log (`PlugStart`, `PlugDone`).  The process id is any of
`Pids`, and the probe carries what the 16-bit field keeps of it.  `disturbed` is history: the threads in whose
use of the buffer, from the beginning of their own writing, another thread has written it.  Each acceptance, refusal and callback is
recorded with it, so that the properties say what the buffer cannot be blamed for.

`Packet` -- the checksum of a probe and the subtraction of two times, with words of
`WordValues` values and seconds of `Second` microseconds.  The words are added one after
the other in an accumulator of twice their width, as the code does.

`SendQueue` -- `host_asyn_send`, `data_queue_t` and `process_fetch_buf`, in bytes
and with the code's sizes.  An item is a cell with a place, a length and a
number; storing one removes every cell it overlaps, and reading a place where no
cell starts is the outcome `garbage`.  `failed` names the assertion that stopped
the process.  When the ring has to grow `new` may find no memory (`PushFailing`): `push_item` catches that and
returns false (`data_queue.cpp:101`), `add_queue_item` does not look and sends `fetch_buf` (`reaper.cpp:169`), so an item is
`lost` and there is a command too many, for which the reaper's assertion (`reaper.cpp:216`) or the queue's own
(`data_queue.cpp:132`) fails once the other items are fetched.
The ring's three positions cannot tell a full lap (the first part is read,
the wrapped part ends exactly at the terminal position, `FullLap`) from a block that has
not wrapped; the history variable `confused` says that an item was put behind one,
and the properties are about the behaviours in which that has not happened.  The proofs say that
until then the ring keeps its items in order, whatever their lengths and whenever memory runs out, and that an assertion fails for
two reasons only: the command of a lost item, and an item longer than the work buffer.

### The list of hosts, and options

`XmlText` -- TinyXML's writers (`Print` and `TiXmlPrinter`) and readers (the `Parse`
functions, `LoadFile`'s treatment of line ends) as operators on sequences of atoms: markup, names,
references and characters.  A text may end between any two atoms, also inside of a construct: the readers report an
error, take what is there for the whole (`ParseUnknown`, `ParseDeclaration`), step over an end mark that is missing and
read on past the end of the text (`Overrun`), or fail an assertion (`Asserts`).  A value that holds `&#x` is
written with what follows up to a semicolon as it is (`PassedThrough`), and a reference that the reader does not find closed
within the value is looked for behind it (`GetReference`).

`XmlDom` -- the tree with the six links of a node, one action per operation that edits it; the
walks by name and by index; and `create_link`, which turns the elements below the root into
links.  The attributes of an element, a two-way list of their own in the code, are a sequence.  `XmlForest`
is what the operations promise: lists of children from which each inserts, replaces or
removes what it names.

`XmlCursor` -- the row and the column of an error.  `Utf8` -- references by number, UTF-8
sequences and the table of their lengths.

`TinyString` -- the string class with its representations in memory, the static one for
empty strings and the rules by which they grow and shrink.  `StringValues`: every
string has a value, and an operation changes those it names.

`Options` -- `setsockopt` and `getsockopt`: what is accepted for each option, which fields it
sets, what is given back for which size of buffer.

`Vendored` -- strings and options side by side, with what is promised of each, so that the run and the
proofs are about the same properties.  Its assumptions are that a text holds neither the
zero nor memory nobody has written (`TextsAssumption`), that `operator new` does not fail, that is, there is
always memory no string has (`MemoryAssumption`), and that a byte string of the size of an integer is passed as
the integer it holds (`BlobsAssumption`).

In the modules an operator marked "Fault" holds a plausible
mistake in the definition it is named after.  No specification uses them;
`PROJECT.json` ("mutants") says which property each of them breaks.

The modules `MC...` give the constants values.  `MCHostScanLive` is one host in two modes (the
variable `late`, chosen at the start): on time and fair, or with an I/O thread that
lags behind at will.  `MCVendored` joins `XmlDom`, `Vendored`, `Utf8`, `XmlCursor` and
`Packet`, which share nothing: a behaviour begins by choosing its part.

## 3. The runs

| run | bounds | what it shows |
|---|---|---|
| `mailbox` | 3 senders, 2 commands each, a socket pair of 2 bytes | `NeverAborts`, `NoLostWakeup`, `SignalsBounded`, `PerSenderFifo`, the inductive invariant of the proofs, and that the mailbox implements `CommandChannel`, its liveness included |
| `yqueue` | 6 chunks of 2 cells, 8 cells written | no freed memory is used (`NoBadAccess`), no chunk is lost or in two places, none outlives the destructor (`ChunksAccounted`), memory follows the contents (`MemoryBounded`), the chunks are a `CellQueue` |
| `lifecycle` | 2 I/O threads, 2 sessions, 1 report of each | only a late report uses something deleted, no sender is inside a mailbox of an I/O thread when it goes (`ShutdownSafe`, which holds the inductive invariant of the proofs); no command to an I/O thread is left unread and a session that left is deleted, unless its report came after the stop (`EveryCommandDone`); the destructor returns (`ShutdownCompletes`) |
| `late_report` | the same | violated: see section 6 |
| `event_loop` | a mailbox and 2 objects, 3 entries, 3 descriptors, a buffer of 2 events, 2 registrations, 2 poller calls of a handler, 1 datagram of a socket | entries are allocated exactly while they are in use, and the kernel and the buffer agree with them (`EntriesSafe`), no event reaches an object that was registered later (`NoStaleEvent`), a session never blocks its thread (`NeverBlocks`), the loop is an `EventLoop` |
| `host_scan` | 2 scanned hosts with periods 1 and 2 and time-outs 2 and 3, a skipped one between them, 2 I/O threads, one reply per host, sockets that may fail to open | silences are reported in time (`DetectedInTime`), with cause (`ReportedWithCause`), once, in order and not swallowed (`ImplementsMonitor`); deleted sessions are referred to by nothing (`NoDanglingSession`); `_connecters` is complete (`ConnectersComplete`); the inductive invariant of the proofs |
| `host_scan_live` | 1 host, 2 replies; on time: 1 failed read; late: 2 failed reads, a 32-bit range of 8 ticks so that time wraps, a host that may have no address | on time, `EverySilenceReported` and `ExitedSessionsDeleted`; in both modes `ImplementsMonitor` |
| `reply_match` | 2 hosts on 2 I/O threads, 2 packets of any source, type, id and length, process ids 65535 and 65543, any text in a buffer that is being written | unless another thread wrote the buffer meanwhile, replies go to the session of the host that sent them and the callback names it (`RepliesSound`), and none is missed; with the larger id none is accepted (`OwnRepliesCount`) |
| `shared_buffer` | the same hosts and threads, the smaller id, a buffer being written shows no host's text | violated: see section 6 |
| `send_queue` | 7 items of 1, 120, 8308 or 8320 bytes in any order, any growth refused for want of memory, lengths 0 and 8321 refused | the ring wraps and grows; until an item is put behind a full lap none that was taken is left out, doubled or reordered (`FifoOrder`), the unread bytes are the items in their order (`Accounted`), an assertion fails only for a lost item or one longer than the work buffer (`FailuresKnown`), everything taken is fetched unless the latter stops the process (`AllFetched`) |
| `mixed_lengths` | 8 items of 2 lengths | violated: see section 6 |
| `vendored` | 3 nodes beside the document, eight kinds of them, with whole references and with one cut at the end of its text; 2 strings of up to 4 characters; integers around 0, sizes around 4, 8 and 255; 100 code points; texts of up to 5 atoms; words of 4 values, seconds of 4 parts | a document is whole after any editing and read for links as written (`DocumentWhole`, `ImplementsForest`); saved, it is read back the same, whoever wrote it and however its lines end, exactly when the references in it are closed; cut short at any place, it is reported, but where the reader runs past the end or asserts, and but for a declaration or an unknown tag at the end of the document (`SavedIsRead`); strings keep their values and their memory (`StringsWhole`, `ImplementsValues`); options are what was set last (`OptionsAsSet`); characters, error positions, checksums and times are right (`BytesAndCountsAgree`) |

Why the bounds are enough.  Mailbox: with three senders one can be
inside the mutex, one owe a byte and one not have started, which is every role there is;
two commands let a sender meet a reader it has itself woken; two bytes is the
least capacity for which the assertion of `signaler_t::send` holds, and the proofs cover the rest.
YQueue: with two cells a chunk the ends meet on every second step; eight cells lead over four chunks,
and the longest chain with the spare one and those in hand is six.
Lifecycle: two I/O threads, so one can run while the other is deleted; two sessions, so that both can
be on one thread or one on each.
Epoll: two events in one buffer, the first of whose handlers removes the object of the other, or
registers one that gets its memory and its descriptor; three descriptors can be ready, so one has to wait for
the next round.
HostScan: two hosts with different periods
interleave their handlers in the reaper's queue, two threads
give two mailboxes whose commands race, the skipped link exercises `process_plug`'s
filter, and the time-outs are one and two periods away from the first test so a
silence is met by several timers.  One host is enough for the questions of
time: sessions share nothing but the reaper's queue.  SendQueue: the first block takes ten
items of the first length, so a short item followed by longer ones wraps and grows it
with three to five items; seven let it do so twice, with a push that finds no memory before, between or after.  8320 is the
largest of the twelve lengths that are let through and do not fit the work buffer, 8308 the largest that does.
ReplyMatch: a second packet overwrites the buffer while the first is compared; of the process ids one is the largest
that fits the field and one does not, and leaves 7 in it.
The tree: three nodes are a first, a middle and a last child, or two levels below a child, and
every kind of node meets every other as neighbour and as parent.  What is saved is checked on the step that saves,
so once for each tree.  Texts of five atoms hold two line ends of any kind with a tab between; five words of four values
are the most whose sum fits its accumulator, and their folding carries.  The strings are
interchangeable, and so are the nodes but the document (`Symmetry`); the place in memory is always the first free one.

Deadlock is checked in `host_scan`.  It is off in `host_scan_live`, where
a host without an address ends the process, and in the others, whose
senders stop after a bounded number of commands, items or packets or whose threads end.

Bounds named in the modules: `MaxSends`, `MaxReplies`, `MaxReadErrors`,
`MaxPackets`, `MaxWrites`, `MaxReports`, `MaxAdds`, `MaxCalls`, `MaxData`, `MaxLength`,
`MaxReserve`, `MaxOthers`, and `SilenceCap`, at which a history variable stops counting.

## 4. Assumptions about time and fairness

A tick is one second, the unit of `m_scan_time` and `m_time_out`.  `KeepUp = TRUE`
says that time does not advance past work that is due on an I/O thread (a timer,
a requested `EPOLLOUT`, a reply in a socket): handlers take microseconds
and the poller sleeps until the next timer.  `DetectedInTime`,
`ReportedWithCause` and the liveness properties depend on it; the late mode of
`host_scan_live` drops it.
`ReportedWithCause` also needs a time-out greater than the period: with a
shorter one the first timer would report a host that has not been probed, and a
late handler would report a host whose reply is already in its socket.

`WrapTicks` stands for the 2^32 microseconds (about 71 minutes) after which the
difference handed to `abs (int)` repeats; it is small in the instances so that it
happens.

Fairness.  A thread inside `mailbox_t::send` finishes it, the reader's thread keeps
polling, the reaper and each session's handlers run when they have something to
do (`epoll` is level-triggered, so an event that is left is delivered again), and
time passes.  In `Lifecycle` the application's thread and every worker run; whether the
application ever terminates the context is its own choice, and no report is owed.
Nobody is obliged to send, a host need not answer, a read need not
fail.  All fairness is weak.

## 5. What is proved

Every theorem is about the specification of the run, for all values of the constants that the
`ASSUME`s of its module allow; the bounds of the instances (`MaxSends`, `MaxReplies`, ...) are any
numbers.  Where a theorem needs more it is in its `ASSUME`, and named here.

| module | theorems | beyond the module's assumptions |
|---|---|---|
| `MailboxProofs` | `InductiveInvariant`, `TypeCorrect`, `NoAssertionFails`, `WakeUpNeverLost`, `SocketNeverFills`, `SendersInOrder`, `MailboxIsChannel` | - |
| `HostScanProofs` | `InductiveInvariant`, `DeletedIsForgotten`, `NoSessionLost`, `ReportsNeverEarly`, `MonitorImplemented` | - |
| | `SilenceDetected` | `WrapIsLate` |
| | `ReportsHaveCause` | `KeepUp`, `WrapIsLate`, time-outs longer than the period |
| `YQueueProofs` | `AccessesAreGood`, `ChunksNeverLeak`, `MemoryFollowsContents`, `CellsImplemented` | - |
| `LifecycleProofs` | `InductiveInvariant`, `ShutdownIsSafe`, `CommandsAreDone` | - |
| `EpollProofs` | `EntriesAreSafe`, `ReadsNeverBlock`, `EventsReachTheirObject`, `LoopImplemented` | - |
| `SendQueueProofs` | `RingIsAccounted`, `ItemsInOrder`, `AssertionsThatFail` | - |
| `LeafProofs`: replies | `TypeCorrect`, `RepliesAreSound`, `NoReplyMissed` | - |
| probes | `ChecksumVerifies` | `Fits` |
| | `RoundTripTime` | - |
| options | `OptionsAreAsSet` | - |
| strings | `StringsAreWhole`, `StringsAreValues` | - |

`WrapIsLate`: no `m_time_out` and period together reach half the range of the microsecond count
(about 35 minutes); past it `abs (int)` loses time-outs, as section 6 says.
The theorems on replies have no hypothesis about threads or process ids.  The code creates `NET_IO_THREADS_DFLT` = 4 I/O threads
(`ctx.cpp:50`) and nothing in it keeps one from writing `sock_ntop_host`'s static buffer while another reads it, so what they say is
where the blame is: a wrong or missed match implies that another thread wrote the buffer between this thread's writing and its
last use (`alone` is false in its record), or that the process id does not fit the field.  That it does happen is `shared_buffer`.
Nor do those on the send queue: pushes may fail and lengths be any integers.  Only the full lap ends what they say.
`Fits`: a packet has at most `WordValues + 1` words, the most whose sum cannot overflow the
accumulator: 65537 words of 16 bits added in 32; a probe has 32.

### The mailbox

The invariants are not inductive by themselves.  That no wake-up is lost depends on
who owes a byte, which depends on the pipe's shared pointer, which depends on
where the reader is.  `Inductive` says it part by part:

- `PointersOrdered`: `front <= r <= w <= f <= w + 1`, `f` is the end of the log,
  and `c` is `w` or `Null`, `Null` only when everything published has been read;
- `OneWriter`: a thread is between lock and unlock iff it holds the mutex, and
  only there is something written and not published;
- `ReaderMode`: the flag `active` against the reader's place, and that a passive
  reader whose `c` is not `Null` has something to read -- why the assertion after
  the wait holds;
- `BytesAccounted`: one byte for a `c` that is not `Null`, unless a sender still
  owes it, and one that the reader is about to take back -- why the socket never
  holds more than two;
- `ReadsLog` and `LogInOrder`: what was returned is a prefix of the log, which holds
  each sender's commands once and in order.

The proof takes the actions one by one; `ReadItemEffect` and `LogExtended` are the
lemmas that several actions share.  `MailboxIsChannel` (every behaviour is, through the refinement
mapping, one of `CommandChannel` without its fairness) rests on `PublishIsPost` (a
flush posts the one command it publishes) and `ReadIsTake`.

### The queue of chunks

`chain` is a recursive walk along the `next` pointers, which a step can change anywhere, so
nothing about it is inductive.  The invariant instead numbers the chunks: there are a
function `f` and two numbers `lo`, `hi` such that `f[i]` is the i-th chunk the queue has had and the chain is `f[lo]` to
`f[hi]` (`Chained`), the n-th cell written is cell `n % N` of `f[n \div N]` (`Positioned`, `Filled`), and a chunk is
allocated iff it is in this interval or in one of the other five places, and in one only (`Owned`).  `Places`
ties those places to where the two threads are.  Each action extends, shortens or keeps the
interval.  `ChainNumbered` then shows that the walk gives this interval, by induction over its length (`ChainFits`: the
memory is long enough for it), and with it
`ChunksNeverLeak` and `CellsImplemented`; `MemoryFollowsContents` counts the interval.

### The scanner

`Inductive` has a disjunct for each stage of a session's life in `Phase`: for each, which one command
to or about it is on the way (`Sole`), in which mailbox, and that there is no other (`Silent`).  `OneThread` says the
mailbox is that of the session's own thread, `StartsOnce` and `PlugsEachOnce` that a session is made once,
`Watched` what the poller and the timers know.  `NoDanglingSession` and `ConnectersComplete` are read off it.  `NeverOverstated`
relates the 32-bit age to the silence and gives `ReportsNeverEarly` with no hypothesis at all; `Timely`
is the bound on silence and what is left on the timer from which `SilenceDetected` and the second half of
`ReportsHaveCause` follow.

`MonitorImplemented` goes action by action through a mapping with a recursive function in it
(`Reported`, the reports in the reaper's mailbox).  That it is extended at one end and shortened at the other with the
mailbox are `ReportedAppend` and `ReportedTail`.

`PrefixInduction` holds what these two proofs need of induction: an induction up to a number stated for a
set of numbers instead of a predicate, existence and uniqueness of a function that is given step by step, and
that of recursive functions over the prefixes of a sequence.

### Start and shutdown

`Staged` says for each place of the application's thread which threads run, which are joined and which
mailboxes still exist; `AppSends`, `ReaperSends` and `IoSends` who may be inside `send` then and to whom; `MutexHeld` that the mutex of a
mailbox is held by a thread inside its `send`.  `StopIsLast` (a stop command is the last one from the application, and
a loop that has left has nothing after it), `AtHome`, `PluggedOnce` and `Leaving` are about the commands of a
session.  `OnlySessionsReportLate` is the claim: a thread that uses something deleted is an I/O thread
whose session reports to the reaper.

### The poller

`EntriesSafe` is inductive with the two parts that say that the other tables agree: the kernel watches a descriptor with the entry of the
object registered for it (`KernelAgrees`), and an event in the buffer either belongs to a retired entry or is still true
(`BufferAgrees`: same owner, data still there, the error still there unless its first test has
taken it).  That no two events of a buffer are of one entry, which `epoll_wait` guarantees, is why the handler of one does not make
another untrue except by removing its object.

### The send queue

The bytes of the ring are in one of two shapes (`Straight`, `Wrapped`).  `Offset` is the place of an item among the unread bytes, and
in these terms wrapping, growing and reading change nothing but the origin: `Tiled` says the items not
yet fetched stand one behind the other from 0 to the data size.  `PutKeepsOrder` and `PushedBehind` show it for a push,
of which there are three ways in place (behind, before, between) and one with growth, whose copy is the map to
the offsets (`CopiedIsOffset`); `PopKeepsOrder` for a pop.  The shape is lost exactly when an item is put behind a full lap.
A push that finds no memory changes nothing but the count of commands, so `Counted` says there is one for each packet and each
lost item; from it and the layout follows what each assertion can meet (`AssertionsThatFail`).

### Replies

`BufferHolds` is about the threads that are not `disturbed`: while such a thread uses the buffer no other is inside of
`sock_ntop_host`; from the end of its own writing to the end of the callback the buffer holds the source of the packet it
works on; and a packet that it accepted is its host's.  A writer that begins marks every other user, and itself when another is
writing (`StartDisturbs`), which is why the part about undisturbed threads is kept by the steps of all
(`BufferKept`).  What was recorded is judged by `CreditsSound` and `CallbacksSound` with the mark it carries.

### Probes

The sum of the words is a recursion over data, but one whose every step is the same function; `PrefixInduction` gives
a function that follows it (`AccumulateSums`).  Within `Fits` no step overflows, so that changing one word changes the sum
by the difference (`ChangedSum`).  `FoldKeepsValue` is the heart: adding the high word to the low one, and the carry of
that, keeps the value modulo `WordValues - 1` and makes zero of zero only.  A packet verifies when its sum is a
positive multiple of that number (`VerifiesIff`); the field is what the rest lacks to the next multiple,
and one word cannot lead from one multiple to another but between 0 and `WordValues - 1`.

### Options

`OptInv` has the types of the fields (`Fields`) and, for the mechanism, what the last of the three options that decide it
leaves in `mechanism` and `as_server` (`Decided`).  That no other option shows a change (`OthersShown`) is a matter of
which field each option reads (`ShownOfField`); there is one lemma for each kind of call.

### Strings

`StrInv` has three parts.  `HeapSound`: each representation in memory holds its size and capacity, as many bytes as
the capacity and one, letters up to the size and the zero behind them, and the static one is empty.
`Owned`: each representation but the static one has exactly one string.  `Tight`: it is in proportion to the text, or was
reserved.  The first two, which all operations preserve alike, are stated for any assignment of representations to
strings and any memory (`Whole`), because `reserve` and `append` pass through memories that are no state of the program: `Filled` makes a
representation, `RewrittenSound` writes into one, `Moves`, `Empties`, `Writes`, `Makes`, `Removes` and `Swaps` say what becomes of the
texts of all the strings then.  So the lemma of an operation gives the invariant and the step of `StringValues` at
once (`Stepped`), and both theorems follow from the same lemmas.

### Only model-checked

- Liveness everywhere, the fairness of the abstract specifications included: `EverySilenceReported`, `ExitedSessionsDeleted`,
`AllFetched`, `ShutdownCompletes`, and the liveness half of `ImplementsChannel`.
- The documents: `DocumentWhole`, `SavedIsRead` and `ImplementsForest`.  The lists of siblings, the trees below
nodes, the walks, the writers and the readers are recursive operators over the data, which is out of the prover's reach.
- Characters and the positions of errors, the first half of `BytesAndCountsAgree`, for the same reason; its
second half is what `ChecksumVerifies` and `RoundTripTime` prove.

## 6. Where the code and its documents disagree

- The context deletes the reaper before it stops the I/O threads (`ctx.cpp:66`), so a
  session whose time-out is noticed in between sends to a mailbox that is gone, against
  the comments in `mailbox.cpp:37` and `ctx.hpp:58`.  Waiting on the mutex in the mailbox's
  destructor does not help a thread that has not locked it yet, or that has unlocked it and still owes
  the byte.  `ShutdownSafe` says that this is the only way the shutdown goes wrong.  As nothing calls `terminate`, the
program does not meet it today; it will once `host_sutdown` does what its name says.  (`late_report`)
- Items of different lengths can make the growth of the send queue fail its
  assertion (`data_queue.cpp:60` and `:88`): items stored before the query
  position that end exactly at the terminal position look like a ring that has not
  wrapped.  (`mixed_lengths`)
- Two I/O threads write and compare the same static text (`session.cpp:340`,
  `sock_op.cpp:27`).  (`shared_buffer`)

Seen while modelling, without a run of its own:

- The signaler's header says there is at most one signal in it at any moment
  (`signaler.hpp:32`).  The reader leaves `NULL` in the pipe before it takes its byte
  back (`mailbox.cpp:69`), and a sender that meets the `NULL` in between sends a second
  one.  With a socket pair that is harmless: two bytes is the most there can be, which
  `SignalsBounded` says.
- A host without an address: `exit ()` does not leave `process_plug`, which then
  reads a null pointer (`session.cpp:404`).
- A time-out of 2148 seconds or more is never reached, because `abs ()` takes an
  `int` (`session.cpp:124`).
- `icmp_id` has 16 bits and is compared with the whole process id (`session.cpp:346`): with an id above 65535 no
  reply is ever accepted, which is the second half of `OwnRepliesCount`.
- The length test of a reply asks for 16 bytes and the time stamp is read from 24
  (`session.cpp:348`); the time is only logged.
- `sendto` failing with an errno it asserts against, as `EACCES` for a broadcast address, ends
  the process (`session.cpp:283`).
- `host_asyn_send` accepts lengths whose item does not fit the reaper's work buffer
  (8309 to 8320 bytes); the assertion of `pop_item` ends the process when it comes to it.  When the send queue finds no memory
  the item is lost and its command sent all the same (`data_queue.cpp:73`, `:101`, `reaper.cpp:169`), for which the
  assertion in `process_fetch_buf` fails later (`reaper.cpp:216`).  `send_queue` has both, and `FailuresKnown` says that
  there is nothing else.
- The load that `choose_io_thread` compares does not count sessions whose `plug` is
  still in a mailbox.  A report can be overtaken, on its way through the reaper's
  mailbox, by a reply.  A session that cannot open its socket is deleted and the
  application does not hear of it: the call in `session_leave` is commented out
  (`reaper.cpp:381`).
- The context's destructor uses the reaper whether or not `start` was called, and the
  pointer is not initialised (`ctx.cpp:65`); `host_init` always calls `start`.
- `create_link` copies 120 bytes of an address whatever its length (`reaper.cpp:110`).
- The test of the keep-alive option, `value >= -1 || value <= 1`, is always true (`options.cpp:200`).
- TinyXML: an ampersand before `#x` in a value is written without being escaped, with all up to the next
  semicolon (`tinyxml.cpp:37`).  Closed inside the value it is read back as the character it names, otherwise the reader stops
  with an error or goes on behind a later semicolon, and takes markup for part of a reference: `SavedIsRead` says when.
  A text that ends inside of a quoted value, a comment or a CDATA section is read past its end (`tinyxmlparser.cpp:635`,
  `:1383`); one that ends in the white space of a declaration fails the assertion in `StringEqual` (`:538`); an unknown tag or
  a declaration that the text ends in, outside of the elements, is accepted without an error; text outside of the
  elements ends the reading of a document without an error, and so does a second attribute of the same
  name in its element (`tinyxmlparser.cpp:1167`); the assertion in `LinkEndChild` accepts a node that is
  linked already (`tinyxml.cpp:164`); `ReplaceChild` does not refuse a document as the
  other operations do; an incomplete sequence of three bytes that begins with EF leaves `Stamp` where it is, for
  ever (`tinyxmlparser.cpp:264`); LF CR is one end of line to `Stamp` and two to `LoadFile`; a string
  appended to itself reads what it has just freed (`tinystr.cpp:73`), which the code never does.

## 7. Not modelled, and why

- `select` and the Windows code are not compiled on Linux; `tcp_listener`, `array`, the
  session's send lists and `probe` of the pipe, `remove_item` and `get_burthen_info` of the
  send queue have no caller.  CURVE is not compiled without libsodium, so `Options` refuses its options.
- `poller_base`, which keeps timers and loads, is not in the repository: `HostScan` and
  `Epoll` model it from its use.
- What a sent item would do in the reaper is commented out in the code.
- Reopening the signaler's socket pair in a forked child; the thin wrappers of operating system
  services; the tick counter of `clock`; IPv6 in `sock_ntop_host`.
- TinyXML: what the reader makes of the memory behind a text it has run past; decimal references in texts (`Utf8` has
  the conversion); encodings other than UTF-8; lead bytes F5 to F7 and numeric references that overflow; conversions of
  values to numbers; copying of whole documents other than by clones.
- The list of attributes as a two-way list; texts are atoms, so lengths in bytes appear only where a module is
  about them.

## 8. Plan

What a next round can take: the links of the document tree in a module of their own, with the nodes below another as
the least set closed under children instead of by recursion, so that `ListsTwoWay` and `OwnedOnce` can be proved;
and the send queue as a refinement of a plain queue until a full lap, of which `Accounted` and
`FifoOrder` say the parts.
