# ctxio in TLA+

ctxio wraps files, pipes, sockets and terminals so that a blocked `Read` or
`Write` can be ended: by a context, by `Cancel`, or by `Close`. The difficult
part of it is concurrency. An operation, the watcher goroutine of its context,
goroutines that call `Cancel*` and `Reset*`, a goroutine in `Close` and the peer
of the object all run at the same time, and hardly any of it is under a lock.
This directory holds TLA+ models of that, the TLC configurations that check
them, and TLAPS proofs. Line numbers in the modules are those of the Go files.

## 1. Inventory

| component | files | state | operations |
|---|---|---|---|
| interface and watcher | `ctxio.go` | the channel `operationFinished`, a wait group | `cancelWhenContextIsDone` and its `done()` |
| cancel signal | `ctxio_linux.go`, `ctxio_bsd.go`, `ctxio_select.go` | per direction an atomic flag and a pipe | `CancelReads`, `CancelWrites`, `Cancel`, `ResetReader`, `ResetWriter`, `Reset` |
| epoll backend | `ctxio_linux.go` | two epoll instances, the signal, the object | the four operations, `Close`, `waitRead`, `waitWrite` |
| select backend | `ctxio_select.go` | the signal, the object | the same, `waitForRead`, `waitForWrite` |
| kqueue backend | `ctxio_bsd.go` | one kqueue, the signal, the object | as epoll |
| deadline backend | `ctxio_deadline.go` | two flags, the deadlines of the object | as epoll, without waits |
| closable backend | `ctxio_closable.go` | two flags, a mutex and `closed` | as epoll, without waits |
| `Connect` | `connect.go` | errgroup, monitor goroutine, `copyDone` | two copies, cancellation of both sides |
| `ConnectAndClose` | `connect.go` | errgroup, `AfterFunc`, `sync.Once`, `closedByUs` | two copies, closing both sides |
| overlapped backend | `ctxio_windows_overlapped.go` | two flags, two auto-reset events, the pending requests, file offsets | as epoll; `overlappedIO` |
| anonymous pipe backend | `ctxio_windows_pipe.go` | two flags, per direction the thread handle and the channel of a worker | as epoll; `doSyncIO` |
| console backend | `ctxio_windows_console.go`, `ctxio_windows.go` | two flags, an auto-reset event, CONIN$, the console mode | as epoll, `waitForMultipleObjects` |
| sockets of Windows | `ctxio_windows_socket.go` | the deadline backend | - |
| Wrap functions | all `ctxio*.go` | descriptors and handles opened so far | choice of a backend, fallbacks, error paths |
| test application | `testapp/` | - | a demonstration |

How they interact. The operations of a backend call `cancelWhenContextIsDone`,
whose goroutine calls back `CancelReads` or `CancelWrites` of that same backend.
These share the flag, and the pipe or the deadline, with goroutines of the user
that call the same methods, and with `ReadContext` and `WriteContext`, which
reset on their own. `Close` begins with `Cancel` and then takes the descriptors
away. `Connect` runs two `io.Copy` over two `ContextIO` values and calls
`Cancel` on both; `ConnectAndClose` does the same to plain objects with `Close`.

Hard behaviours: a goroutine stopped between an atomic operation and the system
call that goes with it; a context that expires while the operation succeeds; a
cancel that arrives before, between or after the waits of a write in chunks;
`Close` under a blocked operation; a kernel buffer that fills; a request that
ends with data while it is being aborted; a thread handle whose value is used
again; a constructor that fails half way; a copy that fails because the other
one did. `PROJECT.json` lists each at its line.

What makes the components correct:

- *signal*: no cancel is lost, none is left over for a later operation, and
  neither of its system calls blocks;
- *a backend*: it keeps the promise of `ContextIO` (an operation reports what it
  moved, and `ErrCanceled` only with a reason of its own), a canceled or expired
  operation returns, and no uncancelable call is entered that may block;
- *a backend of Windows*, besides: the kernel holds no buffer of an operation
  that has returned, and a loop that repeats a cancel ends;
- *a Wrap function*: what fails leaves nothing open and the caller's object
  alone, and what succeeds is released as a whole by `Close`;
- *`Connect`*: the first error is what is returned, nothing is still running
  after the return, and one blocked direction cannot hold it up;
- *`ConnectAndClose`*: both objects are closed once by the time it returns, and
  errors it has caused itself are not reported.

## 2. Modules

```
CancelSignal     Stream          ContextIO (the promise)     CopyPair      Wrap
     |              |                     ^                     |
     |          Operation -- implements --+              +------+------+
     |              |                                    |             |
     +-- SignalIO --+---------- FlagIO                 Connect   ConnectAndClose
            |                     |                      |             |
    +-------+-------+       +-----+------+               +- MCConnect -+
 EpollIO SelectIO KqueueIO  |     |   WinRequest
                     DeadlineIO CloseIO   |
                                  +-------+--------+
                     WinOverlappedIO WinPipeIO WinConsoleIO
```

- **CancelSignal**: flag and pipe of each direction. `canceled` and `pipe` are
  the code's; `signaling` and `draining` are the goroutines between
  `CompareAndSwap` and `Write`, and between `Swap` and `Read`; `ends` says which
  ends of the pipe are open. One action per atomic operation or system call.
- **Stream** (external): the wrapped object and its peer as a duplex byte stream
  with bounded buffers. Bytes are counted. `LowWater` is the free room at which
  the kernel reports writability. As in Go, `rw.Read` returns some bytes or an
  error, and `rw.Write` returns when all are in the buffer or with an error.
- **ContextIO**: what the interface promises to every caller, as an abstract
  state machine: a call is idle, busy (bytes may move) or done (result settled).
  `Forgets` are the errors with which a caller may be told 0 bytes.
- **Operation**: the frame that all backends share. `pc` is where a caller's
  goroutine is, `watch` where its watcher is, `job` what is left of the method a
  canceler is in. `cause` and `moved` are history. `ImplementsContextIO` is the
  refinement: `pc` maps to the phase of the promise. `CountsExact` is the part of it
  that does not ask for a reason to cancel. The rule that
  `ResetReader` and `ResetWriter` are not called during an operation
  (`ctxio.go:64-71`) is a guard; any other overlap is allowed.
- **SignalIO**: the operations composed with the signal, for the three backends
  that have one: the check of the flag, the reset by `ReadContext`, the watcher
  and the cancelers, and the part of `Close` that closes pipes and object.
- **EpollIO**, **SelectIO**, **KqueueIO**: the wait, the harvest of an event and
  the switch on it, the calls of `rw.Read` and `rw.Write`, and `Close` as its
  sequence of steps. EpollIO writes in chunks of `Chunk`; KqueueIO in chunks of
  the size the event reports, and keeps the filters that both directions have
  added to the one queue; SelectIO looks at both descriptors at once.
- **FlagIO**: what the other backends share: an atomic flag for each direction,
  stored before the backend does something to the call in progress or undoes it.
- **DeadlineIO**, **CloseIO**: no wait before the call. In DeadlineIO a store of
  a flag and a call of `SetReadDeadline` are steps of their own. In CloseIO the
  cancel closes the object, and the three `WrapClosable...` functions are a
  choice of `Init`.
- **WinRequest** (external): `ReadFile` and `WriteFile` hand the buffer to the
  kernel, which serves the request whenever it can, breaks it with the pipe, or
  aborts it for `CancelIoEx` or `CancelSynchronousIo`. `req` is the request of
  each caller. A request that completes at once is one that has ended before
  anybody looks.
- **WinOverlappedIO**: the store of the flag, `SetEvent` and `CancelIoEx` are
  three steps of a cancel, the store and `ResetEvent` two of a reset. `Wake` and
  `Drain` are the arm of the cancel event in `overlappedIO`, whose
  `GetOverlappedResult` waits. On a file the bytes of a write are on the disk as
  soon as the request is served, whatever the operation then reports; a read has
  taken its bytes when the offset advances, as a later read finds them again
  otherwise.
- **WinPipeIO**: `worker` is the goroutine of `doSyncIO` statement by statement;
  `opDone` and `thread` are the fields that cancels look up, `hold` what a cancel
  has found and loops on. `Interrupt` is one `CancelSynchronousIo`; it reaches
  the thread that the value of the handle stands for at that moment, which need
  not be the one it stood for when it was looked up.
- **WinConsoleIO**: the loop of `read`. `noise` counts records without a
  character (focus, resize), for which a read may come back empty, be aborted,
  or go on waiting.
- **Wrap**: a constructor is a sequence of steps, each with what it opens and
  what the code closes when it fails; a call is a sequence of constructors.
  `Pass` and `Fail` are the two outcomes of a step, `stray` is what failed
  constructors left, and `Collect` the garbage collector, which closes every
  `*os.File` that nothing refers to: a pipe that an error path forgets, and the
  descriptor that `WrapFd` took. An object that was closed before fails the steps
  that look at its descriptor.
- **CopyPair**: the two copies of an errgroup. **Connect** and
  **ConnectAndClose** add what interrupts them. The objects of `Connect` are
  taken to keep the promise of `ContextIO`.
- **MC...**: the same systems with a variable `use`, see section 3. **MCFlagIO**
  runs one of four backends in each behaviour (`kind`), **MCConnect** one of the
  two functions (`which`).
- **SignalIOProofs**, **EpollIOProofs**, **SelectIOProofs**, **KqueueIOProofs**,
  **MCConnectProofs**, **MCFlagIOProofs**, **MCWinPipeIOProofs**, **WrapProofs**:
  section 5.

`PROJECT.json` maps every definition to the lines it stands for. A definition
with the comment "Mutant" is not part of a model: it is the form a bug would
have, kept to show that a property notices it.

## 3. Runs

| run | what it asks | instance |
|---|---|---|
| Epoll | do flag and pipe stay in step; is the promise kept with exact counts; does a cancel or an expired context end every operation but a chunk without room; does every method return | 1 reader, 1 writer, 1 canceler; writes of a chunk and a half |
| Select | the promise and the endings for select; is the cancel looked at before the data | the same, whole writes |
| Kqueue | the same with one direction in use | the same, chunks of the size the event has |
| Flags | for deadline, closable, overlapped and console: the promise without the counts of canceled and failed operations; is the object closed once; does a request outlive its operation; does a canceled read take bytes, or any other operation not report what it moved; does every operation whose context is done end | the same; a read of 1 byte, writes of 0 or 2, 1 record without a character |
| WinPipe | the promise; does a cancel that finds the thread end its operation; does every loop of a cancel end | the same; 2 workers, 2 handle values |
| Connect | first error, closed once, genuine errors only, no loss on success, nothing after the return, termination, for both functions | 2 copies, 2 bytes at most |
| Wrap | is everything that a failed step leaves closed; does `Close` release all | every call of every platform, every step failing or not |
| EpollClose, KqueueCross, DeadlineLost, OverlappedLoss, ConnectConsumed | counterexamples, section 4 | |

The bounds, and why they are enough:

- `Readers = {r}`, `Writers = {w}`, `Cancelers = {x}`. With the watcher of each
  operation that is four goroutines at the signal of one object. The canceler
  runs any method after any other, so that two cancels, a cancel and a reset, or
  `Close` and the watcher overlap. The theorems hold for any number. Several readers at once are
  described in section 4.
- In a behaviour of the MC modules one direction is in use (`use`), so that the
  states of the two directions add instead of multiplying; the canceler acts on
  both. The directions share only the object, its closing, the queue of
  kqueue, `CancelIoEx` of the overlapped backend, and the thread handles of the
  process; KqueueCross uses the plain module, and in MCFlagIO the canceler of the
  overlapped backend cancels the direction that is not in use as well. In
  MCFlagIO and MCWinPipeIO the canceler calls the methods of the direction in use
  (and those of the other where they reach it); one method more would repeat the
  same steps on variables nobody looks at.
- `MaxLen`, `Chunk`, `BufSize`: two chunks, one full and one short, and a buffer
  of one chunk, so that a write is interrupted between and within chunks. A read
  is one `rw.Read`, so that a buffer of one byte suffices in Epoll.
- `Threads`, `Handles`: two workers, so that one is in its deferred function while
  the next begins, and two values, so that one is used again. A worker is chosen
  anew when no cancel remembers it.
- `MaxNoise = 1`: one record is enough to wake a read that then finds nothing.
- `Capacity = 4`: more than the goroutines of the instance, as 64 KiB is.
- `MaxChunk`, `MaxBytes`: a chunk of more than one byte may be written in part;
  a second chunk is in flight when the first has arrived.

Deadlock is checked everywhere but in Connect and Wrap, where the program ends.
Wrap has no bound: its constructors and calls are what the code has.

`LowWater = 1` in every run with a wait for writability: as real kernels do, the
object is reported writable when there is less room than the operation is about
to fill, and its `rw.Write` may block (section 4).

`Forgotten` is the set of errors with which an operation of a backend may return
0 although bytes were moved: none for epoll and select, `ErrCanceled` for the
anonymous pipe, and both errors for kqueue and for the four backends of Flags.
The promise is checked with exactly this exception. For Flags `NothingLost` says
more: a canceled read has taken nothing, and an operation that ends in any other
way reports what it moved, with two exceptions of the overlapped backend: a
named-pipe read that was woken, and a wait that fails because `Close` closed its
event, unless it is that of a read on a file. It does not speak of how much a
canceled write has moved.

**Fairness.** Weak fairness on the steps of each goroutine: the operation, the
watcher, a method that has begun, the copies, the monitor, the main goroutine.
Go's scheduler runs every goroutine that can run, and a system call that is
ready returns, and a request that was aborted ends. There is none on the peer, on the expiry of a context, on calls,
on bytes served by the Windows kernel, nor on the data that would unblock a
copy: every liveness property holds although
the peer never does anything. A goroutine that is between two steps may be
stopped for any finite time.

**What liveness says about `Close` and about `rw.Write`.** `CancelEnds`,
`ExpiredEnds` and `ExpiredReturns` except an operation from which `Close` takes
the descriptors or the object meanwhile. For epoll the exception is needed
(section 4, EpollClose); for select, `CancelEndsWaits` shows that a waiting
operation is ended also then. `CancelEnds` and `ExpiredEnds` except one thing
more (`RwWriteBlocked`): an operation in `rw.Write` with bytes left for which the
peer leaves no room. It may stay there for good (section 4). kqueue writes no
more than the event says there is room for, so that its `ExpiredReturns` has no
such exception.

## 4. What the runs found

Five runs state a line of the documentation and are refuted by TLC:

- **EpollClose** (`CancelEndsReads`): `Close` writes the cancel byte and closes
  the epoll descriptor, the pipe and the object without waiting for the operation.
  If the waiting goroutine comes too late, nothing is in its interest list any
  more, and it waits for good. `ctxio.go:45`: "Cancel cancels any ongoing [...]
  calls", and `Close` begins with it.
- **KqueueCross** (`WritesLeaveReadsAlone`): reader and writer wait on one kqueue
  that holds the filters of both. The byte of `CancelWrites` wakes the reader,
  whose switch does not know the descriptor, and `Read` fails with an error that
  is not `ErrCanceled`.
- **DeadlineLost** (`ExpiredReturns`): `read` begins by clearing the deadline.
  When the context expires after the start of the watcher and before that
  statement, the deadline that `CancelReads` has set is gone.
- **OverlappedLoss** (`CanceledReadTakesNothing`): a read on a named pipe is woken
  by its cancel event, aborts its request and waits for its end; the kernel has
  served it by then, and the bytes are dropped (`ctxio_windows_overlapped.go:211-218`).
  `README.md:13-15`: canceled "without consuming data".
- **ConnectConsumed** (`NothingConsumed`): `io.Copy` reads, then writes; a context
  that expires in between loses the chunk. `connect.go:13-14`: "no data is
  consumed from either side when the context expires".

More disagreements show when a constant of a passing run is changed. They are not
runs of their own; the change is given so that each can be seen again.

- EpollIO with two readers: `ReadNeverBlocks` and `CancelEndsReads` fail, as both
  are woken for one byte, or one resets the cancel that was meant for the other
  (`ctxio_linux.go:212`, `235`).
- KqueueIO with reader and writer in use: `ReadNeverBlocks` fails. `waitRead`
  does not look at the filter of an event and takes write readiness for read
  readiness (`ctxio_bsd.go:394`).
- Kqueue or Flags with `Forgotten = {}`: `ImplementsContextIO` or
  `AllImplementContextIO` fails,
  as a canceled `write` returns 0 after it wrote (`ctxio_bsd.go:275`,
  `ctxio_deadline.go:118`, `ctxio_windows_overlapped.go:218`), where `README.md:34-36` says no data is lost.
- DeadlineIO: a `ReadContext` that resets while a `CancelReads` of another
  goroutine is between flag and deadline fails with the raw timeout
  (`ctxio_deadline.go:126`).
- CloseIO: `Cancel` closes the object before it sets the flag of the writers, and
  a `Write` in between returns the error of the closed object
  (`ctxio_closable.go:151`). A `ReadContext` with a fresh context on a canceled
  object returns `ErrCanceled` (line 73), where `ctxio.go:31-32` says that it
  resets the reader.

Others are written into the models or the exceptions of a property, so that the
property says that nothing else of the kind happens:

- `CancelEnds` and `ExpiredEnds` of EpollIO, `ExpiredEnds` of SelectIO,
  `RwWriteBlocked`: a descriptor is writable when some room is free, and a chunk
  of up to 64 KiB (epoll, `ctxio_linux.go:276`) or the whole buffer (select,
  `ctxio_select.go:136`) then goes to one `rw.Write`, which blocks out of the reach
  of a cancel. `ctxio.go:36` promises that `WriteContext` ends as soon as the
  context expires, `ctxio.go:45` that `Cancel` cancels ongoing calls, and the
  comment at `ctxio_linux.go:261-262` that the chunks keep cancellation responsive.
  Epoll and Select with `ExpiredReturns`, which lacks the exception, as the
  property find such a write; both runs pass it with a `LowWater` as large as the
  largest `rw.Write`.
- WinOverlappedIO, `GiveCauseToAll`: `CancelReads` aborts a pending write, and
  `CancelWrites` a pending read, which return `ErrCanceled`
  (`ctxio_windows_overlapped.go:231`, `238`; `ctxio.go:53-62` speaks of one
  direction).
- WinOverlappedIO and WinConsoleIO, `LeftOver`: a `ReadContext` that resets
  between the store and the `SetEvent` of a cancel of another goroutine leaves the
  event set behind a clear flag, and the event ends a later operation; when its
  `ResetEvent` comes after the `SetEvent`, that cancel is lost instead.
- After `Close` has closed an event, a wait of the overlapped backend fails,
  leaves its request with the kernel and returns 0, whatever the request has moved
  or will (`ctxio_windows_overlapped.go:220-221`): bytes of a write on the disk or
  in the pipe, bytes of a read off the pipe. `RequestsOwned` and `NothingLost`
  except it (`WaitFailed`).
- WinPipeIO: a cancel that comes before the worker has stored its handle returns
  at once and is lost, for a context too (`ctxio_windows_pipe.go:203-205`), so that
  only `FoundEnds` can be stated; the deferred function of a worker clears
  `opDone` of the operation that began since (line 110); and as the handle is
  closed before the channel (lines 113, 136), the loop of a cancel may abort a
  call of another thread whose handle got the same value, in `Interrupt`. In
  the run such a thread is one of the same object and direction; in a program it
  may be any.
- WinConsoleIO, `CancelLost`: a cancel that precedes a `ReadFile` which then
  blocks for lack of a character is lost (`ctxio_windows_console.go:246-250`).
- On the Windows pipes a closed peer is an error and not `io.EOF`.
- Wrap, `Careless`: an error after CONIN$ was opened leaves it open, and the
  console in its changed mode (`ctxio_windows_console.go:78-92`, `159-183`); an
  error of `CreateEvent` closes the handle of the caller when it was overlapped
  already (`ctxio_windows_overlapped.go:51`, `58`). `Dropped`: a descriptor that
  `WrapFd` or `WrapHandle` was given is closed by a finalizer after an error
  (`ctxio_linux.go:85-90`).
- Not a matter of state, and so in no model: the error that `WrapConn` joins is
  that of `fdFromConn`, which is nil there, and the error of the failed
  constructor is lost (`ctxio_linux.go:74`, `ctxio_bsd.go:95`,
  `ctxio_generic_unix.go:53`).

## 5. Proofs

A theorem is about the specification of a module or, where the name begins with
MC, about the one a run checks; nothing bounds the goroutines, the lengths or the
buffers. It assumes what the modules assume of their constants
(`SignalAssumption` and its like) and what it names in an `ASSUME` of its own;
those are collected at the end of this section.

**The cancel signal.** `SignalIOProofs` begins with the signal alone, for any number of goroutines
and directions, and any pipe larger than the number of goroutines:

- `SignalTypeCorrect`: the types, with it that no byte is read that is not there;
- `SignalConserves`: as long as a pipe is open, its bytes and those about to be
  written are one for a set flag and one for each reset that is about to read;
- `SignalMatches`: with no method half done a pipe holds a byte exactly if the
  flag is set, so that no cancel is lost and none is left over;
- `SignalFlows`: the write of a cancel finds room, and the read of a reset finds
  a byte or a cancel that is about to write one.

The argument: that flag and pipe agree is what a user cares about, but it is not
inductive, as a goroutine may stop between the atomic operation and the system
call. `Conservation` counts these goroutines and is inductive with the types: an
atomic operation changes the flag and one of the sets by one, a system call one
of the sets and the pipe, and a closed end is never opened. Adding to and removing
from a set of goroutines changes its cardinality by one (`JoinLeave`), and a set
is no larger than `Procs` (`ProcsFinite`), which bounds the bytes in the pipe.
The last two theorems are consequences of the invariant.

**The backends with a pipe.** The rest of `SignalIOProofs` is what the three share. It
does not know their waits: `BackendStep` says what a step between the check of the flag
and the results leaves alone, and from that alone follow the simulation of the
signal, the types, and why a canceled operation has a reason. Each of
`EpollIOProofs`, `SelectIOProofs` and `KqueueIOProofs` then shows that its steps
are such steps and adds its own counts. `Close` may come at any time.

| theorem | epoll | select | kqueue |
|---|---|---|---|
| `TypeOK` | `EpollTypeCorrect` | `SelectTypeCorrect` | `KqueueTypeCorrect` |
| is a `SignalSpec` | `EpollHasSignal` | `SelectHasSignal` | `KqueueHasSignal` |
| `ImplementsContextIO` | `EpollImplements` | `SelectImplements` | `KqueueImplements` |
| `CountsExact` | `EpollCounts` | `SelectCounts` | `KqueueCounts` |
| `CancelReaches` | `EpollReaches` | `SelectReaches` | `KqueueReaches` |
| `ReadNeverBlocks` | `EpollReadsReady` | - | `KqueueReadsReady` |
| `WriteNeverBlocks` | - (section 4) | - (section 4) | `KqueueWritesReady` |
| others | `EpollConserves`, `EpollFlows`, `EpollAccounts` (`WriteAccounted`) | `SelectLooksAtCancelFirst` (`CanceledFirst`) | |

By `EpollHasSignal` the theorems about the signal hold in the backend
(`EpollConserves`, `EpollFlows`). The refinement of `ContextIO` says that counts
are exact and that `ErrCanceled` has a reason that belongs to this very
operation. Its argument: an operation that is woken by the pipe has a reason for
it (`CauseInv`). If the pipe is closed, `Close` gave it one. If it holds a byte,
then by `Conservation` the flag is set or somebody is about to read a byte. Nobody
is: a reset by a canceler does not run during an operation (`ResetInv`,
`DrainInv`), and there is no other caller. So the flag is set, and a flag that is
set after the operation has passed its check was set by its own watcher, for a
context that is done (`WatchInv`), or by a canceler while it ran. `Account` adds
that `moved` is what the operation is about to report.

A reason belongs to an operation, but a cancel, a byte and an event belong to a
direction. With two readers one of them resets what was meant for the other, and
the refinement is false. The counts are another matter. `CountsExact` is the same
abstract machine without the question for a reason, and holds for any number of
overlapping operations: nobody but the operation itself touches what it moved
(`Account`), whoever woke it. It is a theorem of every backend but the overlapped
one, and each step proof shows both at once (`KeepsCounts`, and `KeepsPromise`
where there is one caller for each direction).

`CancelReaches` is the safety in `CancelEnds`, `ExpiredEnds` and `ExpiredReturns`: while an
operation is past its check and its pipe is open, a done context is still with
its watcher or has set the flag, and the flag is set exactly when its byte is in
the pipe or about to be written. The second half is `Conservation` with nobody
draining, as above. The first needs `ExpiryInv`: the watcher of such an operation is
armed, fires, and ends only when the flag is set, and nobody resets the flag
then (`ResetInv`). What is left to liveness is that a goroutine that can take a
step takes it.

`CanceledFirst` follows from `Conservation` too: with an open pipe that select does
not report, either the flag is clear or its byte is still to be written.

For the reads that never block, what epoll or kqueue has seen stays so until the
one reader takes it (`ReadyKept`); for writes on a queue, the room that the event
reports can only grow while the one writer is the only one that fills it
(`FitsKept`).

**Connect and ConnectAndClose.** `MCConnectProofs`, for chunks and sources of any
size. A byte is taken, held or given (`BytesInv`), for both functions.

- `ConnectTypeCorrect`: the types, of both.
- `ConnectKeepsFirst` (`FirstErrorKept`): the error that was the reason to end is
  returned. What is inductive is that a reason precedes its consequences
  (`ConnectReasons`): the group's context is done only with an error kept or the
  caller's context expired, the monitor cancels only after that, and a copy is
  canceled only by the monitor. So when `ErrCanceled` is reported the first error
  is there already.
- `ConnectLeavesNothing` (`NothingAfterReturn`): `main` returns only when the
  copies and the monitor are done, and these have no further step.
- `CloseClosesBoth` (`ClosedOnReturn`): the closings are counted by how far
  whoever is inside the `sync.Once` has come (`OnceInv`).
- `CloseReturnsGenuine` (`GenuineError`): besides the reasons as above, the flag
  `closedByUs` is set before anything is closed (`FlagInv`), so that an error of a
  closed object always finds it set when it is reported (`ClosedInv`, `Reported`),
  and a genuine error that finds it set has a reason that is already kept.
- `NilMeansComplete` (`NilIsComplete`): a nil means that no copy kept or reported
  an error (`NilOfWait`), and then the bytes held are none.

**The backends with a flag.** `MCFlagIOProofs` has the deadline, closable,
overlapped and console backends one after the other, each for both directions
and with a step lemma per method (`...Operates`, `...Watches`, `...Manages`). What
they share comes first, as with the pipes: the tests of the flag (`Tests`), the
calls of the object (`CallsObject`, `Calls`), and what a watcher, a method and the
rest may do (`WatcherMoves`, `MethodMoves`, `OthersMove`). Each backend then has
theorems about its own specification, and the last section of the module those
about the specification of the run Flags.

| theorem | deadline | closable | overlapped | console | run Flags |
|---|---|---|---|---|---|
| `TypeOK` | | | | | `FlagTypeCorrect` |
| the promise | `DeadlineImplements` | `ClosableImplements` | `OverlappedImplements`, `OverlappedFileImplements` | `ConsoleImplements` | `FlagImplements` |
| `CountsExact` | `DeadlineCounts` | `ClosableCounts` | - | `ConsoleCounts` | |
| `ClosedOnce` | | `ClosableClosesOnce` | | | `FlagClosesOnce` |
| `RequestsOwned` | | | `OverlappedOwnsRequests` | | `FlagOwnsRequests` |
| `NothingLost` | | | | | `FlagLosesNothing` |

- The promise. `ReasonInv` has one conjunct per
  backend, and all are made of the same parts. `WatchInv` and `ResetInv` are those
  of the pipes. `CauseInv(P)`: an operation that finds its flag set has a reason,
  except where it is about to reset it, at the places `P`. The operations of the
  closable backend do not reset, and have no such places. `EventInv(S)` says the same of the auto-reset
  events of Windows, for all callers of the overlapped backend and the readers of
  the console. It has the further exception of a `ReadContext` that has swapped
  the flag and not yet reset the event. With these an operation that was woken,
  or whose request was aborted, has a reason (`RequestReason`). `InRequest` and
  `Reported` then relate what the kernel has moved for a request, on a named pipe
  or a file, to what the operation reports.
- The exceptions of the counts are as small as the code allows. The deadline and
  the closable backend drop only the count of a canceled write, and the console
  none, whatever `Forgotten` is. The overlapped backend needs both errors: the
  kernel may serve a request while it is being aborted, or after a wait has failed
  on a closed event. On a file that concerns writes alone, and the counts of reads
  are exact (`OverlappedFileImplements`). `FlagImplements`
  has the union of these exceptions, as one run has all four backends.
- `CountsExact` has no theorem for the overlapped backend: the operations of one
  direction share the offset of a file, and on a named pipe a read may lose what
  it took (section 4, OverlappedLoss).
- `ClosedOnce` is inductive once it says that the flag under the
  mutex tells whether the object was closed (`OnceInv`).
- `RequestsOwned`, by kinds of step (`OwnInv`): closed events
  stay closed (`Latched`), only an operation that goes on to wait issues a request
  (`NothingIssued`), and one that stops waiting has taken its request back
  (`WaitersWait`) or has failed on a closed event. On the console the account of
  the operations says it without exception (`ConsoleAccount`): a request is pending
  only at the place where `overlappedRead` waits for it.
- `NothingLost`: what an operation has moved and not yet
  reported is in its request or in its call (`Account`, `OverlappedAccount`,
  `ConsoleAccount`), for each place of its code. A wait that failed is known by
  its event, which stays closed (`ClosedStays`).

**The anonymous pipe.** `MCWinPipeIOProofs`:

- `WinPipeTypeCorrect`: the types, for both directions at work.
- `OneWayImplements`, and from it `WinPipeImplements` for the specification of
  the run (`ImplementsContextIO`). What has to be shown is that
  `CancelSynchronousIo`, which reaches whatever its handle value stands for by
  now, ends no operation without a reason. Only workers of the one direction
  exist, and what a cancel holds is held no longer than the cancel lasts
  (`Attributed`, `Held`). So whatever it hits is an operation of the direction
  that is being canceled, and a cancel in progress has set the flag or gives its
  reason at that step (`CauseInv`, `InterruptHasCause`).
- `WinPipeCounts`: `CountsExact` with both directions at work and any number of
  callers. A cancel may then abort the wrong request, but what a worker returns is the
  result of its own.

**The Wrap functions.** `WrapProofs` has `WrapCleansUp` (`FailuresCleanUp`) and
`WrapReleasesAll` (`CloseReleasesAll`). The module has no constants, and its run is
exhaustive. What the proof adds is the reason. Whether an error path closes
enough is a matter of one constructor: every step releases, when it fails, all that
the steps before it opened, and `Close` releases what any step opens (`Tidy`, a
lemma for each constructor). What is open in the middle of a constructor is what its
steps so far opened (`Opened`, in `HeldInv`), so that with `Tidy` every outcome of
every step keeps the invariant, whatever was tried before and is tried next. A new
constructor needs a `Tidy` of its own, and another order of the fallbacks nothing:
the argument stays.

**Assumptions beside those of the modules.**

- `OneEach`, one caller for each direction: all theorems that name
  `ImplementsContextIO` or `AllImplementContextIO`, `CancelReaches`,
  `ReadNeverBlocks` and `WriteNeverBlocks`. Two readers share
  the flag and its byte or event, so that the refinement of epoll is false then
  (section 4). The counts, the types, `ClosedOnce`, `RequestsOwned` and what is
  proved of the signal do not need it.
- `FilesOneEach`, the same only where the object is a file, in `FlagTypeCorrect` and
  `FlagLosesNothing`: two operations on a file share the offset, which each
  advances.
- `Forgotten`: both errors in `KqueueImplements`, `KqueueCounts` (`WaitsForget`),
  `OverlappedImplements`, `OverlappedFileImplements` and `FlagImplements`, and at least `ErrCanceled` for the
  deadline and the closable backend and the anonymous pipe; anything for the
  others. It is a constant of the promise that the code decides; with less the
  refinement is false (section 4).
- `Writers = {}` in `KqueueReadsReady`, `Readers = {}` in `KqueueWritesReady`: on a
  queue that both directions use, a wait gets the events of both filters, and the
  theorem is false (section 4). `~IsFile` in the latter: a regular file that
  reports a size of 1 is given the whole buffer (`ctxio_bsd.go:282`).
- One direction in `OneWayImplements`: an end of an anonymous pipe has no other.
  With both, TLC finds a behaviour of 21 states in which the handle of a worker is
  closed, its value given to a worker of the other direction, and that one aborted
  by a cancel that is still in its loop, for no reason of its own.

## 6. Only model-checked

- Liveness, which is out of TLAPS' reach here: `CancelEnds`, `CancelEndsWaits`,
  `CanceledEnds`, `DeadlineEndsReads`, `ExpiredEnds`, `ExpiredReturns`, `FoundEnds`,
  `MethodsReturn`, `ConnectReturns`.
- The endings are approached from below where that is possible: `CancelReaches` is
  a theorem of the three backends with a pipe. Nothing like it can be said of the
  deadline backend (section 4, DeadlineLost) and of those of Windows, which may
  lose a cancel (section 4).

Every other property of a passing run is stated by a theorem of section 5. The
properties of the other five runs are false.

Two properties are proved and in no run, as they are consequences of the same
invariants: `CountsExact` and `CancelReaches`. To check one on an instance, add
`CountsExact` to the `PROPERTIES`, or `CancelReaches` to the `INVARIANTS`, of
Epoll, Select or Kqueue; both hold there.

## 7. Not modelled

- Which errors a Wrap function joins, and `file.Fd()`, which may change the
  blocking mode of a descriptor before its deadlines are tried; that is the Go
  runtime's and differs between its versions.
- Two directions of the Windows backends at work at once, and requests that are
  left with the kernel after `Close` beyond the time they end.
- A second `Close`, and the reuse of a closed descriptor's number by another file.
- An `rw.Read` that returns bytes together with an error. `CloseIO.Fail` and
  `DeadlineIO.TimeOut` stand for code that drops such bytes of a canceled read
  (`ctxio_closable.go:96-98`, `ctxio_deadline.go:83-84`); an `*os.File` and the
  connections of package `net` return none, but a reader of another kind given to
  one of the `WrapClosable...` functions may.
- The step between `CloseHandle` and the clearing of `opDone`, two deferred
  statements of a worker (`ctxio_windows_pipe.go:136`, `109-111`), which
  `WinPipeIO.Unregister` takes at once. The worker has cleared `thread` before, so that a cancel that
  looks between them finds nothing, or the thread and the channel of an operation
  that began since, as one does that looks just before.
- Interrupted system calls (`EINTR`), which the waits repeat; contents of the
  data; names and wording of errors; `testapp`.
- Reading and writing by anybody but the callers, and other processes that share
  the object.

## 8. Plan

1. A statement of what several readers of one object are promised, where
   `CountsExact` is the part that is known to hold and a cancel may reach the
   wrong one.
2. WinOverlappedIO and WinPipeIO with reader and writer at work, on an instance
   small enough for TLC; the theorems for both directions are there
   (`OverlappedImplements`, `WinPipeCounts`).
3. The endings as consequences of `CancelReaches` and fairness, should the
   provers come to handle `ENABLED`.
