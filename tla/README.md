# A verification of pposix

pposix is a C++17 layer over the POSIX system calls: owning handles for
descriptors, `result<T>` and `std::error_code` instead of `-1` and `errno`, views
of memory instead of pointer and length, flag types whose bad combinations do not
compile. Nearly all of its logic sits in those four mechanisms; the wrappers of
sockets, files, epoll, message queues, directories and so on are applications of
them. The modules here follow that cut.

## Inventory

| Component | State | Operations | Talks to |
|---|---|---|---|
| `descriptor` (`descriptor.hpp`), `file_descriptor` | `raw_descriptor_` | construct, adopt, move, move-assign, `release`, `close`, destroy | the kernel's descriptor table, shared with every thread |
| `file` (`file.hpp`, `file.cpp`) | a `file_descriptor` | `open`, `close`, `lseek`, `read`, `write` | `descriptor`, views, flags |
| `errno_context`, `get_errno`, `set_errno` (`errno.cpp`) | `saved_errno_`; the thread's `errno` | construct, `restore`, destroy | every wrapper; signal handlers on the same thread |
| `result`, `PPOSIX_COMMON_*` (`result.hpp`, `util.hpp`) | value or error code | built once per call | `errno` |
| views: `span`, `byte_span`, `char_span`, their const forms, `any_view` | pointer, length | construct, convert, `subspan`, `as_bytes` | the calls that take them |
| flag types: `enum_flag` (`util.hpp`) | bits, at compile time | `\|`, `has` | `static_assert`s of the typed functions |
| `socket` | a descriptor; options in the kernel | make, set and get options | the four mechanisms |
| `epoll` | a descriptor; an interest list in the kernel | create, `ctl`, `wait`, `pwait` | the four mechanisms; other descriptors |
| `mq` | a queue descriptor; a queue shared between processes | open, send, receive (timed or not), notify, get and set attributes, unlink | other processes; signals; the clock |
| `mmap`, `shm` | address and length | map, protect, unmap, destroy | the address space |
| `dirent` | `unique_dirent`, a handle over a `DIR *` | open by path or descriptor; all that a handle does | takes over a descriptor |
| `sysconf`, `confstr`, `ioctl`, `fcntl` | none | one call each | `errno`, views |
| `stat.hpp` permission literals, `signal.hpp`, `syslog` | constants; signal sets; the process's log identifier | parse; set operations; open, mask, log, close | `mq::notify`; libc |

What is hard to get right here, and hard to test:

* **Reuse of descriptor numbers.** A number that is kept after its descriptor was
  closed is harmless until another thread is given the same number.
* **Failing `close`.** POSIX leaves open whether a `close` that fails has
  released the descriptor. `descriptor::close` keeps the number on failure and the
  destructor tries again, then drops the error.
* **errno between the call and its read.** A handler may run there.
* **Lengths at the edge** of `size_t`, `int` and `socklen_t`, and null pointers.
* **Flags without bits and flags that contain others** under `has`.
* For the queue, epoll and mappings: timeouts that race arrivals, one-shot
  notification, registrations that outlive their descriptor, double unmapping.

`PROJECT.json` lists each hazard at its line, with the properties that cover it,
or why none does.

How the modules build on each other:

```
Ownership <- Descriptor <- Directory <- Epoll      (run handles; handles_leak without Epoll)
MessageQueue <- MessageConsumer                    (runs mq, mq_live)
Syslog, SocketOptions <- Settings                  (run settings)
Permission <- Flags                                (runs flags, flags_docs)
Calls, Span, Mapping                               (runs calls, widened; span; mapping_unmap)
```

## Modules

### Ownership

The promise of an owning handle, with no numbers in sight: a resource is acquired
once, is held by exactly one party while it is open, changes hands whole, and is
disposed of only by the party that holds it. A destructor that fails to dispose
of its resource leaves it open, in nobody's hands (`Abandon`).

### Descriptor

`raw_descriptor_[o]` is the member of the object in place `o`; `st[o]` is its
lifetime (`closing` is the time between `::close` and the assignment that
follows it in `descriptor::close`, when other threads run); `error[o]` is what
`::close` returned to the `close()` in progress. `fdt` is the kernel's table: number to open file
description. A number is reused, the lowest free one first; a description never
is, which is what lets a property say "closes something else". `ints` are the
descriptors in the hands of code without a handle, among it the callers of
`capi::open`. `got[o]` is a history variable: the description that came with the
number.

| Action | Code |
|---|---|
| `Construct`, `Adopt` | constructors of `descriptor` |
| `Make` | a factory such as `socket::unsafe_make`; the empty temporaries it destroys leave the table alone |
| `MoveConstruct`, `MoveAssign` | both are a swap |
| `MoveAssignTraps` | `operator=(descriptor &&)` has no `return`: undefined, so a build may also stop there |
| `Release` | `release()`; hidden by `file` |
| `CloseCall`, `CloseReturn` | the two halves of `close()` |
| `FileClose` | `file::close()`, which keeps the number |
| `Destroy` | `~descriptor()` |
| `ProcessEnds` | the process ends, wherever it is |
| `OutsideOpen`, `OutsideClose` | code without a handle |

A `::close` that fails on an open descriptor has released it (`"released"`, always so
on Linux) or kept it (`"kept"`). `CloseFailure` is the set of what may have happened
when a `close()` reports failure, `{}` for programs in which none does; `DtorFailure`
is the same for the `::close` of a destructor. The two are apart because they do
different things to a program: after a `close()` the handle goes on with the number
it kept, after a destructor nobody has it. `CloseNumber` and `DestroyNumber` are the
two operations for any number, which is what `Directory` needs for a `::closedir` on
freed memory. An object is used by one thread at a time, as everywhere in C++;
different objects are different threads. A user of a raw number is taken to close it
only while it is his. The close of an empty handle is one step with the error `EBADF`.

### Calls

One thread with its `errno`, and a stack of what is alive on it: `errno_context`
objects and wrappers in flight. Every wrapper in the library has one of six
ways to report; `FileCalls` ... `ConfstrCalls` say which, file by file. A wrapper is
entered (`Begin`), its libc function fails or succeeds (`LibcFails`,
`LibcSucceeds`, `SysconfIndeterminate`) and it reads `errno` and returns
(`Return`). At every point in between a handler may start (`OpenContext`) and call
wrappers itself. `Dirty` is the set of shapes whose libc function may change
`errno` although it succeeds.

Two assumptions on the surroundings: a handler brackets itself by an
`errno_context` (the library's own device for it), and `::confstr` leaves `errno`
alone when it succeeds, since `confstr.cpp` decides by `errno` only.

`errno` after a factory is not part of any property: the destructors of the
temporaries call `::close(-1)`, so a successful `socket::unsafe_make` leaves
`EBADF` there.

### Span

A pointer is an offset into a block of memory, or null; the eight view classes
are two kinds, `span` and `any`. `lo` and `hi` record the part of the block that
the program entrusted to the first view of a chain. The slot `Kernel` holds what
the last system call was allowed to access. `SizeMod` and `IntMod` stand for 2^64
and 2^32, so conversions and differences wrap as they do in the code.

`Confstr` makes its view as long as the name, as `confstr.cpp` does, which compares
that length with nothing: if the buffer is shorter, the view runs past it. Such a view,
and what is derived from it, has the history mark `cut`, and `StaysInside` excepts it:
no document says that `confstr` should refuse, and a caller who asks `confstr_length`
first is safe. A `subspan` of such a view that would begin outside the block is
undefined and not followed.

### Flags and Permission

A flag is its set of bits on Linux. A behaviour is the compile-time evaluation of
one expression: flags are combined in some order (`Or`), then handed to a function
whose `static_assert`s accept or reject them (`Compile`). `names` remembers what
was written, which is what the messages of the assertions speak of. The
permission literals `"rw"_user`, `"x"_group` and so on are combined in the same way, by
the `operator|` of `capi::permission` (stat.hpp:39); `Permission` translates the
functions the compiler evaluates for them (`char_to_permission`, `str_to_permission`).
Their combination is no argument of `file::open`, which takes a `permission<>`.

### Directory

`Descriptor` with directory streams. `unique_dirent` is a `descriptor` over a `DIR *`,
so that the objects in `DirObj` are handles like the others, with all their
operations; their `raw_descriptor_` stands for the pointer by the number under the
stream, and `stream[d]` says whether a `DIR` was opened on description `d` and whether
it has been freed. `OpenDirFd` is `opendir(dir_fd)`: `::fdopendir` takes the number over
if it succeeds and leaves it with the caller if it fails; `OpenDirPath` is the overload
for a path. What differs from other handles is the close policy, `close_dir`, in
`close()` and in the destructor:

* `CloseDir`: `::closedir` of an open stream. It may fail, having done nothing or having
  closed the number and freed the stream all the same.
* `CloseNull`: of a null pointer, which an empty or moved-from `unique_dirent` passes on.
  It is an error, and a C library that crashes instead is `ProcessEnds`.
* `CloseFreed`: of a stream that a failed `::closedir` has freed. The code then reads freed
  memory, so that any number of the table may be closed.

The caller of `OpenDirFd` is taken to pass a number that it holds as an integer, that
is, to have called `release()` on a `unique_dir_fd`: `opendir` cannot do so itself.
The mutant `Release_KeepsNumber` is a caller who did not. Likewise a `DIR *` that
`release()` returned is closed once, and not if it was freed before
(`OutsideCloseDir`). `Basic`, `Full`, `Moves` and `NoHandle` group the steps of
`Descriptor` by class, for `Epoll` to pick from.

### Epoll

`Directory` with interest lists. `epolls` are the descriptions that are epoll
instances and `interest` the kernel's registrations, keyed by instance and
description. `CtlAdd`, `CtlModify`, `CtlRemove` are the overloads of `epoll::ctl`;
each is given two handles, of which the code uses the numbers. `Event` is the
constructor of `capi::epoll_event`, which leaves zeroed data if it is given none, as an
`epoll_add` or an `epoll_modify` may be.
`Wait` is `epoll::wait` and `pwait` as far as they change the list (one-shot
registrations); which events are ready is left to the kernel. Every step of
`Directory` purges the registrations of descriptions that were closed (`Purge`):
pposix wraps no `dup`, so that a description has one number. `epoll` offers neither
`close` nor `release`.

### MessageQueue and MessageConsumer

One POSIX queue and the `mq` handles of several programs. A handle is used by one
thread; a call is the system call (`Send`, `TimedSend`, `Receive`, `TimedReceive`),
which takes effect, fails or blocks, perhaps a wake-up by another call, `Expire` or
`Interrupt` while it blocks, and the wrapper's return (`SendReturns`,
`ReceiveReturns`). `Open`, `Close`, `Unlink`, `SetAttr`, `Notify` and `TakeSignal` are
single steps. Messages are numbered in the order of the calls; `fate[i]` is what the
sender of message `i` was told. Arguments the kernel refuses (a length against
`mq_msgsize`, nanoseconds, a priority given to `unsafe_send`) are one Boolean,
`valid`.

`MessageConsumer` adds a program that waits by notification: register, receive until
`EAGAIN`, sleep until the signal. It is not in the repository; it is the use that
`mq::notify` is for, and it is what makes the one-shot registration, and its
suppression while a receiver blocks, matter.

### Mapping

`mmap` handles over an address space of pages in which other code maps and unmaps
too. `mmap_d_[o]` is the member, address and length; `space` says which mapping a page
belongs to; `got[o]` is history. `Unmapper` are the handles whose `unmap()` is called.
The moves are those of `descriptor`, checked and proved in `Descriptor`; the module
is there for `unmap`. The destructor's close policy, `close_mmap(const mmap_d &)`
(mman.hpp:81), is declared and nowhere defined: the module presupposes the intended
one, a `::munmap` of the member's range.

### Syslog, SocketOptions and Settings

What pposix changes for a program outside its own objects. `Syslog` keeps what libc
keeps: which string the identifier points into, the default facility and the mask. How
long that string lives is the program's affair: `openlog` passes the pointer on and can
promise nothing. The program narrows the mask in nested scopes and restores it with
what `setlogmask` returned, and logs. `SocketOptions` has the numbers of the options,
the types of their values, and each typed `setsockopt` with the number and the bytes
it hands to `::setsockopt` (`overload` is the enumerator in the body of each of the ten
that take a `bool` or an `int`); the kernel's side (lengths, refusals,
doubling of buffer sizes) is from socket(7). `Settings` puts both in one process, with
calls in any order.

## Runs

| Run | Checks | Shows |
|---|---|---|
| `handles` | `ETypeOK`, `SoleCloser`, `OutsideIntact`, `StreamIntact`, `DataNamesSource`, `RightTarget`, `ImplementsOwnership` | without `file::close`, and if no `close()` that reports failure has released its descriptor: no descriptor has two closers; nobody closes what others have opened; streams are not freed under their handle; `ctl` concerns what its handles were entrusted with and events name what they are about; handles, streams and epolls implement `Ownership` |
| `handles_leak` | `NoLeak` | if a `::close` that fails in a destructor has released the descriptor, and with `file::close`: nothing open is forgotten, also when `::fdopendir` fails |
| `calls` | `TypeOK`, `TellsOutcome`, `ContextInvisible` | the caller learns whether its call failed and why; contexts leave no trace |
| `span` | `TypeOK`, `StaysInside`, `NullIsEmpty` | no view or call reaches outside what was entrusted, views of a `confstr` with too short a buffer excepted |
| `flags` | `TypeOK`, `MessagesKept`, `SaysWhatItMeans` | the assertions reject what their messages forbid, and nothing else; permission literals have the bits their letters mean |
| `mq` | `TypeOK`, `NothingLost`, `PriorityTold`, `TakenInOrder` | senders are told the truth about their messages, none is lost or doubled, and the sender's priority is what counts and what the receiver is told |
| `mq_live` | `TimedReturns`, `EveryMessageArrives` | timed calls return when their deadline passes; no message is stranded while the consumer sleeps |
| `settings` | `TypeOK`, `MaskRestored`, `OptionsInEffect`, `RecordedAsAsked` | the log's mask and messages, and the options of a socket, are what the program asked for |
| `file_close` | `OutsideIntact`, violated | `file::close` and then the destructor close a reused number |
| `mapping_unmap` | `MappingsIntact`, violated | `mmap::unmap` and then the destructor, with the close policy it is meant to have, unmap a reused range |
| `widened` | `TellsOutcome`, violated | `epoll::wait`, `pwait` and `ioctl` return an error after every success |
| `flags_docs` | `MessagesKept`, violated | the assertion against `mmap_no_access` can never fail, which is TLC's trace; and `mq_excl \| mq_non_blocking` passes the assertion against `mq_excl`, which it shows with `Op = {"mq_open"}` |

What the first run means on Linux: there a failed `::close` has always released the
number, so that its condition is that no `close()` reports failure, `CloseFailure = {}`.
The run has `CloseFailure = {"kept"}` and both failures for destructors: its behaviours
include all of those on Linux in which no `close()` fails, and those of systems where a
failed `close()` keeps the descriptor. For Linux with a `close()` that fails, `SoleCloser`,
`OutsideIntact`, `StreamIntact`, `RightTarget` and the refinement are false of the code:
descriptor.hpp:71 keeps a number that is free, and the destructor closes it again. Set
`CloseFailure = {"released"}` in `handles.cfg` to see it. The second run has what Linux
does in destructors, and anything for `close()`; where a destructor's failed `::close`
keeps the descriptor, `NoLeak` is false, since the destructor drops error and number.
The theorems have the same conditions, (1) and (2) below.

**Bounds.** `handles`: an epoll, two watched handles and a `unique_dirent` in a table of
two numbers, with three opens, so that a number is used for several things one after
the other and handles can be chained by moves. `handles_leak`: a file, two other
handles and a `unique_dirent`, two numbers and four opens. `mq`: two programs, two places,
two priorities and three messages, so that messages overtake each other, a third
waits for a place, and each call can meet an expiry; `mq_live`: two programs beside
the consumer, one place and two messages, so that a message can find the queue
not empty, find a receiver waiting, or arrive between any two steps of the consumer.
`settings`: two scopes, the kernel facility among the facilities, two calls of
`setsockopt` (one after which another might undo it), a negative and an
over-long time. `MaxDepth = 3` in `calls` lets a handler interrupt a handler inside a
wrapper, and two error numbers tell "an error" from "that error". A block of 5 bytes
with a 3-bit `size_t` and a 2-bit `int` makes every wrap-around happen, that of a real
block's length to a positive `int` among them; one variable is enough, since every
operation may read and write the same one. `flags` has
literals of up to two characters and needs no bound otherwise. Where a behaviour may
end (the bounds are used up, everybody waits in `receive`, the compiler is done) the
run says `CHECK_DEADLOCK FALSE`; `span` and `settings` run with the deadlock check.
Symmetry: handles of one kind, programs and the slots of views are
interchangeable; it is not used with fairness.

**Fairness.** Only `mq_live` assumes any: weak fairness of the consumer's thread, of
the passing of a deadline (`Expire`: the clock runs whatever programs do), and of the
return of a system call that has ended (`SendReturns`, `ReceiveReturns`: the scheduler
runs a thread that can run). Nobody is assumed to send, to receive, or to interrupt
anybody, so that `TimedReturns` is due to the deadline that the wrapper passes on and
to nothing else; it says nothing of a deadline that never passes. `EveryMessageArrives` speaks of messages accepted once the consumer
has the queue open.

## Proofs

Every theorem holds for all values of the constants that satisfy the named
assumptions of its modules; "for all" names the ones that matter.

| Module | Theorem | For all | Provided |
|---|---|---|---|
| `DescriptorProofs` | `Typing`: `TypeOK` | handles, numbers, opens | |
| | `SoleOwnership`: `SoleCloser`, `OutsideIntact` | the same | (1) |
| | `ForeignDescriptorsIntact`: `OutsideIntact` | the same | (1) |
| | `NothingLost`: `NoLeak` | the same | (2) |
| | `DescriptorImplementsOwnership`: `ImplementsOwnership` | the same | (1) |
| `DirectoryProofs` | `DirectoryTyping`: `DirTypeOK` | the same, and streams | |
| | `NothingLostWithStreams`: `NoLeak` | the same | (2) |
| | `StreamsKeepTheirDescriptor`: `StreamIntact` | the same | (1) |
| | `DirectoryImplementsDescriptor`: `Spec` of `Descriptor` | the same | (1) |
| | `SoleOwnershipBesideStreams`: `SoleCloser`, `OutsideIntact` | the same | (1) |
| | `HandlesAndStreamsImplementOwnership`: `ImplementsOwnership` | the same | (1) |
| `EpollProofs` | `EpollImplementsDirectory`: `DSpec` | the same, and epoll instances | |
| | `EpollTyping`: `ETypeOK` | the same | |
| | `EventsNameTheirSource`: `DataNamesSource` | the same | |
| | `CtlHitsItsTarget`: `RightTarget` | the same | (1) |
| | `EveryDescriptorHasOneParty`: `SoleCloser`, `OutsideIntact`, `StreamIntact` | the same | (1) |
| | `EpollImplementsOwnership`: `ImplementsOwnership` | the same | (1) |
| `MessageQueueProofs` | `QueueTyping`: `TypeOK` | programs, places, priorities, messages | |
| | `NoMessageLost`: `NothingLost` | the same | |
| | `PrioritiesAreTold`: `PriorityTold` | the same | |
| | `ReceivedInOrder`: `TakenInOrder` | the same | |
| | `ConsumerUsesQueue`: `CSpec => Spec` | the same | |
| `SettingsProofs` | `SettingsImplementLog`: `Spec` of `Syslog` | identifiers, priorities, facilities, depth, option values | |
| | `LogTyping`: `TypeOK` | the same | |
| | `MasksAreRestored`: `MaskRestored` | the same | |
| | `MessagesRecordedAsAsked`: `RecordedAsAsked` | the same | |
| | `OptionsTakeEffect`: `OptionsInEffect` | the same | `l_onoff` is 0 or 1 |
| `CallsProofs` | `ReportsAreTrue`: `TypeOK`, `TellsOutcome` | wrappers, error numbers, depth | no widened wrapper; (3) |
| | `ContextsAreInvisible`: `ContextInvisible` | the same | (3) |
| | `CallsTyped`: `TypeOK` | the same | (3) |
| `SpanProofs` | `ViewsStayInside`: `TypeOK`, `StaysInside`, `NullIsEmpty` | blocks, widths | |
| | `NullSpansAreEmpty`: `NullIsEmpty` | the same | |
| | `ViewsTyped`: `TypeOK` | the same | |
| `FlagsProofs` | `AssertionsSayWhatTheyCheck`: `MessagesKept` | sets of functions | without the three functions of `flags_docs` |
| | `PermissionsSayWhatTheyMean`: `SaysWhatItMeans` | literals of any length and characters | |
| | `FlagsTyping`: `TypeOK` | the same | |

1. `file::close` is not used, and no `close()` that reports failure has released its
   descriptor (`FileObj = {}`, `"released" \notin CloseFailure`): on Linux, no `close()`
   reports failure. Destructors may fail either way. The run `file_close` shows what
   happens with `file::close`.
2. A `::close` that fails in a destructor has released its descriptor
   (`"kept" \notin DtorFailure`), as on Linux. A `close()` may fail either way, and
   `file::close` may be used.
3. `::confstr` leaves `errno` alone when it succeeds.

*Descriptor.* `TypeOK` needs `Entrusted`: what `release` hands out is a description
only because an object with a number was given one. `SoleCloser` speaks of open
descriptors and is not inductive: two stale copies of a closed number satisfy it
until the kernel hands the number out again. The inductive invariant `Separated`
adds `Faithful` (the number of an object that will close it denotes what the
object was given) and `Apart` (no two parties that will close have the same number,
open or not); the lemma `FreshNumber` then says that a number which the kernel
hands out is in nobody's hands. `NoLeak` is inductive over `Typed`: each action
either leaves the party that answers for a number, moves the duty, or frees the
number (`StepAnswered`, one number at a time). The refinement adds `Unique`: no
description is denoted by two numbers and none is from the future, so that sets of
descriptions change by exactly one element.

*Directory.* To the descriptor table every step of a `unique_dirent` is a step of
`Descriptor`, except `CloseFreed`, which closes a number read from freed memory
(`StepNarrow`). `Wide` is the step relation of `Descriptor` with that one added; types,
`NoLeak` and what the kernel promises hold of it, so that `DirectoryTyping` and
`NothingLostWithStreams` need no condition on `close()`. Under condition (1) `CloseFreed`
cannot happen: `StreamIntact` says that a handle which will call `::closedir` has an open
stream. It is not inductive alone. `DOwned` adds `Owned` of `Descriptor` (who holds which
number, and what it denotes) and `Streamed`, and then the only operation that frees a
stream is a successful close by its own handle. Hence `DirectoryImplementsDescriptor`,
and the theorems of `Descriptor`, the refinement of `Ownership` among them, hold as they
stand.

*Epoll.* `EpollImplementsDirectory` brings in everything about handles and streams:
creating an epoll is one more factory, `ctl` and `wait` are no steps of the table. What
is left is about registrations. `DataNamesSource` needs `Unique` (`Named`): a
registration outlives a step only if its description is still open, which by
`Unique` it can only be at the number the event carries. It needs no
condition on `::close`: registrations are the kernel's, not the handles'. `RightTarget`
follows from `Faithful`.

*MessageQueue.* `Shaped` adds to `TypeOK` what a call in progress is about (`InCall`).
`NothingLost` needs to know who has which message: `Senders` says that a message
belongs to one call of `send`, whose caller has been told nothing while it lasts, so
that a call that waits or has failed has a message that is nowhere (`Whereabouts`).
Each action then moves one message between the senders' and the receivers' side of
the equation, or moves none. `given = asked`, the kernel's priority against the
caller's, gives `PriorityTold` and `TakenInOrder`. The consumer and the programs beside
it take steps of the queue only (`ConsumerUsesQueue`), so that all of this holds of
`MessageConsumer` and is not checked there again.

*Settings.* The log sees only steps of the log. `MaskRestored` needs that no mask is
ever empty (`Masks`): to `::setlogmask` an empty mask is a question, and a scope that
had left one behind would restore nothing. Or-ing priority and facility into a word is
`WordParts`. For the options, `OverloadNumber` says that each overload names the option
of its type, `SetMeans` what a successful call at level `socket`
does, one case per kind of value, and `OwnNumber` that no two options share a number;
`Optioned` adds that the kernel's `l_onoff` is 0 or 1. If a program puts another number
into a `::linger`, the kernel lingers and `socket_linger::enabled()` denies it.

*Calls.* The invariant `Nested` says of every frame what it will find in `errno`
when it runs again (`Resumes`: `errno` for the innermost frame, else what the
context above has put by): 0 if it relies on a cleared `errno`, the code of its own
failure if its libc call has failed. Handlers only push contexts, so nothing they
do reaches a frame below.

*Span.* `Good` is a property of one view; each operation makes good views from
good views, and storing one keeps `AllGood`. The arithmetic is in `Narrowing`
(a narrowed length is no longer than it was) and `SpanOfGood`.

*Flags.* `Combined`: the bits are those of the names written, in any order and number.
An assertion then says what it means because it asks for a bit that a single flag of
the type has (`HasBit`); that is what fails for `mmap_no_access`, which has none.
`LiteralMeans` is about characters, not positions, so the length does not matter.

Only model-checked: liveness (`TimedReturns`, `EveryMessageArrives`), which rests on
fairness and is out of the prover's reach; and `Mapping`, whose only property is
violated.

## Not modelled, and parts that do not build

Contents of files, messages and memory; lists of constants (`sysconf` and `confstr`
names, `fcntl` commands, signal numbers, the file types of `stat.hpp`, the option bits
of `syslog`); type aliases and feature macros; the build files. These have no
behaviour a model could add to. `enum_flag.hpp` is included by nothing, `sigset` can
only be constructed empty, `timespec` and the durations have no operations, and
`shm::unsafe_open` is a stub.

Some functions cannot be instantiated, linked or reached as they stand, and the models
leave them out or say so:

* `file::open`, `mmap::map` and the typed `getsockopt` pass `result_map` a lambda that
  is not `noexcept`, which its `static_assert` refuses, so that a `file` gets its number
  from `capi::open` and an `mmap` its range from `capi::mmap_map`; `result::operator->`
  returns the wrong type; the move assignment of `descriptor` has no `return`.
* `close_mmap` and `mmap_protect` are declared and defined with different signatures
  (a program that destroys an `mmap` does not link), and so is `capi::fcntl`, so that no
  program can give an `fcntl` command.
  (`set_file_rw_hint` is defined as `F_GET_FILE_RW_HINT`, fcntl.hpp:54.)
* The tags `mq_notify_none` and `mq_deregister_notification` have unnamed types, so that
  the `notify` overloads for them cannot be linked: a registration ends only when it is
  used up or the queue is closed. `mq_notify_signal` stores a handler, but asks for
  `SIGEV_SIGNAL`, for which it is never called. `mq::open` with `mq_create_queue` passes
  neither `O_CREAT` nor a mode: the queue of `MessageQueue` is made by another program.
* `syslog(priority, format, ...)` calls the overload with a facility before that is
  declared.

The checks of `Flags` are about the assertions themselves, which are evaluated before
any of this matters. `close()` of an empty handle calls `::close(-1)` each time, whose
`EBADF` the destructor drops under a comment that calls it fatal: harmless, and part of
`Descriptor`.

## Plan

Done: every component with behaviour is modelled, and every invariant and action
property that a passing run checks is proved. What is left is `MappingsIntact` of
`Mapping` for programs that do not call `unmap()` (`Unmapper = {}`), along the lines of
`Separated`: no two parties have a page in common, and every page of theirs is mapped.
