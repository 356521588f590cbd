# libkfd in TLA+

libkfd drives AMD GPUs from user space through the Linux KFD driver, without the
ROCm runtime: it opens the driver, creates hardware queues, writes packets into
their rings and waits for signals.  This directory holds TLA+ modules that model
the parts of it where threads, the driver's events, GPU engines and failures
meet, TLC configurations that check them on small instances, and proofs for
TLAPS.  Paths below are relative to the repository; `queue.cpp` and so on are in
`lib/`, headers in `include/libkfd/`.

    tlc -workers 4 -config MCRingQueue.cfg MCRingQueue      # any run below
    tlapm PoolAllocatorProofs.tla                           # any proof module

`PROJECT.json` lists the runs, the source lines behind every definition, the
hazards, and for each property a mutated definition that makes TLC reject it.

## 1. The system

### Components, their state and their operations

| component | state | operations | correct when |
|---|---|---|---|
| `Mutex` (`detail/mutex.h`, `detail/mutex.cpp`) | one lock word: UNLOCKED, LOCKED, CONTENDED | `lock`, `unlock` and their slow paths, futex calls | one holder; no sleeper forgotten; someone gets a free lock |
| ring of a queue (`QueueBase::submit`, `submit_impl`, `wait_for_room`) | `pending_wptr`, ring, `write_ptr`, doorbell, `read_ptr`, `submit_mtx` | `submit` from many threads; the engine consumes | packets run whole, once, in order; nothing overwritten; failures leave nothing |
| `PoolAllocator` (scratch aperture) | sorted free list, mutex | `create`, `allocate`, `deallocate` | blocks disjoint, nothing leaks, free space not fragmented by bookkeeping |
| `Event`, `Signal` (`event.cpp`, `signal.cpp`) | driver event (auto-reset), fence value | `wait`, `wait_all`, `wait_any`, `reset`, `signal` | success is truthful, no lost wake-up, satisfied waits end |
| `ComputeQueue`/`SDMAQueue::signal`, `wait` (`queue.h`) | `next_eop_seq`, the end-of-pipe word, fences | packets that signal and wait, from many threads | a signal covers all earlier work; waits order work between queues |
| on-demand scratch (`ComputeQueue::dispatch`, `scratch_handler`) | `ScratchCtx` (requests, region, `seq`), `scratch_ready`, `scratch_done`, indirect buffer | dispatch; handler on the watcher thread; command processor | a kernel runs in a region that exists and is large enough; stalls end |
| scratch sizing (`detail/scratch.cpp`, the handler's loop) | slots, region size, tmpring register | size computations, retry with fewer slots | the register promises no more than the region holds |
| fault watcher (`context.cpp`) | watch list and mutex, copied event list, `exit_flag`, wake event | thread loop, `add_watch`, `remove_watch`, destructor | handlers of live owners only; no event overlooked; shutdown ends |
| queue lifecycle (`QueueBase::create`, destructor, moves) | buffers, doorbell, hardware queue, watches | create with retry of CREATE_QUEUE, destroy, move, assign | hardware never uses freed memory; no leak on errors |
| `Context` (`context.cpp`) | process-wide event and fence pages, runtime, devices | `create`, destructor | what the kernel allows once is done once; errors undo |
| `Device` (`device.cpp`) | render descriptors, scratch pool, trap handler, doorbell page | `create`, `doorbell` | bound once; the trap handler is the context's own |
| `Buffer`, `MappedRegion` (`memory.cpp`) | allocation, device mappings, host mapping | allocate, pin, map, unmap, export, release | unmapped from each device before it is freed |
| loader and ELF (`loader.cpp`, `detail/elf.cpp`) | code object, segments, symbols, kernels | check compatibility, relocate, upload, look up | VRAM holds the image; memory lives as long as copies; kernels run it and no stale cache |
| topology (`topology.cpp`) | node properties from sysfs | scan with generation check, parse | a snapshot is one generation |
| computetoy (`tools/computetoy/`) | window backend (X11 or DRM), three buffers, the kernel's file | render loop, present, reload, console take-over | no tearing; frames in order; the console comes back; waits end |
| packet builders (`packets/pm4.h`, `packets/sdma.h`, `abi.h`) | none | encode packets | fields in place |
| containers and utilities (`Box`, `SmallVector`, `utility.h`, `error.h`) | owned object, inline or heap array | grow, move | failures reported |
| other tools (`tools/kfdinfo`, `loader`, `sandbox`) | none | command lines that use the library | – |

### How they interact

    application threads ── submit()/dispatch()/signal() ──► ring ──► engine
          │    ▲  Mutex: submit_mtx                          │ RELEASE_MEM, ATOMIC_MEM,
          │    └── wait()/wait_all() ◄── Event (KFD) ◄───────┘ trap, interrupts
          │                                │
          └── queue create/destroy ──► watch list ──► watcher thread
                 add_watch/remove_watch    (mutex)       │ scratch_handler()
                                                         ▼
                              PoolAllocator, scratch sizing, scratch_done ──► engine

The application's threads share queues (`submit_mtx`) and devices (the pool's
mutex).  Engines read rings and write fences, sequence words and read pointers
without any lock.  The watcher thread calls handlers of queues for *every* event
that wakes it, under `watch_mtx`, and talks to dispatches through three words in
queue memory.

    Context::create() ──► Topology scan ──► Device::create() per GPU
          │  pages and runtime: once per process   │ VM, scratch pool, trap handler
          ▼                                        ▼
    watcher thread               Buffers ◄── QueueBase::create() ──► hardware queue
                                    ▲              ▲
                                    └─ Executable::load(): staging ─SDMA─► VRAM ─► compute

    computetoy main() ── dispatch, wait ──► GPU writes a buffer
          └── present(), wait_idle() ◄── flip or idle events ── card or X server reads it

Threads that create contexts share four process-wide words and two mutexes, and
what the kernel keeps for the process.  A queue's memory is freed by the host
while the device may still execute; only the order of the code protects it.  The
render loop and the display share the buffers without a lock and learn about each
other's progress from events.

### What is hard

* **Interleavings** of several submitting threads, the watcher, and engines that
  run ahead or lag behind, with words shared one at a time.
* **Ordering** of two publications (memory, doorbell), of fence and event, of
  sequence numbers taken outside the lock.
* **Events** that are auto-reset and shared: wake-ups are consumed, coalesced,
  arrive late, or belong to an object that is gone.
* **Failures half way**: time-outs between padding and packet or after a scratch
  request was pushed, lists that cannot grow, allocation that fails, waits that
  fail in the driver; each step of a creation, a load or a window's set-up.
* **Life times**: hardware that uses memory the host frees, descriptors and pages
  that outlive the context that made them, a console that outlives the process.
* **Snapshots** read piece by piece while the kernel or the user changes them.
* **Boundaries**: full ring against empty ring, ring wrap, unit conversion,
  division of waves by engines, bit fields.

Every such place is listed in `PROJECT.json` under "hazards", with the
properties that cover it.

## 2. The modules

`MC*` modules give constants for TLC, `*Proofs` hold theorems.  A comment
"Mutant of X" introduces a plausible bug of definition X; nothing else uses it.

| module | models | composed with |
|---|---|---|
| `AbstractLock` | what a lock promises: at most one holder, and somebody who asks for a free lock gets it | implemented by `Mutex` |
| `Mutex` | the futex lock, one action per atomic access or system call | |
| `CommandStream` | what a queue promises to callers of `submit()` | implemented by `RingQueue` |
| `RingQueue` | `submit()` down to the doorbell, and an engine that drains the ring | |
| `PoolSpec` | first fit over a *set* of free bytes | implemented by `PoolAllocator` |
| `PoolAllocator` | the free list | |
| `KfdEvents` | the driver's events (external) | instantiated by `SignalWait` and `FaultWatcher` |
| `SignalWait` | waiters, resets and host signals against devices that decrement and interrupt | |
| `QueueSignals` | `signal()` and `wait()` of compute and SDMA queues with their engines | |
| `Scratch` | dispatch, handler and command processor of a compute queue | |
| `ScratchSizing` | arithmetic of one scratch request and the handler's retry loop | |
| `FaultWatcher` | the watcher thread, queues that come and go, the destructor | |
| `Topology` | the scan of the nodes with its generation check, and the parser as operators | extended by `Context` |
| `Context` | `Context::create()` and destruction with `Device::create()`, from several threads | |
| `QueueLife` | creation, failure, destruction, move and assignment of queues against commands in flight | extended by `Loader` |
| `Buffers` | `kfd::Buffer` and the kernel's mappings, with partial success | part of `Lifetimes` |
| `Elf` | the ELF reader as operators | extended by `Loader` |
| `Loader` | `Executable::load()` on an SDMA and a compute queue | part of `Lifetimes` |
| `Lifetimes` | queues, loader and buffers of one program | composes `QueueLife`, `Loader`, `Buffers` |
| `DisplaySpec` | what a window promises to a renderer | implemented by `ComputeToy` |
| `Window` | the buffers both backends share | |
| `DrmOutput` | the choice of connector, CRTC, plane and mode as operators | extended by `DrmWindow` |
| `DrmWindow` | the DRM/KMS backend, its slots and the console | part of `ComputeToy` |
| `XcbWindow` | the X11 backend | part of `ComputeToy` |
| `ComputeToy` | the render loop with hot reload | composes `DrmWindow`, `XcbWindow` |

The theorems are in `RingQueueProofs`, `QueueSignalsProofs`, `SignalWaitProofs`,
`PoolAllocatorProofs` (with `Mutex`, the lock the allocator is used under),
`ScratchProofs` (with `ScratchSizing`), `ContextProofs` (with `Topology`),
`LifetimesProofs` (with `QueueLife`, `Buffers` and `Loader`, and `FaultWatcher`, which
calls the queues' handlers) and `ComputeToyProofs` (with both windows).  Each
extends the modules it is about; where these are two components, the second has
names of its own: `LockSpec`, `SizingSpec`, `WatcherSpec`, and so on.

A module with several safety invariants that hold in every reachable state names
their conjunction with `TypeOK` `Inv` (`LockSafe`, `SizingInv` and
`WatcherInv` in `Mutex`, `ScratchSizing` and `FaultWatcher`), and the run checks that:

| module | `Inv` is `TypeOK` and |
|---|---|
| `Mutex` | `MutualExclusion` |
| `RingQueue` | `NoOverrun`, `NothingUnpublished` |
| `PoolAllocator` | `Canonical`, `Partition` |
| `SignalWait` | `SleeperIsWoken` |
| `QueueSignals` | `SignalCoversWork`, `EventAfterFence` |
| `Scratch` | `RunsInScratch`, `RequestsCounted` |
| `ScratchSizing` | `WavesFit` |
| `FaultWatcher` | `HandlersAlive`, `NoWatchOverlooked` |
| `Context` | `PagesServeContexts`, `OwnTrapHandler` |
| `Lifetimes` | `WatchedAlive`, `AsStaged`, `DestroyIsAccepted` |
| `ComputeToy` | `OutputUsable`, `ScreenGivenBack`, `StarvedOnlyByRefusals`, `EditsNoticed` |

`Lifetimes` has two more conjunctions: `MemoryAlive` is `QueueMemoryAlive` and
`CopiesHaveMemory`; `NothingLeft` is `QueueLeavesNothing` and `EachHeldOnce`.  What
a loaded image must be has two halves: `AsStaged` (VRAM holds the staged words and
no cache older ones) is about the steps of `load()`; `ImageRight` (what was staged
is what the file defines, and symbols and kernels are found) is about images as data.

### State and actions against the code

**Mutex.**  `state` is the lock word; `pc`, `expected`, `spins` are the locals of
a thread inside `lock_contended()`.  `Lock` is the compare-and-swap of `lock()`,
`SpinCas`/`SpinLoad`/`SpinStop` the polling loop, `Exchange`, `FutexWait` and
`FutexInterrupted` the sleeping loop, `Unlock` and `FutexWake` the release.

**RingQueue.**  One thread is in `submit_impl()` at a time (`owner` is
`submit_mtx`); `pos` is its local position.  `EnterSubmitImpl` decides whether
padding is needed, `WritePadding`, `RingPadDoorbell`, `WritePacket`,
`Publish`/`RingDoorbell` follow the statements in order, and `TimeOut` is the
ETIMEDOUT return of `wait_for_room()` in either of its two uses.  Index
arithmetic is modulo `Word` as in 32-bit C++; `ToHw` and `ReadDwords` convert
between dwords and the engine's units for each queue type.  The engine consumes
whole packets up to the doorbell (`ConsumeRung`) or up to the pointer in memory
(`ConsumePolled`, a queue that the scheduler maps again), reports its position
later (`ReportReadPtr`), and may stop for good (`Hang`).

**PoolAllocator.**  Each operation holds the mutex throughout and is one action:
`Allocate`/`AllocateFails`, `Deallocate`/`DeallocateKeeps` (no room to insert).

**SignalWait.**  `CallWait` is the entry of `wait()`, `wait_all()`, `wait_any()`;
`ReadFence` reads one fence of `check_all()`/`check_any()`, so devices act between
two reads; `PollAgain`/`StopPolling` are the spin phase, `Sleep`, `Wake`,
`SleepExpires`, `WaitFails` the interrupt phase.  `Decrement` and `FireEvent` are
the two halves of a signal packet; `BeginReset`/`EndReset` those of `reset()`,
which the application calls when nobody waits (the documented use).

**QueueSignals.**  `CallSignal` takes the sequence number, `SubmitSignal` or
`SignalFails` ends the call, so that numbers reach the ring out of order or
never.  The packets are those of `SignalPackets`; an engine executes them in
order, while `RELEASE_MEM` takes effect when earlier kernels have finished.

**Scratch.**  `dispatch()` holds `submit_mtx` from start to end and is one walk
`Dispatch … Submit`, with a step per shared word; the handler is one walk
`HandlerBegin … StoreDone`; the command processor executes the packets of each
dispatch (`CpRelease`, `CpWait`, `CpIndirect`, `CpLaunch`).  Regions are numbered
and a tmpring value is the bytes per thread it stands for; `ScratchSizing` models
the numbers.  Three histories tell cases apart: `lost`, a submission failed after its
request was pushed; `behind` of a running kernel, it waited for the request of
another dispatch; `laid` of the registers, whose layout of user SGPRs they have.

**ScratchSizing.**  `AllocSize`, `DeviceSlots`, `Waves` are the functions of
`scratch.cpp`; `Allocated`, `Refused`, `GiveUp` are the outcomes of one turn of
the handler's loop.  `slots` has 32 bits: `FewerSlots` wraps when a work-group has
more waves than slots are left.  `AlignUp` adds and masks as the code does (it is not
rounding when the alignment is no power of two, as three engines are); `And` is
the bitwise AND, defined by the powers of two so that the provers can read it.

**FaultWatcher.**  `place`, `eds`, `index`, `seen` are the thread's locals.
`CopyWatches` builds the event list under the mutex, `StartWait`/`StartFails`
enter WAIT_EVENTS, `Woken`/`SleepFails` leave it, `CallHandler` runs one handler
under the mutex.  A queue is an owner that passes through `CreateEvent`,
`AddWatch`, `SignalAdded`, and `RemoveWatch`, `SignalRemoved`, `DestroyEvent`;
`SetExitFlag`, `SignalExit`, `Join` are `~FaultWatcher()`.

**Topology.**  `past` is the list of every generation the kernel has had; a scan
is `BeginScan`, `ReadGeneration`, `CountNodes`, then `ReadGpuId` and `ReadFiles`
per node (a node that is no GPU ends at its id), `ReadAll`, and `AcceptScan` or
`RetryScan`; a file that has gone is `ScanFails`.  `Parse`, `Caches`, `CwsrSizes`
and `DeviceOf` are what the code computes from the files it reads.

**Context.**  `pc` follows `create()`: `Open`; the scan (`Scan`, `ScanError`,
`Scanned`); per device `UseCached` or `AcquireVm`, then `MakeDevice`; the pages
(`PagesReady` or `PagesMissing`, `LockPages`, `OthersMadePages` or
`AllocEventPage`, `RegisterEventPage`, `AllocFencePage`, `StoreFencePage`,
`StoreEventPage`), the runtime in the same way, `CreateEvents`, `StartWatcher`.
`CreateFails` may end most steps; it and `Destroy` are the destructor, `Release`.
`held` is what each creation owns.  What the kernel keeps (`bound`, `registered`,
`runtimeOn`, `trap`) survives it, as do the globals.  `FreeRefused` is the
KFD_ASSERT of a FREE ioctl that the kernel refuses.

**QueueLife.**  An object acquires what `Making` lists, one thing per step, in the
order of `create()` (`Acquire`, `CreateHardware` with `RetryHardware`,
`FindDoorbell`, `Complete`).  `Fails` ends it anywhere: what is given up is
`Locals`, `UndoDoorbell`, or `DestroyOrder`, depending on how far it came.
`Destroy`, `MoveInto` and `Assign` follow the destructor, the move constructor and
the two assignment operators, whose order is `AssignOrder`; `GiveUp` is one step
of any of them.  `Submit`, `Execute` and `ServeScratch` are commands in flight,
the last with the handler of `Scratch`.

**Buffers.**  `handle` and `mapped_ids` are the members of the object, `memory` and
`mapped` the kernel's truth; `MapFails` and `UnmapFails` leave the two apart.

**Elf** and **Loader.**  An image is a record of program headers, sections,
symbols and one hash table; a word of the file is a model value, so that
relocation and placement can be compared with `Reference`, a definition of the
loaded image that does not go through the staging buffer.  `at` follows `load()`:
`Get` (image, staging buffer, pin), `Fill` or `Refuse`, `CreateSignal`, `CopyChunk`
per chunk, `AllCopied`, the SDMA signal, `ComputeSteps` (wait, ACQUIRE_MEM,
signal), `HostWaits`.  Engines execute the commands; `Prefetch` lets a compute
unit cache any chunk at any time during a load.

**Lifetimes** puts them into one program.  Its header lists the bounds on what
may overlap.

**DrmWindow.**  `displaying`, `pending` and `ready` are the slots of the class;
`scanout`, `flip` and `flipEvent` are the card's side.  `DPresent` is `SetMode`,
`PageFlip` or `Park`; `DHandleEvent` is `on_page_flip()` with its chained commit.
`dstage` walks through `create()` and the destructor, and `console` and `guarded`
are the tty and the word a dying process restores it by.  `saved` is what
`create()` learned of the CRTC: on, off, or nothing.  `RestoreCrtc` does not look
at the card's answer: the card may refuse, and always does when the CRTC was off;
`kept` remembers that.  `RemoveFbs` takes the framebuffers all the same, and the
screen goes dark if it showed one.  **XcbWindow** has
`busy` on the program's side and `queue`, `front`, `idle` on the server's.

**ComputeToy.**  `pc` is where `main()` is: `ReadFile`, the window with `FallBack`
from X11 to DRM, `ImportBuffer`, `LookAtMtime`, then the loop `Poll`, `WaitIdle`,
`NoticeEdit`/`Reload`, `Dispatch`, `GpuDone`, `Drain` and presentation (DRM drains
its events before it presents, X11 after).  `Dies` is `exit()`, after any
`KFD_EXPECT` that fails, or one of the five signals that have a handler: it runs
the console guard and nothing else.  `Killed` is any other signal (SIGQUIT,
SIGBUS, SIGFPE, SIGILL, SIGKILL): nothing of the program runs.

## 3. The runs

| run | distinct states | what it shows |
|---|---|---|
| `MCMutex` | 30 258 | three threads: exclusion, no lost wake-up, refinement of `AbstractLock` with its progress |
| `MCRingQueue` | 206 100 | compute and SDMA ring: no overrun, nothing left unpublished (also after a time-out between padding and packet), refinement of `CommandStream`, every call returns, accepted packets run |
| `MCPoolAllocator` | 3 994 | canonical free list, partition of the region, refinement of `PoolSpec` |
| `MCSignalWait` | 154 187 | one waiter for one signal, either of two, both or none, signals reused by `reset()`: success is truthful, sleepers are woken, waits one event can end do end |
| `MCSignalWait_both` | violation | `wait_all()` on two signals (below) |
| `MCQueueSignals` | 385 656 | signals cover the work before them although sequence numbers are overtaken or skipped; events follow fences; waits order work; accepted signals arrive |
| `MCScratch` | 413 154 | three dispatches of kernels with two layouts, failing submissions and allocations: regions are not replaced under kernels, requests keep their numbers, a kernel finds the answer to its own request in its SGPRs, kernels launch unless a request was lost |
| `MCScratchSizing` | 46 250 | waves fit the region, the region is used, the count fits its field, the loop ends, all of it when the number of slots wraps too |
| `MCFaultWatcher` | 296 303 | two queues created and destroyed while events fire and the context closes |
| `MCContext` | 422 744 | two threads create and destroy contexts, any step may fail, the topology changes: a snapshot is one generation, what the kernel allows once is done once, failures leave nothing, every creation ends |
| `MCLifetimes` | 183 425 | queues, loads and buffers with failures everywhere: memory outlives the hardware that uses it, VRAM holds what was staged and that is what the file says, kernels and symbols are found, nothing is left behind, every call ends |
| `MCComputeToy` | 214 510 | both window backends: the GPU never writes what the display reads, frames appear in order (`DisplaySpec`), the console comes back when the guard can run, the screen unless the card refuses, edits are noticed, waits end |

### Bounds and why they are enough

* *Mutex*: two threads can sleep while a third barges in, which is every role the
  protocol distinguishes; two polls cover "spin again" and "stop spinning".  Not
  bounded in time: threads lock for ever.
* *RingQueue*: a ring of 4 dwords with every length from 0 to 4 and a word of 16
  (the index wraps) makes padding, an exact fit, a full ring and a wrap happen in
  three calls; four dwords are also the smallest ring where a packet and padding
  coexist.  Two threads are enough because the third would wait for the same mutex.
* *PoolAllocator*: nine bytes with granules of two give up to five blocks, so a
  block is freed between two free, one free and no free neighbours, and the
  odd last byte is the fragment a region leaves that is no multiple of the
  alignment.  The call sequence is unbounded.
* *SignalWait*: A needs two decrements, B one, so a wait can see a partial
  decrement; two waits and two resets let a late event of one use meet the
  next use.
* *QueueSignals*: one queue of each kind, two pieces of work, two signals, one
  wait: two concurrent `signal()` calls can be overtaken, and a wait on either
  queue for a signal of the other.  `SeqMod` exceeds the number of signals of a
  behaviour: 2^32 signals on one queue are not modelled.
* *Scratch*: three dispatches of needs 0, 1, 2 and 3 (more than the hardware
  limit), so a request can be pending behind another and a launch overtake both;
  the kernels with needs 1 and 2 have different layouts.
* *ScratchSizing*: all devices of 4 to 15 compute units and 1 to 4 engines, both
  register forms, four sizes and five work-group sizes; `MaxBytes` lies between
  the smallest and the largest request, so the retry loop turns several times.
  Work-groups of three waves and more exceed the slots that are left, so the number
  wraps at `Word` = 256, and the pool refuses the sizes of wrapped numbers until the
  loop has come down again.  Left out are work-groups for which the number comes
  back to where it wrapped: 14 and 15 on three engines, as on real devices (below),
  and a few, 4 and 7 among them, that do so only because the compute units of the run
  have two slots and not 32.
* *FaultWatcher*: two owners, three creations (one event is created again), two
  fired events: a list can be stale by an addition, a removal, or both.

* *Context*: two creations on two threads race for each global, and one after the
  other they reuse what the first left; one topology change and two attempts make
  a scan retry, succeed late, or give up.  The three layouts have a CPU node, two
  GPUs, properties that are unknown, no number, or missing, and equal caches.
* *Lifetimes*: two compute queues (a move or assignment needs two), one SDMA
  queue, and two hardware queues, so that the third creation meets ENOMEM; one
  retry both succeeds and gives up.  Two commands fit a queue, so a load waits for
  room.  Four images: two are accepted (one with two segments, zero fill and a
  relocation against one without, a hash table of two buckets against one chain),
  one is for another GPU, one has a segment beyond its end.  Two buffers, two
  handles and two GPUs give partial maps and reuse of a handle.
* *ComputeToy*: three buffers as in the code, five frames (each buffer is used
  again, and three slots are full), two refused commits, two edits.  The cards
  have the wanted mode, the preferred mode, the active CRTC or the primary plane
  in any but the first place; on one the CRTC was off, one has no monitor.

`CHECK_DEADLOCK FALSE` is set where a bound or an end stops the system: the
calls are used up, the engine hangs, the process died or aborted, the window or
the context is closed.

### Fairness

Only what the code's scheduling gives: weak fairness of each thread's next step
inside a call (threads are scheduled), of engines that drain a ring, of kernels
ending, and of an engine firing the event of a fence it has decremented.  New
calls, decrements, failures, time-outs of waits and faults are never forced.
`MCRingQueue` relies on the deadline of `wait_for_room()` as a step a waiting
thread may take, and its engine may hang at any time.  `MCMutex` asks for weak
fairness per thread, and refinement includes that of `AbstractLock`: *some* asker
of a free lock gets it; the futex lock promises no thread its turn.
`FaultWatcher` gives the watcher weak fairness; with finitely many calls of
`add_watch()` the mutex is free for good at last.  `Context` gives each creating
thread weak fairness; both mutexes are held over a few calls only.  `Lifetimes`
asks for strong fairness of the loader's and of each queue's next step:
`submit()` waits for room with `submit_mtx` held, so that the room is not taken
by others again and again, and calls on different queues exclude each other by
the bound alone; the device is weakly fair.  `ComputeToy` relies on `main()` being
scheduled, on the GPU ending a kernel, and on a display that goes on.

### Disagreements with the repository's own words

One run stops at a counterexample.  It checks what the code's own words say.

**`wait_all()` of several signals can sleep although all are satisfied**
(`MCSignalWait_both`; `signal.cpp:147`).  WAIT_EVENTS takes the events that are
already set; when it returns for a reason other than the last fence, the next
sleep waits again for an event that was taken and will not come back.

### Exceptions the properties make

In these places the code does not do what its comments say, and a property that
ignored them would be false.  The properties name each as an exception, so that
everything else is still checked; TLC finds the counterexample when the
exception is taken out.

* *A kernel without its region* (`queue.cpp:268`; exception `~error` in
  `RunsInScratch`).  After an allocation failure the handler releases the stalled
  dispatch, whose setup packets named the region that was freed; the error reaches
  later dispatches only.  "Stall the CP until [...] the new scratch region is
  allocated" (`queue.cpp:696`).
* *One indirect buffer for all layouts* (`queue.cpp:286`; exception `behind` in
  `UserSgprsMatch`).  It is filled for the kernel that made the request and executed
  by every dispatch that waits for it: a kernel with another layout loses an
  argument and keeps the old base ("overrides what was written in the standard
  packet", `queue.cpp:105`).
* *A lost request* (`queue.cpp:770`; exception `lost` in `KernelsLaunchUnlessLost`).  When
  the submission of a dispatch that pushed a request fails (ETIMEDOUT), the request
  stays in the list, nobody reports it, and the next kernel that needs scratch stalls
  for ever ("once for every scratch request made", `queue.cpp:165`).
* *A retry loop that may not end* (`queue.cpp:230`; `Settles` with `Groups = {14}`).
  The waves of a work-group are subtracted from an unsigned number of slots; when
  fewer are left it wraps, and the loop asks for more than was refused.  In most
  cases it comes down to a small number after up to 2^32 attempts.  On devices with
  three engines it may come back to the number that wrapped: so with 54 compute
  units of 32 slots and work-groups of 14 or 15 waves, while no memory comes free.
  Then the watcher thread stays in the handler ("we resize the slots and try again",
  `queue.cpp:221`).
* *A dropped event* (`context.cpp:150`; exception `dropped` in `EventsHandled`).  When an
  owner destroys its event while the watcher sleeps on a list that names it, the
  driver ends the sleep with a failure, and what it had received is lost, an event or
  the wake-up that stood for it; the handler runs only with the next event
  ("invoked when a watched event fires", `context.h:23`).
* *A signal without a handler* (`drm_window.cpp:287`; exception `pc = "killed"` in
  `ConsoleRestored`).  The guard has five signals.  SIGQUIT (the terminal still
  sends it, for ISIG stays set at `drm_window.cpp:617`), SIGBUS, SIGFPE and SIGILL
  could have a handler and do not; SIGKILL cannot.  "We must restore KD_TEXT even
  under SIGTERM/SIGSEGV/etc." (`drm_window.cpp:259`).
* *Framebuffers removed under the screen* (`drm_window.cpp:347`; exception `kept` in
  `ScreenGivenBack`).  The result of `drmModeSetCrtc()` is not looked at, and a CRTC
  that was off is given back with a mode and framebuffer 0, which the kernel
  refuses ("so the CRTC stops scanning our buffers before we remove them",
  `drm_window.cpp:343`).  Where nothing was saved (`saved = "none"`,
  `drm_window.cpp:346`) the destructor does not ask at all.

### Known weaknesses that no run checks

* Event ids are reused by the driver: a stale list of the fault watcher may take the
  event of another owner.
* Two threads that wait for the same signal share its auto-reset event; the model
  allows it (`Waiters`), the runs have one waiter, as the header's use has.
* `PoolAllocator` rounds sizes near SIZE_MAX to 0; no caller asks for them.
* The waves are not masked to the twelve bits of their field: `WavesFitField` relies on
  the devices, whose slots a field of that width can count.
* *SDMA_XGMI*: pointers are converted to bytes and padding is an SDMA NOP for type
  SDMA only (`queue.cpp:610`), while the comments at `queue.cpp:773` and
  `queue.h:66` speak of SDMA queues that copy over XGMI and of byte units:
  a queue of that type is driven in the wrong units.
* *Partitioned devices*: the loop counts the engines of one XCC (`queue.cpp:259`),
  the register (comment at `scratch.h:57`) those of the whole device.
* *Queue*: no memory for the mutex after CREATE_QUEUE leaves the hardware queue
  behind (`queue.cpp:444`; `lost`).  The defaulted assignment of `ComputeQueue`
  frees `eop_seq` before the old hardware queue is destroyed (`queue.h:282`);
  `QueueMemoryAlive` excludes that phase.
* *Buffers*: no memory for the mutex after the allocation leaks the handle
  (`memory.cpp:130`, `memory.cpp:153`, `device.cpp:388`; `forgotten`).  A MAP that
  fails halfway leaves a mapping the object does not know, and its destruction
  aborts (`partial`).
* *Loader*: a load that gives up after its first copy frees the staging buffer, the
  image and the signal while the copies may be in flight; a late decrement may hit
  the slot's next signal.  `CopiesHaveMemory` speaks of loads under way only.
* *Context*: a page that is registered, or mapped on some GPUs only, cannot be
  freed, and an error there aborts the process (`aborted`).  Of contexts that
  coexist the last registers its trap handler and scratch addresses, and takes
  them away when it goes (`overlapped`).  With more than 128 GPUs the cache of
  descriptors is full after ACQUIRE_VM.  A context created while there is no
  GPU makes no pages, and its throwaway event may have the kernel refuse the page
  of a later one.  `Event::create()` leaks its event when there is no slot.
* *Topology*: a file that vanishes during a scan is returned as an error, although
  the generation has changed and a retry would succeed.
* *computetoy*: one refused commit of the parked buffer (`drm_window.cpp:538`)
  leaves a buffer displayed with no flip pending, and the wait for it hangs
  (`Starved`).  With three slots full the GPU does wait for a vblank, against the
  comment at `drm_window.cpp:14`.  A process that dies between KDSETMODE and the
  guard (`drm_window.cpp:622`), or between the guard's end and KD_TEXT
  (`drm_window.cpp:364`), leaves the console in graphics mode.  The results of
  KDSETMODE are not looked at when the console is given back; the model has them
  succeed.  A process that dies does not restore the CRTC: the kernel removes
  the framebuffers of its descriptor, and what the screen shows then is up to it.
  On a broken X
  connection `wait_idle()` spins.  Edits between the first read of the file
  (`main.cpp:95`) and the first look at its time (`main.cpp:149`) are missed.

## 4. The proofs

Each theorem holds for every value of the constants that satisfies the
assumptions of its module (evaluated by TLC in the runs) and, where the table
says so, one further condition that is spelled out below.

| theorem | property | condition |
|---|---|---|
| `PoolAllocatorProofs!MutexExcludes`, `MutexKeepsWakeups` | `LockSafe`, `NoLostWakeup` | |
| `PoolAllocatorProofs!MutexImplementsLock` | refinement of `AbstractLock`, without its progress | |
| `RingQueueProofs!RingNeverOverrun` | `Inv` | `Converted` |
| `RingQueueProofs!RingImplementsStream` | `ImplementsStream` | `Converted` |
| `QueueSignalsProofs!SignalsKeepPromise`, `WaitsKeepOrder` | `Inv`, `WaitOrdersWork` | `NoWrap` |
| `SignalWaitProofs!WakeupNotLost` | `Inv` | `OneWaiter` |
| `SignalWaitProofs!SuccessMeansMet` | `OkMeansMet` (action property) | `OneWaiter`, `StableRequests` |
| `ScratchProofs!ScratchServesRunning` | `Inv` | |
| `ScratchProofs!SgprsOfOwnRequest` | `UserSgprsMatch` | |
| `ScratchProofs!SizesCorrect`, `AllSlotsServed` | `SizingInv`, `SlotsServed` | `OnePartition` |
| `PoolAllocatorProofs!PoolPartitioned`, `PoolImplemented` | `Inv`, `ImplementsPool` | `SizesRound` |
| `ContextProofs!SnapshotOfOneGeneration` | `SnapshotConsistent` | |
| `ContextProofs!ContextsServed`, `OnceInProcess`, `NothingHeld` | `Inv`, `OncePerProcess`, `NothingLeft` | |
| `LifetimesProofs!HardwareMemoryAlive`, `ObjectsLeaveNothing` | `MemoryAlive`, `NothingLeft` | |
| `LifetimesProofs!LifetimesSafe` | `Inv` | |
| `LifetimesProofs!WatcherCorrect` | `WatcherInv` | |
| `ComputeToyProofs!ToyCorrect`, `ConsoleComesBack` | `Inv`, `ConsoleRestored` | |
| `ComputeToyProofs!ToyDisplays` | `ImplementsDisplay` (refinement of `DisplaySpec`) | |

Every inductive invariant below but `PoolInv` (it quantifies over all bytes) was
checked by TLC in every reachable state of its module's run before it was proved.

### The conditions

* `Converted`: the queue is of type COMPUTE or SDMA.  The host does not convert
  pointers for SDMA_XGMI (known weakness above), and the theorem is about the
  queues it converts for; the run has the same two types.
* `NoWrap`: fewer calls of `signal()` than sequence numbers (a signal of the model
  is used once).  `next_eop_seq` has 32 bits and the CP compares it as a plain
  number, so that a call after 2^32 others can be overtaken; the theorem says nothing
  of a process that gets there.
* `OneWaiter`: the events are auto-reset, and two threads that wait for one signal
  take its event from each other (known weakness above).
* `StableRequests`: a wait for *all* of several signals asks for a condition that
  decrements cannot unmake (`LT`, `LTE`, `EQ 0`).  The scan looks at one fence after
  the other; for `GT` what it saw first may be gone when it sees the last, and the
  code does not look again.  Calls with several signals in the repository ask for
  `EQ 0`; those that ask for `NE 0` (`tools/loader/main.cpp:173`) have one signal.
* `SizesRound`: no request within one alignment of 2^64, which rounds to 0.
* `OnePartition`: the device is one partition (`xccs` is 0 or 1).  The loop of the
  handler and the register count the engines of different things otherwise
  (known weakness above).

### The arguments

**Mutex** (`LockInv`).  Exclusion alone is not inductive: a thread enters exactly
when it sees UNLOCKED, so `WordMatchesHolder` adds that the word is UNLOCKED only if
nobody holds the lock.

**Ring** (`RingInv`, `StreamInv`).  The host computes the room from a read pointer
that is old, wrapped at 32 bits and in the engine's units.  `PointersOrdered` says that
the reported pointer, the engine's and the host's stand in this order within one
ring; lemmas on `%` then give that the room computed is the room between them
(`InFlightExact`), so that nothing unread is overwritten.  The refinement adds
that each unread position holds its part of a whole packet, in the order of the
accepted calls, padding between (`OrderInv`), and what each caller was told
(`CallerInv`).  A doorbell or a publication is a stutter; an engine that consumes
a packet's last dword executes it in `CommandStream`.

**Signals of queues** (`SignalsInv`).  Sequence numbers are taken and submitted in
different orders, and EOP writes of one queue can overtake.  `Reached(q, v, done)` says
that whatever a call of `signal()` with a number up to `v` covers is in `done`;
`InOrder` states it for numbers in calls, in the ring, at the end of the
pipe and in `eop_seq`, with smaller and smaller `done`, the last of which is the
finished work.  A fence goes down behind the await of its number, so the signal
covers its work.  `WaitsFirst` carries waits: every piece of work in a ring has
each signal it must wait for decremented, or its wait packet in front.

**Waits for signals** (`WaitInv`).  A fence read too early that satisfies the condition
now was decremented since, and the event of that decrement is on its way or stays
set, for nobody sleeps yet (`Scanned`, `NoneMissed`).  Going to sleep takes a set
event, and one on its way wakes the sleeper.

**Scratch** (`ScratchInv`).  A request's number travels through ring and pipe to the
handler, and the CP stops at the dispatch that carries it: the handler has
numbers to answer only while nothing runs (`QuietForHandler`).  A dispatch that
took the words of the region without waiting has a number that is answered
already (`Captured`), so that they are the region's words, and what a request
was promised is not taken back (`Promised`, `Enough`).  `ListInv` is the part for
the list and its counters.  `SgprInv` follows the user SGPRs: while the CP is at a
dispatch that made a request, the indirect buffer holds the answer to this
request or to none (`Answered`), because the handler cannot be at a later one
before this dispatch has been launched.

**Pool** (`PoolInv`).  A list stands for its bytes, and each step of the code on
lists is described by what it does to these bytes.  `Ordered(l, S)` lets
the blocks at the indices in `S` touch their right neighbour: an insertion
makes two such places, each call of `Coalesce` removes one.  For the refinement, a
block that fits is the lowest run of bytes that does, because a run of free bytes
lies in one block of a coalesced list.

**Contexts** (`CreateInv`).  While the generation is the one a scan began
with, the scan has read the first nodes of that generation (`ReadSoFar`): the check at the
end therefore suffices.  `Pages` says who may have registered the event page before
it is published, `Alone` that a context that never coexisted has its own trap
handlers, `Once` that the kernel's one-time state and the process's cache agree.

**Lifetimes** (`LifeInv` is `QueueInv`, `LoadInv` and `BufferInv`).  What a queue
still has to give up is a rest of the order it follows (`HasOf`, `TodoOf`), and what
hardware and watches use comes behind them in each order: lemmas go through
the places of the orders of creation, undoing, destruction and assignment.  For the
load, each queue has its commands once and in order (`Stream`), the fence counts
the signals still to come (`FenceCounts`), and what is no longer in a queue is
done (`Copied`, `Ordered`); so the wait of the host means that all chunks are in
VRAM and no cache has older ones.  Nothing is
assumed of images: whatever words were staged are the ones in VRAM (`AsStaged`).
`BufferInv` says each handle that was not lost is held by exactly one object.

**Scratch sizes** (`RequestInv`).  The loop allocates only with two slots per
engine left, or more after a wrap, so that the region holds a wave on each engine and the
register's lower bound of one per engine is inside it; above that its waves are a
quotient of the region by the aligned size of one.  Lemmas on `And` give that
`AlignUp` takes nothing away and adds less than the alignment, whether or not this
is a power of two.

**Fault watcher** (`WatchInv`).  `WatchLocked` ties the mutex to the places where
list, owners and thread are changed, so that the list a handler is called from holds
live queues (`WatchListed`).  `WakeupSet` says that a watch which the watcher's copy of
the list lacks has set the wake-up event: it stays set until the watcher sleeps,
and the sleep receives it.

**computetoy** (`ToyInv`).  `Stages` and `Guarded` follow the window and the console
by the place of `main()`: only one backend ever has a window.  What a backend
believes to be in use covers what the display reads: the slots against the card
(`SlotsAgree`), `busy` against the server's queue, its front and the reports not yet
read (`SentBusy`).  Hence the buffer of the turn, once waited for, is read by nobody
(`Free`), and it was rendered after all that are (`Stamps`).  `GivenBack`: from the
restored CRTC on, the screen shows one of our buffers only if the card refused or
nothing was saved.  `InTurn`: while no
commit was refused, the newest frame is in the last slot in use, and the buffer
waited for, the next in turn, is another one.  For the refinement, a dispatch is
`BeginFrame`, the end of the kernel (or of the process) `EndFrame`, a commit or a
send `Present`, and flips, the server's steps and the closing of the window are
`Refresh`.

### Model-checked only

* Everything under fairness (liveness, `ENABLED`): the prover does not do it.
  This includes the progress half of `AbstractLock`.
* `ImageRight`, what `load()` stages for an image, and what the parser of `Topology`
  returns for each text: induction over data.  `LifetimesSafe` says that VRAM
  holds what was staged; `SnapshotOfOneGeneration` says an accepted snapshot has the
  devices *as the parser reads them*.
* `WavesFitField`: a fact about the devices in use, which the code does not check.

Every other invariant, action property and refinement that a run checks is stated
by a theorem of the table.

## 5. Not modelled, and what is left

Not modelled for good: encodings of packets and registers (bit layouts; the
modules model what packets *do*), single-call ioctl wrappers, the splitting of
sysfs text into lines, the checks of the ELF header (one flag of an image),
logging, and the tools that call the library in sequence (`kfdinfo`, `loader`,
`sandbox`).  Containers appear where they can fail to allocate.

Left out of modelled components: memory banks and io links (parsed the way caches are);
section names, iteration over symbols and images with several hash tables;
allocation and filling of kernel arguments; `DMABuffer`, `release()` and
`MappedRegion`; moves of a `Context` or `Device` (they leave pointers of
queues behind); `event_slot()`; the choice of a trap handler's image.  They are
sequential and meet no other actor.

What is left to do, in this order: `DMABuffer` and `MappedRegion` beside `Buffers`;
moves of a `Device` under live queues; a queue of type SDMA_XGMI in `RingQueue`, once
the source converts its units.
