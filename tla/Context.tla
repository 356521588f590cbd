------------------------------ MODULE Context --------------------------------
(***************************************************************************)
(* Context::create() and destruction (lib/context.cpp), with what          *)
(* it makes for each device (lib/device.cpp: open_render_fd(),             *)
(* init_scratch(), setup_trap_handler()) and the scan of module Topology.  *)
(* Threads create and destroy contexts at the same time; an error at any   *)
(* step undoes what the creation made.                                     *)
(*                                                                         *)
(* What the kernel keeps for the whole process is external: the one event  *)
(* page, which is never freed, the one enabled runtime, the DRM file bound *)
(* to each GPU, and each GPU's trap handler, which the next one replaces.  *)
(* Creations are numbered; render_fd_mtx makes OpenRender one step.        *)
(***************************************************************************)
EXTENDS Topology

CONSTANTS Gpus,       \* the GPUs nodes may stand for
          Free,       \* nobody holds a mutex
          MaxCreates  \* bound: calls of Context::create()

None == 0

ASSUME ContextAssumption ==
  /\ Gpus \subseteq Nat \ {0} /\ MaxCreates \in Nat
  /\ \A n \in Node : n.gpu \in Gpus \cup {0}
  /\ Free \notin Scanners

VARIABLES
  pc,         \* where each thread is
  id,         \* the number of its creation, the last one made
  creates,    \* creations begun
  made,       \* the devices its creation has made
  held,       \* what each creation holds: descriptors, memory, events, a thread
  renderCache,         \* the GPUs with a cached DRM descriptor
  eventPage, fencePage, runtimeEnabled,  \* the process's globals
  pageMtx, runtimeMtx,
  bound,      \* kernel: the GPUs bound to a DRM file
  registered, \* kernel: the creation that registered the event page
  runtimeOn,  \* kernel
  trap,       \* kernel: the creation that registered each GPU's trap handler
  aborted,    \* a KFD_ASSERT failed
  overlapped  \* history: creations that were not alone

local == <<id, made>>
globals == <<renderCache, eventPage, fencePage, runtimeEnabled>>
locks == <<pageMtx, runtimeMtx>>
kernel == <<bound, registered, runtimeOn, trap>>
cvars == <<pc, id, creates, made, held, renderCache, eventPage, fencePage,
           runtimeEnabled, pageMtx, runtimeMtx, bound, registered, runtimeOn, trap,
           aborted, overlapped>>
vars == <<cvars, tvars>>

Threads == Scanners
Alive(t) == pc[t] # "idle"

TypeOK ==
  /\ TTypeOK
  /\ pc \in [Threads -> {"idle", "scan", "device", "make", "check", "lock", "recheck",
                         "register", "fence", "storeFence", "storeEvent", "runtime",
                         "rlock", "enable", "watcher", "clone", "live"}]
  /\ id \in [Threads -> 0..MaxCreates] /\ creates \in 0..MaxCreates
  /\ \A t \in Threads : made[t] \in 0..Len(found[t])
  /\ renderCache \subseteq Gpus /\ bound \subseteq Gpus
  /\ {eventPage, fencePage, runtimeEnabled, runtimeOn, aborted} \subseteq BOOLEAN
  /\ {pageMtx, runtimeMtx} \subseteq Threads \cup {Free}
  /\ registered \in 0..MaxCreates /\ trap \in [Gpus -> 0..MaxCreates]
  /\ overlapped \subseteq 1..MaxCreates

Init ==
  /\ TInit
  /\ pc = [t \in Threads |-> "idle"] /\ id = [t \in Threads |-> 0]
  /\ creates = 0 /\ made = [t \in Threads |-> 0]
  /\ held = [i \in 1..MaxCreates |-> {}]
  /\ renderCache = {} /\ eventPage = FALSE /\ fencePage = FALSE
  /\ runtimeEnabled = FALSE /\ pageMtx = Free /\ runtimeMtx = Free
  /\ bound = {} /\ registered = None /\ runtimeOn = FALSE
  /\ trap = [g \in Gpus |-> None]
  /\ aborted = FALSE /\ overlapped = {}

-----------------------------------------------------------------------------
Goto(t, from, to) == ~aborted /\ pc[t] = from /\ pc' = [pc EXCEPT ![t] = to]
Hold(t, things) == held' = [held EXCEPT ![id[t]] = @ \cup things]
Gpu(t) == found[t][made[t] + 1].gpu

(* create(): open /dev/kfd and check the version (a step that fails like   *)
(* the scan's first), then scan the topology.                              *)
Open(t) ==
  /\ creates < MaxCreates /\ Goto(t, "idle", "scan")
  /\ creates' = creates + 1
  /\ id' = [id EXCEPT ![t] = creates + 1]
  /\ held' = [held EXCEPT ![creates + 1] = {<<"kfd">>}]
  /\ made' = [made EXCEPT ![t] = 0]
  /\ BeginScan(t)
  /\ LET others == {u \in Threads \ {t} : Alive(u)}
     IN  overlapped' = IF others = {} THEN overlapped
                       ELSE overlapped \cup {creates + 1} \cup {id[u] : u \in others}
  /\ UNCHANGED <<globals, locks, kernel, aborted>>

Scan(t) ==
  /\ ~aborted /\ pc[t] = "scan" /\ ScanStep(t)
  /\ UNCHANGED cvars

ScanError(t) ==
  /\ ~aborted /\ pc[t] = "scan" /\ ScanFails(t)
  /\ UNCHANGED cvars

Scanned(t) ==
  /\ scan[t] = "ok" /\ Goto(t, "scan", "device")
  /\ UNCHANGED <<local, creates, held, globals, locks, kernel, aborted, overlapped, tvars>>

-----------------------------------------------------------------------------
(* Device::create().  open_render_fd() binds each GPU once and for all to  *)
(* the descriptor it caches.                                               *)
Cached(t) == Gpu(t) \in renderCache

MoreDevices(t) == made[t] < Len(found[t])

UseCached(t) ==
  /\ MoreDevices(t) /\ Cached(t) /\ Goto(t, "device", "make")
  /\ UNCHANGED <<local, creates, held, globals, locks, kernel, aborted, overlapped, tvars>>

AcquireVm(t) ==
  /\ MoreDevices(t) /\ ~Cached(t) /\ Gpu(t) \notin bound
  /\ Goto(t, "device", "make")
  /\ bound' = bound \cup {Gpu(t)}
  /\ renderCache' = renderCache \cup {Gpu(t)}
  /\ UNCHANGED <<local, creates, held, eventPage, fencePage, runtimeEnabled, locks,
                 registered, runtimeOn, trap, aborted, overlapped, tvars>>

(* Apertures, the doorbell mutex and the memory policy; the scratch pool's *)
(* addresses are reserved (init_scratch()) and the trap handler is loaded  *)
(* and registered (setup_trap_handler()).                                  *)
MakeDevice(t) ==
  /\ Goto(t, "make", "device")
  /\ Hold(t, {<<"scratch", Gpu(t)>>, <<"trap", Gpu(t)>>})
  /\ trap' = [trap EXCEPT ![Gpu(t)] = id[t]]
  /\ made' = [made EXCEPT ![t] = @ + 1]
  /\ UNCHANGED <<id, creates, globals, locks, bound, registered,
                 runtimeOn, aborted, overlapped, tvars>>

DevicesDone(t) ==
  /\ ~MoreDevices(t) /\ Goto(t, "device", "check")
  /\ UNCHANGED <<local, creates, held, globals, locks, kernel, aborted, overlapped, tvars>>

-----------------------------------------------------------------------------
(* The event and fence pages: checked without the lock, then with it.      *)
Step(t, from, to) ==
  /\ Goto(t, from, to)
  /\ UNCHANGED <<local, creates, held, globals, kernel, aborted, overlapped, tvars>>

PagesReady(t) == eventPage /\ Step(t, "check", "runtime") /\ UNCHANGED locks
PagesMissing(t) == ~eventPage /\ Step(t, "check", "lock") /\ UNCHANGED locks

LockPages(t) ==
  /\ pageMtx = Free /\ pageMtx' = t
  /\ Step(t, "lock", "recheck") /\ UNCHANGED runtimeMtx

OthersMadePages(t) ==
  /\ eventPage /\ pageMtx' = Free
  /\ Step(t, "recheck", "runtime") /\ UNCHANGED runtimeMtx

\* Mutant of StillMissing: the second check is left out.
StillMissingAnyway(t) == TRUE

StillMissing(t) == ~eventPage

AllocEventPage(t) ==
  /\ StillMissing(t) /\ Goto(t, "recheck", "register")
  /\ Hold(t, {<<"eventPage">>})
  /\ UNCHANGED <<local, creates, globals, locks, kernel, aborted, overlapped, tvars>>

(* CREATE_EVENT registers the page; the kernel takes one page only.        *)
RegisterEventPage(t) ==
  /\ registered = None /\ Goto(t, "register", "fence")
  /\ registered' = id[t]
  /\ UNCHANGED <<local, creates, held, globals, locks, bound, runtimeOn, trap,
                 aborted, overlapped, tvars>>

AllocFencePage(t) ==
  /\ Goto(t, "fence", "storeFence")
  /\ Hold(t, {<<"fencePage">>})
  /\ UNCHANGED <<local, creates, globals, locks, kernel, aborted, overlapped, tvars>>

(* The kernel refuses to free the page when it is registered and there is  *)
(* no memory for the other one, or when only some of the GPUs have mapped  *)
(* it: KFD_ASSERT ends the process.                                        *)
FreeRefused(t) ==
  /\ ~aborted
  /\ pc[t] = "fence" \/ (pc[t] = "recheck" /\ StillMissing(t) /\ Len(found[t]) > 1)
  /\ aborted' = TRUE
  /\ UNCHANGED <<pc, local, creates, held, globals, locks, kernel, overlapped, tvars>>

\* Mutant of StoreFencePage: the page that others look for is stored first.
StoreEventPageFirst(t) ==
  /\ Goto(t, "storeFence", "storeEvent")
  /\ eventPage' = TRUE
  /\ UNCHANGED <<local, creates, held, renderCache, fencePage, runtimeEnabled, locks,
                 kernel, aborted, overlapped, tvars>>

(* From here on the pages belong to the process.                           *)
StoreFencePage(t) ==
  /\ Goto(t, "storeFence", "storeEvent")
  /\ fencePage' = TRUE
  /\ held' = [held EXCEPT ![id[t]] = @ \ {<<"fencePage">>}]
  /\ UNCHANGED <<local, creates, renderCache, eventPage, runtimeEnabled, locks,
                 kernel, aborted, overlapped, tvars>>

StoreEventPage(t) ==
  /\ Goto(t, "storeEvent", "runtime")
  /\ eventPage' = TRUE /\ pageMtx' = Free
  /\ held' = [held EXCEPT ![id[t]] = @ \ {<<"eventPage">>}]
  /\ UNCHANGED <<local, creates, renderCache, fencePage, runtimeEnabled, runtimeMtx,
                 kernel, aborted, overlapped, tvars>>

(* RUNTIME_ENABLE, in the same way.                                        *)
RuntimeReady(t) == runtimeEnabled /\ Step(t, "runtime", "watcher") /\ UNCHANGED locks
RuntimeMissing(t) == ~runtimeEnabled /\ Step(t, "runtime", "rlock") /\ UNCHANGED locks

LockRuntime(t) ==
  /\ runtimeMtx = Free /\ runtimeMtx' = t
  /\ Step(t, "rlock", "enable") /\ UNCHANGED pageMtx

OthersEnabled(t) ==
  /\ runtimeEnabled /\ runtimeMtx' = Free
  /\ Step(t, "enable", "watcher") /\ UNCHANGED pageMtx

\* Mutant of EnableRuntime: the mutex is kept as long as the context.
EnableRuntimeKeeps(t) ==
  /\ ~runtimeEnabled /\ ~runtimeOn /\ Goto(t, "enable", "watcher")
  /\ runtimeOn' = TRUE /\ runtimeEnabled' = TRUE
  /\ UNCHANGED <<local, creates, held, renderCache, eventPage, fencePage, locks,
                 bound, registered, trap, aborted, overlapped, tvars>>

EnableRuntime(t) ==
  /\ ~runtimeEnabled /\ ~runtimeOn /\ Goto(t, "enable", "watcher")
  /\ runtimeOn' = TRUE /\ runtimeEnabled' = TRUE /\ runtimeMtx' = Free
  /\ UNCHANGED <<local, creates, held, renderCache, eventPage, fencePage, pageMtx,
                 bound, registered, trap, aborted, overlapped, tvars>>

-----------------------------------------------------------------------------
(* start_fault_watcher(): three events and a stack, then a thread.         *)
Make(t, from, to, things) ==
  /\ Goto(t, from, to)
  /\ Hold(t, things)
  /\ UNCHANGED <<local, creates, globals, locks, kernel, aborted, overlapped, tvars>>

CreateEvents(t) == Make(t, "watcher", "clone", {<<"events">>, <<"stack">>})
StartWatcher(t) == Make(t, "clone", "live", {<<"thread">>})

(* Most steps may fail: the locals' destructors give up what was made, and *)
(* the mutex that is held.                                                 *)
MayFail == {"device", "make", "recheck", "register", "enable", "watcher", "clone"}

\* Mutant of Release: the mutex of the runtime stays locked.
ReleaseButRuntime(t) ==
  /\ pc' = [pc EXCEPT ![t] = "idle"]
  /\ held' = [held EXCEPT ![id[t]] = {}]
  /\ pageMtx' = IF pageMtx = t THEN Free ELSE pageMtx
  /\ scan' = [scan EXCEPT ![t] = "none"]
  /\ UNCHANGED <<local, creates, globals, kernel, runtimeMtx, aborted, overlapped, past,
                 attempt, before, count, node, found>>

(* ~Context(), also of the local of a creation that fails.                 *)
Release(t) ==
  /\ pc' = [pc EXCEPT ![t] = "idle"]
  /\ held' = [held EXCEPT ![id[t]] = {}]
  /\ pageMtx' = IF pageMtx = t THEN Free ELSE pageMtx
  /\ runtimeMtx' = IF runtimeMtx = t THEN Free ELSE runtimeMtx
  /\ scan' = [scan EXCEPT ![t] = "none"]
  /\ UNCHANGED <<local, creates, globals, kernel, aborted, overlapped, past,
                 attempt, before, count, node, found>>

CreateFails(t) ==
  /\ ~aborted
  /\ pc[t] \in MayFail \/ (pc[t] = "scan" /\ scan[t] = "failed")
  /\ Release(t)

Destroy(t) ==
  /\ ~aborted /\ pc[t] = "live"
  /\ Release(t)

Change ==
  /\ \E layout \in Layouts : ChangeTopology(layout)
  /\ UNCHANGED cvars

CreateStep(t) ==
  \/ Scan(t) \/ ScanError(t) \/ Scanned(t) \/ UseCached(t) \/ AcquireVm(t)
  \/ MakeDevice(t) \/ DevicesDone(t) \/ PagesReady(t)
  \/ PagesMissing(t) \/ LockPages(t) \/ OthersMadePages(t) \/ AllocEventPage(t)
  \/ RegisterEventPage(t) \/ AllocFencePage(t) \/ StoreFencePage(t)
  \/ StoreEventPage(t) \/ RuntimeReady(t) \/ RuntimeMissing(t) \/ LockRuntime(t)
  \/ OthersEnabled(t) \/ EnableRuntime(t) \/ CreateEvents(t)
  \/ StartWatcher(t) \/ CreateFails(t)

Next ==
  \/ \E t \in Threads : \/ Open(t) \/ CreateStep(t) \/ FreeRefused(t) \/ Destroy(t)
  \/ Change

Spec == Init /\ [][Next]_vars

(* Threads are scheduled.                                                  *)
FairSpec == Spec /\ \A t \in Threads : WF_vars(CreateStep(t))

-----------------------------------------------------------------------------
(* What the kernel allows once per process is done once: no creation finds *)
(* a GPU bound to a descriptor that is not cached, an event page already   *)
(* registered, or the runtime already on, however creations interleave,    *)
(* fail, and are repeated.                                                 *)
OncePerProcess ==
  /\ \A t \in Threads :
       /\ pc[t] = "device" /\ MoreDevices(t) /\ Gpu(t) \in bound => Cached(t)
       /\ pc[t] = "register" => registered = None
       /\ pc[t] = "enable" /\ runtimeOn => runtimeEnabled
  /\ bound = renderCache

(* A context that has passed the check can use both pages.                 *)
PagesServeContexts ==
  \A t \in Threads :
    pc[t] \in {"runtime", "rlock", "enable", "watcher", "clone", "live"} =>
      eventPage /\ fencePage /\ registered # None

(* A context alone in the process has its own trap handlers on its GPUs.   *)
(* (One that overlapped others may have theirs, or none: README.)          *)
OwnTrapHandler ==
  \A t \in Threads :
    pc[t] = "live" /\ id[t] \notin overlapped =>
      \A i \in DOMAIN found[t] : trap[found[t][i].gpu] = id[t]

Inv == TypeOK /\ PagesServeContexts /\ OwnTrapHandler

(* A creation that failed and a context that was destroyed hold nothing,   *)
(* not even a mutex; the pages are the process's own (context.cpp:67).     *)
NothingLeft ==
  /\ \A i \in 1..MaxCreates :
       held[i] # {} => \E t \in Threads : Alive(t) /\ id[t] = i
  /\ {pageMtx, runtimeMtx} \ {Free} \subseteq {t \in Threads : Alive(t)}

(* Every creation ends, by success or failure, unless the process aborts.  *)
CreateEnds == \A t \in Threads : []<>(pc[t] \in {"idle", "live"} \/ aborted)
=============================================================================
