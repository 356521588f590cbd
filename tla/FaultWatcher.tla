---------------------------- MODULE FaultWatcher -----------------------------
(***************************************************************************)
(* The thread that watches a context's events (lib/context.cpp: struct     *)
(* FaultWatcher, fault_watcher_entry(), add_watch(), remove_watch()), the  *)
(* queues that own the watched events (lib/queue.cpp: QueueBase::create()  *)
(* and ~QueueBase()), and the context that ends the thread.                *)
(*                                                                         *)
(* The thread copies the list of watched events, sleeps in WAIT_EVENTS     *)
(* until any of them fires, and then calls every handler.  Since the list  *)
(* is a copy, it may name events that their owners have destroyed: then    *)
(* WAIT_EVENTS fails, at once or in its sleep.  watch_mtx is the lock of   *)
(* module AbstractLock.                                                    *)
(*                                                                         *)
(* External, besides module KfdEvents: a wait that names a destroyed event *)
(* fails, after it may have taken the events named before it; so does a    *)
(* sleep when an event is destroyed, unless one named before it has fired. *)
(***************************************************************************)
EXTENDS Naturals, SequencesExt

CONSTANTS Owners,         \* the queues; each names its event
          Wake, Fault,    \* the thread's own events: wake_event, and
                          \* mem_event and hw_event taken together
          Watcher,        \* the thread
          Free,           \* nobody holds watch_mtx
          InlineWatches,  \* watches the list holds without malloc(): 8
          MaxWatches,     \* bound: calls of add_watch()
          MaxFires        \* bound: events fired by devices

Sticky == {Fault}
Events == Owners \cup {Wake, Fault}

ASSUME WatcherAssumption ==
  /\ InlineWatches \in Nat /\ MaxWatches \in Nat /\ MaxFires \in Nat
  /\ Wake \notin Owners /\ Fault \notin Owners /\ Wake # Fault
  /\ Watcher \notin Owners /\ Free \notin Owners \cup {Watcher}

VARIABLES
  place,     \* where the watcher thread is
  eds,       \* its copy of the events' ids, in order
  index,     \* the handler it calls next
  seen,      \* what the last wait received
  watches,   \* the watched events, in list order
  mtx,       \* the holder of watch_mtx
  owner,     \* where each owner is
  closer,    \* where ~FaultWatcher() is
  exitFlag,
  signaled, registered, activated,  \* the events
  exists,    \* the events of owners that exist
  gone,      \* events destroyed during the wait in progress
  added, fires,  \* calls made, against their bounds
  unhandled, \* history: events that fired and whose handler was not called
  dropped    \* history: unhandled events lost when a sleep failed

INSTANCE KfdEvents WITH Waiters <- {Watcher}

thread == <<place, eds, index, seen>>
driver == <<signaled, registered, activated, exists, gone>>
history == <<fires, unhandled, dropped>>
watcherVars == <<place, eds, index, seen, watches, mtx, owner, closer, exitFlag,
                 signaled, registered, activated, exists, gone, added, fires,
                 unhandled, dropped>>

Watched == ToSet(watches)
Running == place # "died"  \* SIGSEGV and SIGABRT end all threads

WatcherTypeOK ==
  /\ KernelTypeOK
  /\ place \in {"top", "copy", "wait", "asleep", "woken", "lock", "call",
                "exited", "died"}
  /\ ToSet(eds) \subseteq Events /\ index \in 1..(Len(watches) + 1)
  /\ exists \subseteq Owners /\ gone \subseteq Owners /\ Watched \subseteq Owners
  /\ mtx \in Owners \cup {Watcher, Free}
  /\ owner \in [Owners -> {"absent", "created", "added", "ready", "removed",
                           "unwatched"}]
  /\ closer \in {"open", "closing", "joining", "closed"}
  /\ seen \subseteq Events /\ unhandled \subseteq exists /\ dropped \subseteq Owners

WatcherInit ==
  /\ KernelInit
  /\ place = "top" /\ eds = <<>> /\ index = 1 /\ seen = {}
  /\ watches = <<>> /\ mtx = Free
  /\ owner = [o \in Owners |-> "absent"]
  /\ closer = "open" /\ exitFlag = FALSE
  /\ exists = {} /\ gone = {}
  /\ added = 0 /\ fires = 0 /\ unhandled = {} /\ dropped = {}

-----------------------------------------------------------------------------
(* fault_watcher_entry()                                                   *)
LoopTop ==
  /\ place = "top"
  /\ place' = IF exitFlag THEN "exited" ELSE "copy"
  /\ UNCHANGED <<eds, index, seen, watches, mtx, owner, closer, exitFlag, driver,
                 added, history>>

EventList == <<Fault>> \o watches \o <<Wake>>

CopyWatches ==
  /\ place = "copy" /\ mtx = Free
  /\ place' = "wait" /\ eds' = EventList
  /\ UNCHANGED <<index, seen, watches, mtx, owner, closer, exitFlag, driver,
                 added, history>>

Missing == {i \in DOMAIN eds : eds[i] \notin exists \cup {Wake, Fault}}

StartWait ==
  /\ place = "wait" /\ Missing = {}
  /\ WaitEvents(Watcher, ToSet(eds))
  /\ place' = "asleep" /\ gone' = {}
  /\ UNCHANGED <<eds, index, seen, watches, mtx, owner, closer, exitFlag, exists,
                 added, history>>

(* WAIT_EVENTS meets an event that is gone, after it has taken some of     *)
(* those before it: the loop starts over.                                  *)
StartFails ==
  /\ place = "wait" /\ Missing # {}
  /\ \E taken \in SUBSET {eds[i] : i \in 1..(Min(Missing) - 1)} :
       signaled' = [e \in Events |-> signaled[e] /\ (e \in Sticky \/ e \notin taken)]
  /\ place' = "top"
  /\ UNCHANGED <<eds, index, seen, watches, mtx, owner, closer, exitFlag,
                 registered, activated, exists, gone, added, history>>

(* The events of the list are looked at in order: the first that is gone   *)
(* or has fired decides.                                                   *)
Decides(set, other) ==
  \E i \in DOMAIN eds : /\ eds[i] \in set
                        /\ \A j \in 1..(i - 1) : eds[j] \notin other
WaitCompletes == Decides(activated[Watcher] \ gone, gone)
WaitBreaks == Decides(gone, activated[Watcher] \ gone)

Woken ==
  /\ place = "asleep" /\ WaitCompletes
  /\ EndWait(Watcher)
  /\ place' = "woken" /\ seen' = activated[Watcher]
  /\ UNCHANGED <<eds, index, watches, mtx, owner, closer, exitFlag, exists, gone,
                 added, history>>

(* The wait ends without success, and what it has received is lost: the    *)
(* events, and the wake-up that would have made up for those that a wait   *)
(* which failed at its start had taken.                                    *)
SleepFails ==
  /\ place = "asleep" /\ WaitBreaks
  /\ EndWait(Watcher)
  /\ place' = "top"
  /\ dropped' = dropped \cup {o \in unhandled : ~signaled[o]}
  /\ UNCHANGED <<eds, index, seen, watches, mtx, owner, closer, exitFlag, exists,
                 gone, added, fires, unhandled>>

\* Mutant of Faulted: the records are read before the wait fills them in.
FaultedStale == FALSE
Faulted == Fault \in seen

(* A memory fault or a hardware exception ends the process.                *)
CheckWoken ==
  /\ place = "woken"
  /\ place' = IF exitFlag THEN "exited" ELSE IF Faulted THEN "died" ELSE "lock"
  /\ UNCHANGED <<eds, index, seen, watches, mtx, owner, closer, exitFlag, driver,
                 added, history>>

LockWatches ==
  /\ place = "lock" /\ mtx = Free
  /\ place' = "call" /\ mtx' = Watcher /\ index' = 1
  /\ UNCHANGED <<eds, seen, watches, owner, closer, exitFlag, driver, added,
                 history>>

\* Mutant of Called: only the handlers of events that the wait received.
CalledSeen == watches[index] \in seen
Called == TRUE

CallHandler ==
  /\ place = "call" /\ index <= Len(watches)
  /\ index' = index + 1
  /\ unhandled' = IF Called THEN unhandled \ {watches[index]} ELSE unhandled
  /\ dropped' = IF Called THEN dropped \ {watches[index]} ELSE dropped
  /\ UNCHANGED <<place, eds, seen, watches, mtx, owner, closer, exitFlag, driver,
                 added, fires>>

UnlockWatches ==
  /\ place = "call" /\ index > Len(watches)
  /\ place' = "top" /\ mtx' = Free /\ index' = 1
  /\ UNCHANGED <<eds, seen, watches, owner, closer, exitFlag, driver, added,
                 history>>

-----------------------------------------------------------------------------
(* QueueBase::create(): the event, and add_watch().                        *)
CreateEvent(o) ==
  /\ Running /\ owner[o] = "absent" /\ closer = "open" /\ added < MaxWatches
  /\ owner' = [owner EXCEPT ![o] = "created"]
  /\ added' = added + 1
  /\ exists' = exists \cup {o}
  /\ signaled' = [signaled EXCEPT ![o] = FALSE]
  /\ UNCHANGED <<thread, watches, mtx, closer, exitFlag, registered, activated,
                 gone, history>>

AddWatch(o) ==
  /\ Running /\ owner[o] = "created" /\ mtx = Free
  /\ owner' = [owner EXCEPT ![o] = "added"]
  /\ mtx' = o
  /\ watches' = Append(watches, o)
  /\ UNCHANGED <<thread, closer, exitFlag, driver, added, history>>

(* The list could not grow: the half-made queue is destroyed.              *)
AddWatchFails(o) ==
  /\ Running /\ owner[o] = "created" /\ mtx = Free /\ Len(watches) >= InlineWatches
  /\ owner' = [owner EXCEPT ![o] = "ready"]
  /\ UNCHANGED <<thread, watches, mtx, closer, exitFlag, driver, added, history>>

SignalAdded(o) ==
  /\ Running /\ owner[o] = "added"
  /\ owner' = [owner EXCEPT ![o] = "ready"]
  /\ mtx' = Free
  /\ SetEvent(Wake)
  /\ UNCHANGED <<thread, watches, closer, exitFlag, exists, gone, added, history>>

(* ~QueueBase(): remove_watch() puts the last watch in the place of the    *)
(* one it removes.                                                         *)
\* Mutant of Without: the last watch is removed, whichever it is.
WithoutLast(o) == IF o \in Watched THEN Front(watches) ELSE watches
Without(o) ==
  IF o \notin Watched THEN watches
  ELSE LET i == CHOOSE i \in DOMAIN watches : watches[i] = o
       IN  Front([watches EXCEPT ![i] = Last(watches)])

RemoveWatch(o) ==
  /\ Running /\ owner[o] = "ready" /\ mtx = Free
  /\ owner' = [owner EXCEPT ![o] = "removed"]
  /\ mtx' = o
  /\ watches' = Without(o)
  /\ unhandled' = unhandled \ {o} /\ dropped' = dropped \ {o}
  /\ UNCHANGED <<thread, closer, exitFlag, driver, added, fires>>

SignalRemoved(o) ==
  /\ Running /\ owner[o] = "removed"
  /\ owner' = [owner EXCEPT ![o] = "unwatched"]
  /\ mtx' = Free
  /\ SetEvent(Wake)
  /\ UNCHANGED <<thread, watches, closer, exitFlag, exists, gone, added, history>>

(* The members of the queue: the event, and the context of its handler.    *)
DestroyEvent(o) ==
  /\ Running /\ owner[o] = "unwatched"
  /\ owner' = [owner EXCEPT ![o] = "absent"]
  /\ exists' = exists \ {o}
  /\ gone' = gone \cup (registered[Watcher] \cap {o})
  /\ registered' = [registered EXCEPT ![Watcher] = @ \ {o}]
  /\ UNCHANGED <<thread, watches, mtx, closer, exitFlag, signaled, activated,
                 added, history>>

-----------------------------------------------------------------------------
(* ~FaultWatcher(), when the queues of the context have been destroyed.    *)
SetExitFlag ==
  /\ Running /\ closer = "open" /\ \A o \in Owners : owner[o] = "absent"
  /\ closer' = "closing" /\ exitFlag' = TRUE
  /\ UNCHANGED <<thread, watches, mtx, owner, driver, added, history>>

\* Mutant of SignalExit: the thread is not woken.
ExitQuietly ==
  /\ Running /\ closer = "closing" /\ closer' = "joining"
  /\ UNCHANGED <<thread, watches, mtx, owner, exitFlag, driver, added, history>>

SignalExit ==
  /\ Running /\ closer = "closing" /\ closer' = "joining"
  /\ SetEvent(Wake)
  /\ UNCHANGED <<thread, watches, mtx, owner, exitFlag, exists, gone, added,
                 history>>

Join ==
  /\ closer = "joining" /\ place = "exited"
  /\ closer' = "closed"
  /\ UNCHANGED <<thread, watches, mtx, owner, exitFlag, driver, added, history>>

-----------------------------------------------------------------------------
(* External: a device fires the event of a queue that was created, or a    *)
(* fault is reported.                                                      *)
Fire(o) ==
  /\ Running /\ owner[o] = "ready" /\ o \in Watched /\ fires < MaxFires
  /\ fires' = fires + 1
  /\ unhandled' = unhandled \cup {o}
  /\ SetEvent(o)
  /\ UNCHANGED <<thread, watches, mtx, owner, closer, exitFlag, exists, gone,
                 added, dropped>>

FaultOccurs ==
  /\ Running /\ ~signaled[Fault] /\ closer = "open"
  /\ SetEvent(Fault)
  /\ UNCHANGED <<thread, watches, mtx, owner, closer, exitFlag, exists, gone,
                 added, history>>

-----------------------------------------------------------------------------
WatcherStep ==
  \/ LoopTop \/ CopyWatches \/ StartWait \/ StartFails \/ Woken \/ SleepFails
  \/ CheckWoken \/ LockWatches \/ CallHandler \/ UnlockWatches

OwnerHolding(o) == SignalAdded(o) \/ SignalRemoved(o)
CloserStep == SignalExit \/ Join

WatcherNext ==
  \/ WatcherStep
  \/ \E o \in Owners : \/ CreateEvent(o) \/ AddWatch(o) \/ AddWatchFails(o)
                       \/ RemoveWatch(o) \/ OwnerHolding(o)
                       \/ DestroyEvent(o) \/ Fire(o)
  \/ SetExitFlag \/ CloserStep \/ FaultOccurs

WatcherSpec == WatcherInit /\ [][WatcherNext]_watcherVars

(* Threads are scheduled, and watch_mtx lets the watcher in at last (a     *)
(* futex lock does not promise it to one among many for ever, but calls of *)
(* add_watch() and remove_watch() end).                                    *)
WatcherFairSpec ==
  /\ WatcherSpec
  /\ WF_watcherVars(WatcherStep) /\ WF_watcherVars(CloserStep)
  /\ \A o \in Owners : WF_watcherVars(OwnerHolding(o))

-----------------------------------------------------------------------------
(* The handler about to be called (context.cpp:186) is that of a queue     *)
(* that is whole, never of one whose ~QueueBase() is past remove_watch():  *)
(* its scratch context may be freed already.                               *)
HandlersAlive ==
  place = "call" /\ index <= Len(watches) =>
    owner[watches[index]] \in {"added", "ready"}

(* A sleeping watcher whose list lacks a watched event has been woken: no  *)
(* watch is overlooked, although the list is a copy (context.cpp:129) and  *)
(* the wake-ups of several owners fall together in one event.              *)
NoWatchOverlooked ==
  place = "asleep" =>
    \A o \in Watched \ ToSet(eds) : owner[o] = "added" \/ WaitCompletes \/ WaitBreaks

(* The watcher thread calls no handler of a dead queue and sleeps past no  *)
(* watch.                                                                  *)
WatcherInv == WatcherTypeOK /\ HandlersAlive /\ NoWatchOverlooked

(* context.h:23 "Callback invoked by the fault watcher when a watched      *)
(* event fires": every event is handled, unless its queue is destroyed, a  *)
(* fault ends the process, or it was lost by a sleep that failed.  Waits   *)
(* that fail at their start lose nothing: the owner that destroyed the     *)
(* event has set wake_event, which is last in the list and stays signaled. *)
EventsHandled ==
  \A o \in Owners :
    o \in unhandled ~> o \notin unhandled \/ o \in dropped \/ ~Running

(* ~FaultWatcher() returns, whatever the thread was doing: the flag and    *)
(* the wake-up are not missed between the loop's test and its sleep.       *)
ShutdownEnds == closer # "open" ~> closer = "closed" \/ ~Running

(* A memory fault or a hardware exception (context.cpp:155-182) ends the   *)
(* process unless the context is closed, whatever the queues do meanwhile. *)
FaultsReported == signaled[Fault] ~> ~Running \/ closer # "open"
=============================================================================
