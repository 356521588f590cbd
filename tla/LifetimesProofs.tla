-------------------------- MODULE LifetimesProofs ---------------------------
(***************************************************************************)
(* What the hardware, the handlers and the copies use exists, for any      *)
(* queues, buffers and images, in whatever order objects are created,      *)
(* fail, move and end; and a loaded image is what was staged.              *)
(*                                                                         *)
(* The last section is about FaultWatcher, which calls the handlers of the *)
(* queues: only those of queues that exist, and none is overlooked.        *)
(***************************************************************************)
EXTENDS Lifetimes, FaultWatcher, FiniteSetTheorems, WellFoundedInduction, TLAPS

-----------------------------------------------------------------------------
(* Buffers.  A handle that is allocated is held by one object or lost; one *)
(* that is not is mapped nowhere.                                          *)
Holds1(h, b) == handle[b] = h /\ \A o \in Objects : handle[o] = h => o = b

BufferInv ==
  /\ BTypeOK /\ DestroyIsAccepted
  /\ forgotten \subseteq memory
  /\ \A h \in memory \ forgotten : \E b \in Objects : Holds1(h, b)
  /\ \A b \in Objects : handle[b] = Null \/ handle[b] \in memory \ forgotten
  /\ \A h \in Handles \ memory : mapped[h] = {}

LEMMA HeldOnce == BufferInv => EachHeldOnce
<1> SUFFICES ASSUME BufferInv PROVE EachHeldOnce
  OBVIOUS
<1>1. ASSUME NEW h \in memory \ forgotten
      PROVE  Cardinality({b \in Objects : handle[b] = h}) = 1
  <2>1. PICK b \in Objects : Holds1(h, b)
    BY DEF BufferInv
  <2>2. {o \in Objects : handle[o] = h} = {b}
    BY <2>1 DEF Holds1
  <2> QED BY <2>2, FS_Singleton
<1> QED BY <1>1 DEF BufferInv, EachHeldOnce

LEMMA BufferInit == BInit => BufferInv
  BY BufferAssumption DEF BInit, BufferInv, BTypeOK, DestroyIsAccepted

LEMMA BufferKept == BufferInv /\ UNCHANGED bvars => BufferInv'
  BY DEF BufferInv, BTypeOK, DestroyIsAccepted, Freed, Holds1, bvars

LEMMA BufferNext ==
  ASSUME BufferInv, NEW b \in Objects, BufferStep(b) PROVE BufferInv'
<1>0. /\ BTypeOK /\ DestroyIsAccepted /\ forgotten \subseteq memory
      /\ \A h \in memory \ forgotten : \E o \in Objects : Holds1(h, o)
      /\ \A o \in Objects : handle[o] = Null \/ handle[o] \in memory \ forgotten
      /\ \A h \in Handles \ memory : mapped[h] = {}
      /\ Null \notin Handles
  BY BufferAssumption DEF BufferInv
<1>a. \A o, p \in Objects : handle[o] = handle[p] /\ handle[o] # Null => o = p
  BY <1>0 DEF Holds1
<1> USE DEF BTypeOK, DestroyIsAccepted, Freed, Holds1, BufferInv
<1>1. CASE Allocate(b)
  BY <1>0, <1>1 DEF Allocate
<1>2. CASE AllocateForgets(b)
  BY <1>0, <1>2 DEF AllocateForgets
<1>3. CASE DestroyBuffer(b)
  BY <1>0, <1>a, <1>3 DEF DestroyBuffer, FreeHandle
<1>4. ASSUME NEW gpus \in SUBSET Gpus, Map(b, gpus) \/ Unmap(b, gpus) PROVE BufferInv'
  BY <1>0, <1>a, <1>4 DEF Map, Unmap
<1>5. ASSUME NEW some \in SUBSET Gpus, MapFails(b, some) \/ UnmapFails(b, some)
      PROVE  BufferInv'
  BY <1>0, <1>a, <1>5 DEF MapFails, UnmapFails
<1>6. ASSUME NEW from \in Objects, MoveBuffer(b, from) PROVE BufferInv'
  BY <1>0, <1>a, <1>6 DEF MoveBuffer, FreeHandle
<1> QED BY <1>1, <1>2, <1>3, <1>4, <1>5, <1>6 DEF BufferStep

-----------------------------------------------------------------------------
(* Queues.  What a slot has to give up is in the order it follows, and     *)
(* what the hardware and the watches use is given up behind them.          *)
TodoOf(s) ==
  /\ phase[s] \in {"empty", "making", "live", "source"} => todo[s] = <<>>
  /\ phase[s] = "dying" => todo[s] = DestroyOrder
  /\ phase[s] = "assigned" => todo[s] = AssignOrder
  /\ phase[s] = "undo" => todo[s] \in {DestroyOrder, UndoDoorbell, Locals}

Made(s, n) == {Making(s)[i] : i \in 1..n}

HasOf(s) ==
  /\ phase[s] = "empty" => has[s] = {}
  /\ phase[s] = "making" => \E n \in 0..Len(Making(s)) : has[s] = Made(s, n)
  /\ phase[s] \in {"live", "source"} => ToSet(Making(s)) \subseteq has[s]
  /\ phase[s] \in {"undo", "dying", "assigned"} => has[s] \subseteq ToSet(todo[s])

Command == {<<"work">>, <<"kernel">>, <<"waves">>} \cup LoaderCommands

FifoOf(s) ==
  /\ fifo[s] \in Seq(Command) /\ Len(fifo[s]) <= MaxCommands
  /\ phase[s] \in {"making", "undo"} \/ "hw" \notin has[s] => fifo[s] = <<>>

Alive(s) ==
  /\ "hw" \in has[s] => HardwareUses(s) \subseteq has[s]
  /\ "err_watch" \in has[s] => {"err_event", "err_watch_ctx", "control"} \subseteq has[s]
  /\ "scratch_watch" \in has[s] =>
       {"scratch_event", "scratch_watch_ctx", "control"} \subseteq has[s]

(* The object a slot is assigned from keeps its queue until it is taken.   *)
SourceOf(s) ==
  phase[s] = "assigned" =>
    /\ source[s] # s /\ SameType(s, source[s]) /\ phase[source[s]] = "source"
    /\ \A o \in Slots : phase[o] = "assigned" /\ source[o] = source[s] => o = s

QueueTypes ==
  /\ phase \in [Slots -> {"empty", "making", "live", "undo", "dying", "assigned",
                        "source"}]
  /\ has \in [Slots -> SUBSET Things]
  /\ DOMAIN todo = Slots /\ DOMAIN fifo = Slots
  /\ tries \in [Slots -> 0..MaxRetries]
  /\ doorbells \in BOOLEAN /\ lost \in Nat
  /\ source \in [Slots -> Slots]

QueueInv ==
  /\ QueueTypes
  /\ \A s \in Slots : TodoOf(s) /\ HasOf(s) /\ FifoOf(s) /\ Alive(s) /\ SourceOf(s)

-----------------------------------------------------------------------------
(* The load.  Each queue has its commands once and in order, the fence     *)
(* counts the signals to come, and what is no longer in a queue is done.   *)
In(q, x) == \E i \in DOMAIN q : q[i] = x
Once(q, x) == \A i, j \in DOMAIN q : q[i] = x /\ q[j] = x => i = j
Behind(q, x, y) == \A i \in DOMAIN q : q[i] = x => \E j \in DOMAIN q : j > i /\ q[j] = y

Early == {"image", "staging", "pinned", "fill", "signal"}
Submits == {"copy", "sdmaSignal", "wait", "acquire", "computeSignal", "host"}
InSdma(x) == In(fifo[sdma], x)
InCompute(x) == In(fifo[compute], x)

LoadTypes ==
  /\ at \in {"idle", "loaded"} \cup Early \cup Submits
  /\ img \in Images /\ sdma \in Slots /\ compute \in Slots
  /\ holds \subseteq {"region", "image", "staging", "pinned", "signal"}
  /\ next \in 0..VramChunks /\ fence \in 0..2
  /\ DOMAIN vram = Chunks /\ DOMAIN cache = Chunks

LoadQueues ==
  /\ sdma \in SdmaSlots /\ compute \in ComputeSlots
  /\ phase[sdma] = "live" /\ phase[compute] = "live"
  /\ \A o \in Slots \ {sdma, compute} : phase[o] = "empty"

(* Which commands are where, in which order.                               *)
Stream ==
  /\ ~InSdma(<<"wait">>) /\ ~InSdma(<<"acquire">>)
  /\ \A c \in Chunks :
       /\ ~InCompute(<<"copy", c>>)
       /\ InSdma(<<"copy", c>>) => c < next
       /\ at \notin {"copy", "sdmaSignal"} => Behind(fifo[sdma], <<"copy", c>>, <<"signal">>)
  /\ Once(fifo[sdma], <<"signal">>)
  /\ \A x \in {<<"wait">>, <<"acquire">>, <<"signal">>} : Once(fifo[compute], x)
  /\ at \in {"copy", "sdmaSignal"} => ~InSdma(<<"signal">>)
  /\ at \in {"copy", "sdmaSignal", "wait"} => ~InCompute(<<"wait">>)
  /\ at \in {"copy", "sdmaSignal", "wait", "acquire"} => ~InCompute(<<"acquire">>)
  /\ at # "host" => ~InCompute(<<"signal">>)
  /\ at \in {"computeSignal", "host"} => Behind(fifo[compute], <<"wait">>, <<"acquire">>)
  /\ at = "host" => Behind(fifo[compute], <<"acquire">>, <<"signal">>)

FenceCounts ==
  LET first == IF at \in {"copy", "sdmaSignal"} \/ InSdma(<<"signal">>) THEN 1 ELSE 0
      second == IF at # "host" \/ InCompute(<<"signal">>) THEN 1 ELSE 0
  IN  fence = first + second

Copied ==
  /\ next \in 0..ChunksOf(img)
  /\ at \notin {"copy"} => next = ChunksOf(img)
  /\ \A c \in 0..next - 1 : ~InSdma(<<"copy", c>>) => vram[c] = Chunk(img, c)

Coherent == \A c \in 0..ChunksOf(img) - 1 : cache[c] \subseteq {vram[c]}

(* What the wait and the acquire establish.                                *)
Ordered ==
  /\ at \in {"acquire", "computeSignal", "host"} /\ ~InCompute(<<"wait">>) =>
       ~InSdma(<<"signal">>)
  /\ at \in {"computeSignal", "host"} /\ ~InCompute(<<"acquire">>) =>
       ~InCompute(<<"wait">>) /\ Coherent

LoadInv ==
  /\ LoadTypes
  /\ at = "idle" => holds = {}
  /\ at # "idle" => Acceptable(img, Dev)
  /\ at \in Early \cup Submits => LoadQueues
  /\ at \in Early => next = 0
  /\ at \in Early \cup {"loaded"} => ~InFlight
  /\ at \in {"signal", "loaded"} \cup Submits => Fillable(img)
  /\ at \in {"fill", "signal"} \cup Submits => {"image", "staging", "pinned"} \subseteq holds
  /\ at \in {"staging", "pinned"} => "image" \in holds
  /\ at = "pinned" => "staging" \in holds
  /\ at \in Submits => Stream /\ FenceCounts /\ Copied /\ Ordered
  /\ at = "loaded" =>
       Coherent /\ \A c \in 0..ChunksOf(img) - 1 : vram[c] = Chunk(img, c)

LifeInv == QueueInv /\ LoadInv /\ BufferInv

-----------------------------------------------------------------------------
(* Fifos: what Head leaves, what Append adds, and the command that stalls. *)
LEMMA Popped ==
  ASSUME NEW q \in Seq(Command), q # <<>>
  PROVE  /\ Tail(q) \in Seq(Command) /\ Len(Tail(q)) = Len(q) - 1
         /\ \A x : In(Tail(q), x) => In(q, x)
         /\ \A x : In(q, x) => x = Head(q) \/ In(Tail(q), x)
         /\ \A x : Once(q, x) => Once(Tail(q), x) /\ (x = Head(q) => ~In(Tail(q), x))
         /\ \A x, y : Behind(q, x, y) => Behind(Tail(q), x, y)
         /\ \A x, y : Behind(q, x, y) /\ Once(q, y) /\ y = Head(q) => ~In(q, x)
<1> DEFINE t == Tail(q)
<1>1. /\ t \in Seq(Command) /\ Len(q) \in Nat /\ Len(q) >= 1 /\ Len(t) = Len(q) - 1
      /\ DOMAIN q = 1..Len(q) /\ DOMAIN t = 1..Len(q) - 1
      /\ \A i \in DOMAIN t : i + 1 \in DOMAIN q /\ t[i] = q[i + 1]
      /\ Head(q) = q[1] /\ 1 \in DOMAIN q
  OBVIOUS
<1>2. \A i \in DOMAIN q : i = 1 \/ (i - 1 \in DOMAIN t /\ q[i] = t[i - 1])
  BY <1>1
<1> HIDE DEF t
<1>3. \A x : In(t, x) => In(q, x)
  BY <1>1 DEF In
<1>4. \A x : In(q, x) => x = Head(q) \/ In(t, x)
  BY <1>1, <1>2 DEF In
<1>5. \A x : Once(q, x) => Once(t, x) /\ (x = Head(q) => ~In(t, x))
  <2> SUFFICES ASSUME NEW x, Once(q, x) PROVE Once(t, x) /\ (x = Head(q) => ~In(t, x))
    OBVIOUS
  <2>1. ASSUME NEW i \in DOMAIN t, NEW j \in DOMAIN t, t[i] = x, t[j] = x PROVE i = j
    <3>1. i + 1 = j + 1
      BY <1>1, <2>1 DEF Once
    <3> QED BY <1>1, <3>1
  <2>2. ASSUME x = Head(q), NEW i \in DOMAIN t, t[i] = x PROVE FALSE
    <3>1. i + 1 = 1
      BY <1>1, <2>2 DEF Once
    <3> QED BY <1>1, <3>1
  <2> QED BY <2>1, <2>2 DEF Once, In
<1>6. \A x, y : Behind(q, x, y) => Behind(t, x, y)
  <2> SUFFICES ASSUME NEW x, NEW y, Behind(q, x, y), NEW i \in DOMAIN t, t[i] = x
               PROVE  \E j \in DOMAIN t : j > i /\ t[j] = y
    BY DEF Behind
  <2>1. PICK j \in DOMAIN q : j > i + 1 /\ q[j] = y
    BY <1>1 DEF Behind
  <2>2. j - 1 \in DOMAIN t /\ j - 1 > i /\ t[j - 1] = y
    BY <1>1, <1>2, <2>1
  <2> QED BY <2>2
<1>7. \A x, y : Behind(q, x, y) /\ Once(q, y) /\ y = Head(q) => ~In(q, x)
  <2> SUFFICES ASSUME NEW x, NEW y, Behind(q, x, y), Once(q, y), y = Head(q),
                      NEW i \in DOMAIN q, q[i] = x
               PROVE  FALSE
    BY DEF In
  <2>1. PICK j \in DOMAIN q : j > i /\ q[j] = y
    BY DEF Behind
  <2>2. j = 1
    BY <1>1, <2>1 DEF Once
  <2> QED BY <1>1, <2>1, <2>2
<1> QED BY <1>1, <1>3, <1>4, <1>5, <1>6, <1>7 DEF t

LEMMA Pushed ==
  ASSUME NEW q \in Seq(Command), NEW z \in Command
  PROVE  /\ Append(q, z) \in Seq(Command) /\ Len(Append(q, z)) = Len(q) + 1
         /\ \A x : In(Append(q, z), x) <=> In(q, x) \/ x = z
         /\ \A x : Once(q, x) /\ (x = z => ~In(q, x)) => Once(Append(q, z), x)
         /\ \A x, y : Behind(q, x, y) /\ x # z => Behind(Append(q, z), x, y)
         /\ \A x : x # z => Behind(Append(q, z), x, z)
<1> DEFINE t == Append(q, z)
<1>1. /\ t \in Seq(Command) /\ Len(q) \in Nat /\ Len(t) = Len(q) + 1
      /\ DOMAIN q = 1..Len(q) /\ DOMAIN t = 1..Len(q) + 1
      /\ \A i \in DOMAIN q : i \in DOMAIN t /\ t[i] = q[i]
      /\ Len(q) + 1 \in DOMAIN t /\ t[Len(q) + 1] = z
  OBVIOUS
<1>2. \A i \in DOMAIN t : i \in DOMAIN q \/ i = Len(q) + 1
  BY <1>1
<1> HIDE DEF t
<1>3. \A x : In(t, x) <=> In(q, x) \/ x = z
  BY <1>1, <1>2 DEF In
<1>4. \A x : Once(q, x) /\ (x = z => ~In(q, x)) => Once(t, x)
  BY <1>1, <1>2 DEF In, Once
<1>5. \A x, y : Behind(q, x, y) /\ x # z => Behind(t, x, y)
  BY <1>1, <1>2 DEF Behind
<1>6. \A x : x # z => Behind(t, x, z)
  <2> SUFFICES ASSUME NEW x, x # z, NEW i \in DOMAIN t, t[i] = x
               PROVE  \E j \in DOMAIN t : j > i /\ t[j] = z
    BY DEF Behind
  <2>1. Len(q) + 1 > i
    BY <1>1, <1>2
  <2> QED BY <1>1, <2>1
<1> QED BY <1>1, <1>3, <1>4, <1>5, <1>6 DEF t

LEMMA Served ==
  ASSUME NEW q \in Seq(Command), q # <<>>, NEW z \in Command
  PROVE  LET t == [q EXCEPT ![1] = z]
         IN  /\ t \in Seq(Command) /\ Len(t) = Len(q)
             /\ \A x : In(t, x) => In(q, x) \/ x = z
             /\ \A x : x # Head(q) => (In(q, x) => In(t, x))
             /\ \A x : x # z => (Once(q, x) => Once(t, x))
             /\ \A x, y : x # z /\ y # Head(q) /\ Behind(q, x, y) => Behind(t, x, y)
<1> DEFINE t == [q EXCEPT ![1] = z]
<1>1. /\ t \in Seq(Command) /\ DOMAIN t = DOMAIN q /\ 1 \in DOMAIN q /\ Len(t) = Len(q)
      /\ Head(q) = q[1] /\ t[1] = z /\ \A i \in DOMAIN q : i # 1 => t[i] = q[i]
  OBVIOUS
<1> HIDE DEF t
<1>2. \A x : In(t, x) => In(q, x) \/ x = z
  BY <1>1 DEF In
<1>3. \A x : x # Head(q) => (In(q, x) => In(t, x))
  BY <1>1 DEF In
<1>4. \A x : x # z => (Once(q, x) => Once(t, x))
  BY <1>1 DEF Once
<1>5. \A x, y : x # z /\ y # Head(q) /\ Behind(q, x, y) => Behind(t, x, y)
  BY <1>1 DEF Behind
<1> QED BY <1>1, <1>2, <1>3, <1>4, <1>5 DEF t

-----------------------------------------------------------------------------
(* The orders, as sets.                                                    *)
Common == {"control", "ring", "hw", "doorbell", "submit_mtx"}
Rest == {"err_event", "cwsr", "eop", "err_watch_ctx", "err_watch", "scratch_event",
         "scratch_watch_ctx", "scratch_watch", "eop_seq"}
LocalThings == {"doorbell", "eop", "ring", "err_event", "cwsr", "control"}

LEMMA MadeOf ==
  ASSUME NEW s \in Slots
  PROVE  ToSet(Making(s)) = IF IsCompute(s) THEN Common \cup Rest ELSE Common
<1> DEFINE S == <<"control", "ring", "hw", "doorbell", "submit_mtx">>
           C == <<"control", "err_event", "cwsr", "ring", "eop", "hw", "doorbell",
                  "submit_mtx", "err_watch_ctx", "err_watch", "scratch_event",
                  "scratch_watch_ctx", "scratch_watch", "eop_seq">>
<1>1. IsCompute(s) <=> s \notin SdmaSlots
  BY QueueLifeAssumption DEF IsCompute, Slots
<1>2. Making(s) = IF IsCompute(s) THEN C ELSE S
  BY <1>1 DEF Making
<1>3. ToSet(S) = Common
  <2>1. DOMAIN S = 1..5
    OBVIOUS
  <2>2. \A x \in ToSet(S) : x \in Common
    BY <2>1 DEF ToSet, Common
  <2>3. S[1] = "control" /\ S[2] = "ring" /\ S[3] = "hw" /\ S[4] = "doorbell"
        /\ S[5] = "submit_mtx"
    OBVIOUS
  <2> HIDE DEF S
  <2>4. \A x \in Common : x \in ToSet(S)
    BY <2>1, <2>3 DEF ToSet, Common
  <2> QED BY <2>2, <2>4
<1>4. ToSet(C) = Common \cup Rest
  <2>1. DOMAIN C = 1..14
    OBVIOUS
  <2>2. \A x \in ToSet(C) : x \in Common \cup Rest
    BY <2>1 DEF ToSet, Common, Rest
  <2>3. /\ C[1] = "control" /\ C[2] = "err_event" /\ C[3] = "cwsr" /\ C[4] = "ring"
        /\ C[5] = "eop" /\ C[6] = "hw" /\ C[7] = "doorbell" /\ C[8] = "submit_mtx"
        /\ C[9] = "err_watch_ctx" /\ C[10] = "err_watch" /\ C[11] = "scratch_event"
        /\ C[12] = "scratch_watch_ctx" /\ C[13] = "scratch_watch" /\ C[14] = "eop_seq"
    OBVIOUS
  <2> HIDE DEF C
  <2>4. \A x \in Common \cup Rest : x \in ToSet(C)
    BY <2>1, <2>3 DEF ToSet, Common, Rest
  <2> QED BY <2>2, <2>4
<1> QED BY <1>2, <1>3, <1>4

LEMMA ThingsAre ==
  /\ Things \subseteq Common \cup Rest \cup {"scratch"} /\ "scratch" \in Things
  /\ \A s \in Slots : ToSet(Making(s)) \subseteq Things
<1>1. \A s \in Slots : ToSet(Making(s)) \subseteq Common \cup Rest
  BY MadeOf, Zenon
<1>2. \A s \in Slots : ToSet(Making(s)) \subseteq Things
  BY DEF Things
<1>3. "scratch" \in Things
  BY DEF Things
<1>4. \A x \in Things : x = "scratch" \/ \E s \in Slots : x \in ToSet(Making(s))
  BY DEF Things
<1> QED BY <1>1, <1>2, <1>3, <1>4

LEMMA OrdersAre ==
  /\ ToSet(DestroyOrder) = Common \cup Rest \cup {"scratch"}
  /\ ToSet(AssignOrder) = Common \cup Rest \cup {"scratch"}
  /\ ToSet(Locals) = LocalThings
  /\ ToSet(UndoDoorbell) = LocalThings \cup {"hw"}
  /\ DOMAIN UndoDoorbell = 1..7 /\ UndoDoorbell[1] = "hw"
<1>1. ToSet(DestroyOrder) = Common \cup Rest \cup {"scratch"}
  <2>1. DOMAIN DestroyOrder = 1..15
    BY DEF DestroyOrder
  <2>2. \A x \in ToSet(DestroyOrder) : x \in Common \cup Rest \cup {"scratch"}
    BY <2>1 DEF ToSet, Common, Rest, DestroyOrder
  <2>3. /\ DestroyOrder[1] = "err_watch" /\ DestroyOrder[2] = "scratch_watch"
        /\ DestroyOrder[3] = "hw" /\ DestroyOrder[4] = "scratch"
        /\ DestroyOrder[5] = "submit_mtx" /\ DestroyOrder[6] = "scratch_watch_ctx"
        /\ DestroyOrder[7] = "scratch_event" /\ DestroyOrder[8] = "err_watch_ctx"
        /\ DestroyOrder[9] = "err_event" /\ DestroyOrder[10] = "doorbell"
        /\ DestroyOrder[11] = "cwsr" /\ DestroyOrder[12] = "eop" /\ DestroyOrder[13] = "ring"
        /\ DestroyOrder[14] = "control" /\ DestroyOrder[15] = "eop_seq"
    BY DEF DestroyOrder
  <2>4. \A x \in Common \cup Rest \cup {"scratch"} : x \in ToSet(DestroyOrder)
    BY <2>1, <2>3 DEF ToSet, Common, Rest
  <2> QED BY <2>2, <2>4
<1>2. ToSet(AssignOrder) = Common \cup Rest \cup {"scratch"}
  <2>1. DOMAIN AssignOrder = 1..15
    BY DEF AssignOrder
  <2>2. \A x \in ToSet(AssignOrder) : x \in Common \cup Rest \cup {"scratch"}
    BY <2>1 DEF ToSet, Common, Rest, AssignOrder
  <2>3. /\ AssignOrder[1] = "eop_seq" /\ AssignOrder[2] = "err_watch"
        /\ AssignOrder[3] = "scratch_watch" /\ AssignOrder[4] = "hw"
        /\ AssignOrder[5] = "scratch" /\ AssignOrder[6] = "ring" /\ AssignOrder[7] = "control"
        /\ AssignOrder[8] = "eop" /\ AssignOrder[9] = "cwsr" /\ AssignOrder[10] = "doorbell"
        /\ AssignOrder[11] = "err_event" /\ AssignOrder[12] = "err_watch_ctx"
        /\ AssignOrder[13] = "scratch_event" /\ AssignOrder[14] = "scratch_watch_ctx"
        /\ AssignOrder[15] = "submit_mtx"
    BY DEF AssignOrder
  <2>4. \A x \in Common \cup Rest \cup {"scratch"} : x \in ToSet(AssignOrder)
    BY <2>1, <2>3 DEF ToSet, Common, Rest
  <2> QED BY <2>2, <2>4
<1>3. UndoDoorbell = <<"hw", "doorbell", "eop", "ring", "err_event", "cwsr", "control">>
  <2> DEFINE T == LocalThings \cup {"hw"}
  <2>1. Locals \in Seq(T) /\ <<"hw">> \in Seq(T) /\ Len(Locals) = 6 /\ Len(<<"hw">>) = 1
    BY DEF Locals, LocalThings
  <2>2. \A p, q \in Seq(T) :
          /\ p \o q \in Seq(T) /\ Len(p \o q) = Len(p) + Len(q)
          /\ \A i \in 1..Len(p) + Len(q) :
               (p \o q)[i] = IF i <= Len(p) THEN p[i] ELSE q[i - Len(p)]
    OBVIOUS
  <2>3. /\ UndoDoorbell \in Seq(T) /\ Len(UndoDoorbell) = 7
        /\ UndoDoorbell[1] = "hw" /\ UndoDoorbell[2] = Locals[1]
        /\ UndoDoorbell[3] = Locals[2] /\ UndoDoorbell[4] = Locals[3]
        /\ UndoDoorbell[5] = Locals[4] /\ UndoDoorbell[6] = Locals[5]
        /\ UndoDoorbell[7] = Locals[6]
    <3> DEFINE H == <<"hw">>
               U == H \o Locals
    <3>1. H \in Seq(T) /\ Locals \in Seq(T) /\ Len(H) = 1 /\ Len(Locals) = 6 /\ H[1] = "hw"
      BY <2>1
    <3> HIDE DEF T, H
    <3>2. /\ U \in Seq(T) /\ Len(U) = 7
          /\ \A i \in 1..7 : U[i] = IF i <= 1 THEN H[i] ELSE Locals[i - 1]
      <4>1. /\ U \in Seq(T) /\ Len(U) = Len(H) + Len(Locals)
            /\ \A i \in 1..Len(H) + Len(Locals) :
                 U[i] = IF i <= Len(H) THEN H[i] ELSE Locals[i - Len(H)]
        BY <3>1, <2>2, Zenon
      <4> HIDE DEF U
      <4> QED BY <3>1, <4>1
    <3>3. UndoDoorbell = U
      BY DEF UndoDoorbell, H
    <3> HIDE DEF U
    <3> QED BY <3>1, <3>2, <3>3
  <2>4. DOMAIN UndoDoorbell = 1..7
    BY <2>3
  <2> QED BY <2>3, <2>4 DEF Locals
<1>4. ToSet(Locals) = LocalThings
  <2>1. DOMAIN Locals = 1..6
    BY DEF Locals
  <2>2. \A x \in ToSet(Locals) : x \in LocalThings
    BY <2>1 DEF ToSet, LocalThings, Locals
  <2>3. /\ Locals[1] = "doorbell" /\ Locals[2] = "eop" /\ Locals[3] = "ring"
        /\ Locals[4] = "err_event" /\ Locals[5] = "cwsr" /\ Locals[6] = "control"
    BY DEF Locals
  <2> QED BY <2>1, <2>2, <2>3 DEF ToSet, LocalThings
<1>5. ToSet(UndoDoorbell) = LocalThings \cup {"hw"}
  <2>1. DOMAIN UndoDoorbell = 1..7
    BY <1>3
  <2>2. /\ UndoDoorbell[1] = "hw" /\ UndoDoorbell[2] = "doorbell" /\ UndoDoorbell[3] = "eop"
        /\ UndoDoorbell[4] = "ring" /\ UndoDoorbell[5] = "err_event"
        /\ UndoDoorbell[6] = "cwsr" /\ UndoDoorbell[7] = "control"
    BY <1>3
  <2>3. \A x \in ToSet(UndoDoorbell) : x \in LocalThings \cup {"hw"}
    BY <2>1, <2>2 DEF ToSet, LocalThings
  <2> QED BY <2>1, <2>2, <2>3 DEF ToSet, LocalThings
<1>6. DOMAIN UndoDoorbell = 1..7 /\ UndoDoorbell[1] = "hw"
  BY <1>3
<1> QED BY <1>1, <1>2, <1>4, <1>5, <1>6

-----------------------------------------------------------------------------
(* What is made next, and what is given up next.                           *)
LEMMA MakingIs ==
  ASSUME NEW s \in Slots
  PROVE  LET m == Making(s)
         IN  /\ DOMAIN m = 1..Len(m) /\ Len(m) \in Nat
             /\ \A i, j \in DOMAIN m : m[i] = m[j] => i = j
             /\ ToSet(m) = Made(s, Len(m))
             /\ IsCompute(s) =>
                  /\ Len(m) = 14
                  /\ m[1] = "control" /\ m[2] = "err_event" /\ m[3] = "cwsr" /\ m[4] = "ring"
                  /\ m[5] = "eop" /\ m[6] = "hw" /\ m[7] = "doorbell"
                  /\ m[8] = "submit_mtx" /\ m[9] = "err_watch_ctx" /\ m[10] = "err_watch"
                  /\ m[11] = "scratch_event" /\ m[12] = "scratch_watch_ctx"
                  /\ m[13] = "scratch_watch" /\ m[14] = "eop_seq"
             /\ ~IsCompute(s) =>
                  /\ Len(m) = 5
                  /\ m[1] = "control" /\ m[2] = "ring" /\ m[3] = "hw"
                  /\ m[4] = "doorbell" /\ m[5] = "submit_mtx"
<1> DEFINE m == Making(s)
<1>1. IsCompute(s) <=> s \notin SdmaSlots
  BY QueueLifeAssumption DEF IsCompute, Slots
<1>2. CASE IsCompute(s)
  <2>1. /\ DOMAIN m = 1..14 /\ Len(m) = 14
        /\ m[1] = "control" /\ m[2] = "err_event" /\ m[3] = "cwsr" /\ m[4] = "ring"
        /\ m[5] = "eop" /\ m[6] = "hw" /\ m[7] = "doorbell"
        /\ m[8] = "submit_mtx" /\ m[9] = "err_watch_ctx" /\ m[10] = "err_watch"
        /\ m[11] = "scratch_event" /\ m[12] = "scratch_watch_ctx"
        /\ m[13] = "scratch_watch" /\ m[14] = "eop_seq"
    BY <1>1, <1>2 DEF Making
  <2> HIDE DEF m
  <2>2. \A i, j \in DOMAIN m : m[i] = m[j] => i = j
    BY <2>1
  <2>3. ToSet(m) = {m[i] : i \in 1..14}
    BY <2>1 DEF ToSet
  <2> QED BY <1>2, <2>1, <2>2, <2>3 DEF Made, m
<1>3. CASE ~IsCompute(s)
  <2>1. /\ DOMAIN m = 1..5 /\ Len(m) = 5
        /\ m[1] = "control" /\ m[2] = "ring" /\ m[3] = "hw"
        /\ m[4] = "doorbell" /\ m[5] = "submit_mtx"
    BY <1>1, <1>3 DEF Making
  <2> HIDE DEF m
  <2>2. \A i, j \in DOMAIN m : m[i] = m[j] => i = j
    BY <2>1
  <2>3. ToSet(m) = {m[i] : i \in 1..5}
    BY <2>1 DEF ToSet
  <2> QED BY <1>3, <2>1, <2>2, <2>3 DEF Made, m
<1> QED BY <1>2, <1>3

LEMMA FirstMade ==
  ASSUME NEW s \in Slots, NEW n \in 0..Len(Making(s)), has[s] = Made(s, n),
         NEW x \in Things, First(x, Making(s), Things \ has[s])
  PROVE  /\ n < Len(Making(s)) /\ x = Making(s)[n + 1]
         /\ has[s] \cup {x} = Made(s, n + 1)
<1> DEFINE m == Making(s)
<1>1. /\ DOMAIN m = 1..Len(m) /\ Len(m) \in Nat
      /\ \A i, j \in DOMAIN m : m[i] = m[j] => i = j
  BY MakingIs
<1>2. \A i \in DOMAIN m : m[i] \in Things
  BY ThingsAre DEF ToSet
<1>3. PICK i \in DOMAIN m : m[i] = x /\ \A j \in 1..(i - 1) : m[j] \notin Things \ has[s]
  BY DEF First
<1> HIDE DEF m
<1>a. \A y : y \in has[s] <=> \E j \in 1..n : y = m[j]
  BY DEF Made, m
<1>b. x \notin has[s]
  BY DEF First
<1>4. n < i
  BY <1>1, <1>3, <1>a, <1>b
<1>5. \A j \in 1..(i - 1) : j \in 1..n
  <2> SUFFICES ASSUME NEW j \in 1..(i - 1) PROVE j \in 1..n
    OBVIOUS
  <2>1. j \in DOMAIN m /\ m[j] \in has[s]
    BY <1>1, <1>2, <1>3
  <2>2. PICK k \in 1..n : m[j] = m[k]
    BY <1>a, <2>1
  <2>3. k \in DOMAIN m
    BY <1>1 DEF m
  <2> QED BY <1>1, <2>1, <2>2, <2>3
<1>6. i = n + 1
  <2>1. CASE i - 1 >= 1
    BY <1>4, <1>5, <2>1, <1>1
  <2>2. CASE i = 1
    BY <1>4, <2>2
  <2> QED BY <1>1, <2>1, <2>2
<1>7. has[s] \cup {x} = {m[j] : j \in 1..n + 1}
  BY <1>3, <1>6, <1>a
<1> QED BY <1>1, <1>3, <1>6, <1>7 DEF Made, m

LEMMA FirstGone ==
  ASSUME NEW order \in {DestroyOrder, AssignOrder, UndoDoorbell, Locals}, NEW set,
         set \subseteq ToSet(order), NEW x, First(x, order, set)
  PROVE  /\ "hw" \in set => x \in {"eop_seq", "err_watch", "scratch_watch", "hw"}
         /\ "hw" \in set /\ x = "eop_seq" => order = AssignOrder
         /\ "scratch_watch" \in set => x \in {"eop_seq", "err_watch", "scratch_watch"}
         /\ "err_watch" \in set => x \in {"eop_seq", "err_watch"}
<1>1. PICK i \in DOMAIN order : order[i] = x /\ \A j \in 1..(i - 1) : order[j] \notin set
  BY DEF First
<1>2. CASE order = DestroyOrder
  BY <1>1, <1>2 DEF DestroyOrder
<1>3. CASE order = AssignOrder
  BY <1>1, <1>3 DEF AssignOrder
<1>4. CASE order = UndoDoorbell
  <2>1. x \in set /\ x \in LocalThings \cup {"hw"} /\ set \subseteq LocalThings \cup {"hw"}
    BY <1>4, OrdersAre DEF First
  <2>2. "hw" \in set => i = 1
    BY <1>1, <1>4, OrdersAre
  <2> QED BY <1>1, <1>4, <2>1, <2>2, OrdersAre DEF LocalThings
<1>5. CASE order = Locals
  BY <1>5, OrdersAre DEF LocalThings
<1> QED BY <1>2, <1>3, <1>4, <1>5

-----------------------------------------------------------------------------
(* The steps of the queues.                                                *)
LEMMA QueueInit == QInit => QueueInv
<1> SUFFICES ASSUME QInit PROVE QueueInv
  OBVIOUS
<1>1. QueueTypes
  <2>1. 0 \in 0..MaxRetries /\ lost \in Nat
    BY QueueLifeAssumption DEF QInit
  <2>2. phase \in [Slots -> {"empty"}] /\ has \in [Slots -> {{}}]
    BY DEF QInit
  <2> QED BY <2>1, <2>2 DEF QInit, QueueTypes
<1>2. ASSUME NEW s \in Slots PROVE TodoOf(s) /\ HasOf(s) /\ FifoOf(s) /\ Alive(s) /\ SourceOf(s)
  <2>1. phase[s] = "empty" /\ has[s] = {} /\ todo[s] = <<>> /\ fifo[s] = <<>>
    BY DEF QInit
  <2>2. <<>> \in Seq(Command) /\ Len(<<>>) <= MaxCommands
    BY QueueLifeAssumption
  <2> QED BY <2>1, <2>2 DEF TodoOf, HasOf, FifoOf, Alive, SourceOf
<1> QED BY <1>1, <1>2 DEF QueueInv

LEMMA QueueKept == QueueInv /\ UNCHANGED qvars => QueueInv'
<1> SUFFICES ASSUME QueueInv, UNCHANGED qvars PROVE QueueInv'
  OBVIOUS
<1>1. QueueTypes'
  BY DEF QueueInv, QueueTypes, qvars
<1>2. ASSUME NEW s \in Slots
      PROVE  TodoOf(s)' /\ HasOf(s)' /\ FifoOf(s)' /\ Alive(s)' /\ SourceOf(s)'
  BY DEF QueueInv, TodoOf, HasOf, FifoOf, Alive, SourceOf, HardwareUses, SameType, qvars
<1> QED BY <1>1, <1>2 DEF QueueInv

(* A step of one slot that stays out of assignments.                       *)
LEMMA OneSlot ==
  ASSUME QueueInv, NEW s \in Slots, QueueTypes', UNCHANGED source,
         \A o \in Slots \ {s} : /\ phase'[o] = phase[o] /\ has'[o] = has[o]
                                /\ todo'[o] = todo[o] /\ fifo'[o] = fifo[o],
         \/ phase'[s] = phase[s]
         \/ phase[s] \notin {"assigned", "source"} /\ phase'[s] # "assigned",
         TodoOf(s)', HasOf(s)', FifoOf(s)', Alive(s)'
  PROVE  QueueInv'
<1>0. QueueTypes /\ \A o \in Slots : TodoOf(o) /\ HasOf(o) /\ FifoOf(o) /\ Alive(o) /\ SourceOf(o)
  BY DEF QueueInv
<1>1. ASSUME NEW o \in Slots \ {s}
      PROVE  TodoOf(o)' /\ HasOf(o)' /\ FifoOf(o)' /\ Alive(o)'
  BY <1>0, <1>1 DEF TodoOf, HasOf, FifoOf, Alive, HardwareUses
<1>2. ASSUME NEW o \in Slots PROVE SourceOf(o)'
  <2>1. source[o] \in Slots /\ source'[o] = source[o]
    BY <1>0 DEF QueueTypes
  <2>2. \A p \in Slots : phase'[p] = "assigned" => phase[p] = "assigned"
    OBVIOUS
  <2>3. phase[o] = "assigned" /\ phase[source[o]] = "source" => phase'[source[o]] = "source"
    BY <2>1
  <2> QED BY <1>0, <2>1, <2>2, <2>3 DEF SourceOf, SameType
<1> QED BY <1>1, <1>2 DEF QueueInv

(* What a creation has, and so the things behind its next one.             *)
LEMMA MakingHas ==
  ASSUME QueueInv, NEW s \in Slots, NEW x \in Things, Making1(s, x)
  PROVE  \E n \in 0..Len(Making(s)) :
           /\ n < Len(Making(s)) /\ has[s] = Made(s, n)
           /\ x = Making(s)[n + 1] /\ has[s] \cup {x} = Made(s, n + 1)
<1>1. phase[s] = "making" /\ First(x, Making(s), Things \ has[s]) /\ HasOf(s)
  BY DEF Making1, QueueInv
<1>2. PICK n \in 0..Len(Making(s)) : has[s] = Made(s, n)
  BY <1>1 DEF HasOf
<1> QED BY <1>1, <1>2, FirstMade

LEMMA MadeBehind ==
  ASSUME NEW s \in Slots, NEW n \in 0..Len(Making(s)), n < Len(Making(s)),
         NEW x, x = Making(s)[n + 1]
  PROVE  /\ x = "hw" => /\ {"control", "ring"} \subseteq Made(s, n)
                        /\ IsCompute(s) => {"eop", "cwsr"} \subseteq Made(s, n)
         /\ x = "err_watch" => {"err_event", "err_watch_ctx", "control"} \subseteq Made(s, n)
         /\ x = "scratch_watch" =>
              {"scratch_event", "scratch_watch_ctx", "control"} \subseteq Made(s, n)
         /\ "submit_mtx" \notin Made(s, n) =>
              /\ Made(s, n) \subseteq LocalThings \cup {"hw"}
              /\ x \notin {"doorbell", "submit_mtx"} => "hw" \notin Made(s, n)
         /\ "scratch" \notin Made(s, n)
<1> DEFINE m == Making(s)
<1>1. /\ \A i \in DOMAIN m : \A j \in DOMAIN m : m[i] = m[j] => i = j
      /\ DOMAIN m = 1..Len(m) /\ Len(m) \in Nat
  BY MakingIs
<1>2. \A y : y \in Made(s, n) <=> \E i \in 1..n : y = m[i]
  BY DEF Made
<1>3. CASE IsCompute(s)
  <2>1. /\ Len(m) = 14
        /\ m[1] = "control" /\ m[2] = "err_event" /\ m[3] = "cwsr" /\ m[4] = "ring"
        /\ m[5] = "eop" /\ m[6] = "hw" /\ m[7] = "doorbell"
        /\ m[8] = "submit_mtx" /\ m[9] = "err_watch_ctx" /\ m[10] = "err_watch"
        /\ m[11] = "scratch_event" /\ m[12] = "scratch_watch_ctx"
        /\ m[13] = "scratch_watch" /\ m[14] = "eop_seq"
    BY <1>3, MakingIs
  <2> HIDE DEF m
  <2>2. x = m[n + 1]
    BY DEF m
  <2>3. n < 14 /\ n \in 0..14 /\ n + 1 \in DOMAIN m /\ {6, 10, 13} \subseteq DOMAIN m
    BY <1>1, <2>1 DEF m
  <2>4. x = "hw" => n = 5
    <3>1. x = m[6] => n + 1 = 6
      BY <1>1, <2>2, <2>3
    <3> QED BY <2>1, <2>3, <3>1
  <2>5. x = "err_watch" => n = 9
    <3>1. x = m[10] => n + 1 = 10
      BY <1>1, <2>2, <2>3
    <3> QED BY <2>1, <2>3, <3>1
  <2>6. x = "scratch_watch" => n = 12
    <3>1. x = m[13] => n + 1 = 13
      BY <1>1, <2>2, <2>3
    <3> QED BY <2>1, <2>3, <3>1
  <2>7. "submit_mtx" \notin Made(s, n) => n <= 7
    BY <1>2, <2>1, <2>3
  <2>8. n <= 7 /\ x \notin {"doorbell", "submit_mtx"} => n <= 5
    BY <2>1, <2>2, <2>3
  <2>9. n <= 5 => "hw" \notin Made(s, n)
    BY <1>2, <2>1, <2>3
  <2>10. n <= 7 => Made(s, n) \subseteq LocalThings \cup {"hw"}
    BY <1>2, <2>1, <2>3 DEF LocalThings
  <2>11. "scratch" \notin Made(s, n)
    BY <1>2, <2>1, <2>3
  <2>12. n = 5 => {"control", "ring", "eop", "cwsr"} \subseteq Made(s, n)
    BY <1>2, <2>1
  <2>13. n = 9 => {"err_event", "err_watch_ctx", "control"} \subseteq Made(s, n)
    BY <1>2, <2>1
  <2>14. n = 12 => {"scratch_event", "scratch_watch_ctx", "control"} \subseteq Made(s, n)
    BY <1>2, <2>1
  <2> QED BY <2>4, <2>5, <2>6, <2>7, <2>8, <2>9, <2>10, <2>11, <2>12, <2>13, <2>14
<1>4. CASE ~IsCompute(s)
  <2>1. /\ Len(m) = 5
        /\ m[1] = "control" /\ m[2] = "ring" /\ m[3] = "hw"
        /\ m[4] = "doorbell" /\ m[5] = "submit_mtx"
    BY <1>4, MakingIs
  <2> HIDE DEF m
  <2>2. x = m[n + 1]
    BY DEF m
  <2>3. n < 5 /\ n \in 0..5 /\ n + 1 \in DOMAIN m /\ 3 \in DOMAIN m
    BY <1>1, <2>1 DEF m
  <2>4. x = "hw" => n = 2
    <3>1. x = m[3] => n + 1 = 3
      BY <1>1, <2>2, <2>3
    <3> QED BY <2>1, <2>3, <3>1
  <2>5. x # "err_watch" /\ x # "scratch_watch"
    BY <1>1, <2>1, <2>2, <2>3
  <2>6. x \notin {"doorbell", "submit_mtx"} => n <= 2
    BY <2>1, <2>2, <2>3
  <2>7. n <= 2 => "hw" \notin Made(s, n)
    BY <1>2, <2>1, <2>3
  <2>8. Made(s, n) \subseteq LocalThings \cup {"hw"} /\ "scratch" \notin Made(s, n)
    BY <1>2, <2>1, <2>3 DEF LocalThings
  <2>9. n = 2 => {"control", "ring"} \subseteq Made(s, n)
    BY <1>2, <2>1
  <2> QED BY <1>4, <2>4, <2>5, <2>6, <2>7, <2>8, <2>9
<1> QED BY <1>3, <1>4

LEMMA GetsKeeps ==
  ASSUME QueueInv, NEW s \in Slots, NEW x \in Things, Making1(s, x),
         has' = [has EXCEPT ![s] = @ \cup {x}], doorbells' \in BOOLEAN,
         UNCHANGED <<phase, todo, tries, fifo, source, lost>>
  PROVE  QueueInv'
<1>1. PICK n \in 0..Len(Making(s)) :
        /\ n < Len(Making(s)) /\ has[s] = Made(s, n)
        /\ x = Making(s)[n + 1] /\ has[s] \cup {x} = Made(s, n + 1)
  BY MakingHas
<1>2. QueueTypes /\ TodoOf(s) /\ FifoOf(s) /\ Alive(s) /\ phase[s] = "making"
  BY DEF QueueInv, Making1
<1>3. /\ has'[s] = has[s] \cup {x} /\ phase'[s] = "making" /\ fifo[s] = <<>>
      /\ \A o \in Slots \ {s} : has'[o] = has[o]
  BY <1>2 DEF QueueTypes, FifoOf
<1>4. QueueTypes'
  BY <1>2 DEF QueueTypes
<1>5. HasOf(s)'
  <2>0. Len(Making(s)) \in Nat
    BY MakingIs
  <2>1. n + 1 \in 0..Len(Making(s))
    BY <1>1, <2>0
  <2>2. has'[s] = Made(s, n + 1)
    BY <1>1, <1>3, Zenon
  <2> QED BY <1>3, <2>1, <2>2 DEF HasOf, Made
<1>6. Alive(s)'
  <2>1. HardwareUses(s) = {"control", "ring"} \cup (IF IsCompute(s) THEN {"eop", "cwsr"} ELSE {})
        /\ HardwareUses(s)' = HardwareUses(s)
    BY <1>2, <1>3 DEF HardwareUses, ToSet
  <2>2. /\ x = "hw" => /\ {"control", "ring"} \subseteq has[s]
                       /\ IsCompute(s) => {"eop", "cwsr"} \subseteq has[s]
        /\ x = "err_watch" => {"err_event", "err_watch_ctx", "control"} \subseteq has[s]
        /\ x = "scratch_watch" =>
             {"scratch_event", "scratch_watch_ctx", "control"} \subseteq has[s]
    BY <1>1, MadeBehind
  <2> QED BY <1>2, <1>3, <2>1, <2>2 DEF Alive
<1>7. FifoOf(s)' /\ TodoOf(s)'
  BY <1>2, <1>3 DEF FifoOf, TodoOf
<1> QED BY <1>3, <1>4, <1>5, <1>6, <1>7, OneSlot

(* A call fails: what create() has is in the order it gives it up.         *)
LEMMA FailsKeeps ==
  ASSUME QueueInv, NEW s \in Slots, Fails(s) PROVE QueueInv'
<1>1. PICK x \in Things :
        /\ Making1(s, x)
        /\ GiveUpInOrder(s, "undo",
             IF "submit_mtx" \in has[s] THEN DestroyOrder
             ELSE IF x = "doorbell" THEN UndoDoorbell ELSE Locals)
        /\ IF x = "submit_mtx"
           THEN lost' = lost + 1 /\ has' = [has EXCEPT ![s] = @ \ {"hw"}]
           ELSE UNCHANGED <<has, lost>>
        /\ UNCHANGED <<tries, fifo, doorbells, source>>
  BY DEF Fails
<1>2. PICK n \in 0..Len(Making(s)) :
        /\ n < Len(Making(s)) /\ has[s] = Made(s, n)
        /\ x = Making(s)[n + 1] /\ has[s] \cup {x} = Made(s, n + 1)
  BY <1>1, MakingHas
<1>3. QueueTypes /\ FifoOf(s) /\ Alive(s) /\ phase[s] = "making" /\ has[s] \subseteq Things
  BY <1>1 DEF QueueInv, Making1, QueueTypes
<1>4. /\ phase'[s] = "undo" /\ fifo[s] = <<>>
      /\ has'[s] = IF x = "submit_mtx" THEN has[s] \ {"hw"} ELSE has[s]
      /\ todo'[s] = IF "submit_mtx" \in has[s] THEN DestroyOrder
                    ELSE IF x = "doorbell" THEN UndoDoorbell ELSE Locals
      /\ \A o \in Slots \ {s} : has'[o] = has[o] /\ phase'[o] = phase[o] /\ todo'[o] = todo[o]
  BY <1>1, <1>3 DEF QueueTypes, FifoOf, GiveUpInOrder
<1>5. QueueTypes'
  <2>1. has' \in [Slots -> SUBSET Things] /\ lost' \in Nat
    <3>1. has \in [Slots -> SUBSET Things] /\ lost \in Nat
      BY <1>3 DEF QueueTypes
    <3>2. CASE x = "submit_mtx"
      BY <1>1, <3>1, <3>2
    <3>3. CASE x # "submit_mtx"
      BY <1>1, <3>1, <3>3
    <3> QED BY <3>2, <3>3
  <2>2. DOMAIN todo' = Slots
    BY <1>1, <1>3 DEF QueueTypes, GiveUpInOrder
  <2>3. phase' = [phase EXCEPT ![s] = "undo"]
    BY <1>1 DEF GiveUpInOrder
  <2> QED BY <1>1, <1>3, <2>1, <2>2, <2>3 DEF QueueTypes
<1>6. HasOf(s)' /\ ("hw" \in has'[s] => "hw" \in has[s])
  <2>1. "submit_mtx" \notin has[s] =>
          /\ has[s] \subseteq LocalThings \cup {"hw"}
          /\ x \notin {"doorbell", "submit_mtx"} => "hw" \notin has[s]
    BY <1>2, MadeBehind
  <2>2. has'[s] \subseteq ToSet(todo'[s])
    <3>1. CASE "submit_mtx" \in has[s]
      BY <1>3, <1>4, <3>1, OrdersAre, ThingsAre
    <3>2. CASE "submit_mtx" \notin has[s] /\ x = "doorbell"
      BY <1>4, <2>1, <3>2, OrdersAre
    <3>3. CASE "submit_mtx" \notin has[s] /\ x # "doorbell"
      BY <1>4, <2>1, <3>3, OrdersAre
    <3> QED BY <3>1, <3>2, <3>3
  <2> QED BY <1>4, <2>2 DEF HasOf
<1>7. TodoOf(s)' /\ FifoOf(s)'
  BY <1>1, <1>3, <1>4 DEF TodoOf, FifoOf
<1>8. Alive(s)'
  <2>1. "submit_mtx" \in has[s] => x # "submit_mtx"
    BY <1>1 DEF Making1, First
  <2>2. /\ HardwareUses(s)' = HardwareUses(s)
        /\ "hw" \notin HardwareUses(s)
    BY <1>1, <1>3, <1>4 DEF HardwareUses
  <2> QED BY <1>3, <1>4, <2>2 DEF Alive
<1> QED BY <1>1, <1>3, <1>4, <1>5, <1>6, <1>7, <1>8, OneSlot

(* One thing is given up: with the queue go its commands, and what it used *)
(* comes behind it.                                                        *)
LEMMA GiveUpKeeps ==
  ASSUME QueueInv, NEW s \in Slots, GiveUp(s) PROVE QueueInv'
<1>1. PICK x \in Things :
        /\ First(x, todo[s], has[s])
        /\ has' = [has EXCEPT ![s] = @ \ {x}]
        /\ fifo' = IF x = "hw" THEN [fifo EXCEPT ![s] = <<>>] ELSE fifo
        /\ UNCHANGED <<phase, todo, tries, doorbells, source, lost>>
  BY DEF GiveUp
<1>2. QueueTypes /\ TodoOf(s) /\ HasOf(s) /\ FifoOf(s) /\ Alive(s)
  BY DEF QueueInv
<1>3. /\ has'[s] = has[s] \ {x} /\ x \in has[s]
      /\ fifo'[s] = IF x = "hw" THEN <<>> ELSE fifo[s]
      /\ \A o \in Slots \ {s} : has'[o] = has[o] /\ fifo'[o] = fifo[o]
  BY <1>1, <1>2 DEF QueueTypes, First
<1>4. /\ phase[s] \in {"undo", "dying", "assigned"} /\ has[s] \subseteq ToSet(todo[s])
      /\ todo[s] \in {DestroyOrder, AssignOrder, UndoDoorbell, Locals}
      /\ todo[s] = AssignOrder => phase[s] = "assigned" \/ todo[s] = DestroyOrder
  <2>1. todo[s] # <<>>
    BY <1>1 DEF First
  <2>2. DestroyOrder[1] # AssignOrder[1] /\ Locals[1] # AssignOrder[1]
        /\ UndoDoorbell[1] # AssignOrder[1]
    BY OrdersAre DEF DestroyOrder, AssignOrder, Locals
  <2>3. phase[s] \in {"empty", "making", "live", "undo", "dying", "assigned", "source"}
    BY <1>2 DEF QueueTypes
  <2>4. phase[s] \in {"undo", "dying", "assigned"}
    BY <1>2, <2>1, <2>3 DEF TodoOf
  <2> QED BY <1>2, <2>2, <2>4 DEF TodoOf, HasOf
<1>5. /\ "hw" \in has[s] => x \in {"eop_seq", "err_watch", "scratch_watch", "hw"}
      /\ "hw" \in has[s] /\ x = "eop_seq" => todo[s] = AssignOrder
      /\ "scratch_watch" \in has[s] => x \in {"eop_seq", "err_watch", "scratch_watch"}
      /\ "err_watch" \in has[s] => x \in {"eop_seq", "err_watch"}
  BY <1>1, <1>4, FirstGone
<1>6. QueueTypes'
  <2>1. has' \in [Slots -> SUBSET Things] /\ DOMAIN fifo' = Slots
    BY <1>1, <1>2 DEF QueueTypes
  <2> QED BY <1>1, <1>2, <2>1 DEF QueueTypes
<1>7. TodoOf(s)' /\ HasOf(s)'
  BY <1>1, <1>2, <1>3, <1>4 DEF TodoOf, HasOf
<1>8. FifoOf(s)'
  <2>1. <<>> \in Seq(Command) /\ Len(<<>>) <= MaxCommands
    BY QueueLifeAssumption
  <2>2. phase'[s] = phase[s] /\ fifo'[s] \in {<<>>, fifo[s]}
    BY <1>1, <1>3
  <2> QED BY <1>2, <1>3, <2>1, <2>2 DEF FifoOf
<1>9. Alive(s)'
  <2>1. CASE "hw" \in has'[s]
    <3>1. HardwareUses(s)' = HardwareUses(s) /\ HardwareUses(s) \subseteq has[s]
      BY <1>1, <1>2, <1>3, <2>1 DEF HardwareUses, Alive
    <3>2. x \notin HardwareUses(s)
      <4>1. x = "eop_seq" => phase[s] = "assigned"
        <5>1. DestroyOrder # AssignOrder
          BY DEF DestroyOrder, AssignOrder
        <5> QED BY <1>3, <1>4, <1>5, <2>1, <5>1
      <4> QED BY <1>3, <1>5, <2>1, <4>1 DEF HardwareUses
    <3> QED BY <1>2, <1>3, <1>5, <3>1, <3>2 DEF Alive
  <2>2. CASE "hw" \notin has'[s]
    BY <1>2, <1>3, <1>5, <2>2 DEF Alive
  <2> QED BY <2>1, <2>2
<1> QED BY <1>1, <1>3, <1>6, <1>7, <1>8, <1>9, OneSlot

(* What changes only how far a slot is.                                    *)
LEMMA PhaseKeeps ==
  ASSUME QueueInv, NEW s \in Slots,
         \/ Begin(s) \/ RetryHardware(s) \/ Complete(s) \/ Destroy(s)
         \/ GaveUp(s)
  PROVE  QueueInv'
<1>1. QueueTypes /\ TodoOf(s) /\ HasOf(s) /\ FifoOf(s) /\ Alive(s)
  BY DEF QueueInv
<1>2. ToSet(Making(s)) = Made(s, Len(Making(s))) /\ Len(Making(s)) \in Nat
  BY MakingIs
<1>3. CASE Begin(s)
  <2>1. 0 \in 0..MaxRetries /\ 0 \in 0..Len(Making(s)) /\ Made(s, 0) = {}
    BY <1>2, QueueLifeAssumption DEF Made
  <2>2. /\ phase[s] = "empty" /\ phase'[s] = "making" /\ has[s] = {} /\ fifo[s] = <<>>
        /\ \A o \in Slots \ {s} : phase'[o] = phase[o]
        /\ phase' \in [Slots -> {"empty", "making", "live", "undo", "dying", "assigned",
                        "source"}]
    BY <1>1, <1>3 DEF Begin, QueueTypes, HasOf, FifoOf
  <2>3. QueueTypes'
    BY <1>1, <1>3, <2>1, <2>2 DEF Begin, QueueTypes
  <2>4. TodoOf(s)' /\ HasOf(s)' /\ FifoOf(s)' /\ Alive(s)'
    BY <1>1, <1>3, <2>1, <2>2 DEF Begin, TodoOf, HasOf, FifoOf, Alive, Made
  <2> QED BY <1>3, <2>2, <2>3, <2>4, OneSlot DEF Begin
<1>4. CASE RetryHardware(s)
  <2>1. QueueTypes'
    <3>1. tries' \in [Slots -> 0..MaxRetries]
      BY <1>1, <1>4, QueueLifeAssumption DEF RetryHardware, QueueTypes
    <3> QED BY <1>1, <1>4, <3>1 DEF RetryHardware, QueueTypes
  <2>2. TodoOf(s)' /\ HasOf(s)' /\ FifoOf(s)' /\ Alive(s)'
    BY <1>1, <1>4 DEF RetryHardware, TodoOf, HasOf, FifoOf, Alive, Made, HardwareUses
  <2> QED BY <1>4, <2>1, <2>2, OneSlot DEF RetryHardware
<1>5. CASE Complete(s)
  <2>1. /\ phase[s] = "making" /\ phase'[s] = "live" /\ fifo[s] = <<>>
        /\ fifo'[s] = IF IsCompute(s) THEN <<<<"work">>>> ELSE <<>>
        /\ ToSet(Making(s)) \subseteq has[s]
        /\ \A o \in Slots \ {s} : phase'[o] = phase[o] /\ fifo'[o] = fifo[o]
        /\ DOMAIN fifo' = Slots
        /\ phase' \in [Slots -> {"empty", "making", "live", "undo", "dying", "assigned",
                        "source"}]
    BY <1>1, <1>5 DEF Complete, QueueTypes, FifoOf
  <2>2. QueueTypes'
    BY <1>1, <1>5, <2>1 DEF Complete, QueueTypes
  <2>3. TodoOf(s)' /\ HasOf(s)'
    BY <1>1, <1>5, <2>1 DEF Complete, TodoOf, HasOf
  <2>4. FifoOf(s)'
    <3>1. <<"work">> \in Command /\ <<<<"work">>>> \in Seq(Command) /\ Len(<<<<"work">>>>) = 1
      BY DEF Command
    <3>2. "hw" \in has[s]
      BY <2>1, MadeOf DEF Common
    <3> QED BY <1>1, <1>5, <2>1, <3>1, <3>2, QueueLifeAssumption DEF Complete, FifoOf
  <2>5. Alive(s)'
    <3>1. <<"waves">> \notin ToSet(fifo'[s])
      BY <2>1 DEF ToSet
    <3>2. /\ Common \subseteq has[s]
          /\ IsCompute(s) => Rest \subseteq has[s]
      BY <2>1, MadeOf
    <3>3. HardwareUses(s)' \subseteq has[s]
      <4>1. /\ {"control", "ring"} \subseteq has[s]
            /\ IsCompute(s) => {"eop", "cwsr", "eop_seq"} \subseteq has[s]
        BY <3>2 DEF Common, Rest
      <4>2. \A x \in HardwareUses(s)' :
              x \in {"control", "ring"} \/ (IsCompute(s) /\ x \in {"eop", "cwsr", "eop_seq"})
        BY <3>1 DEF HardwareUses
      <4> QED BY <4>1, <4>2
    <3> QED BY <1>1, <1>5, <3>3 DEF Alive, Complete
  <2> QED BY <1>5, <2>1, <2>2, <2>3, <2>4, <2>5, OneSlot DEF Complete
<1>6. CASE Destroy(s)
  <2>1. /\ phase[s] = "live" /\ phase'[s] = "dying" /\ todo'[s] = DestroyOrder
        /\ \A o \in Slots \ {s} : phase'[o] = phase[o] /\ todo'[o] = todo[o]
        /\ DOMAIN todo' = Slots
        /\ phase' \in [Slots -> {"empty", "making", "live", "undo", "dying", "assigned",
                        "source"}]
    BY <1>1, <1>6 DEF Destroy, GiveUpInOrder, QueueTypes
  <2>2. QueueTypes'
    BY <1>1, <1>6, <2>1 DEF Destroy, QueueTypes
  <2>3. has[s] \subseteq ToSet(DestroyOrder)
    BY <1>1, OrdersAre, ThingsAre DEF QueueTypes
  <2>4. TodoOf(s)' /\ HasOf(s)'
    BY <1>6, <2>1, <2>3 DEF Destroy, TodoOf, HasOf
  <2>5. FifoOf(s)'
    BY <1>1, <1>6, <2>1 DEF Destroy, FifoOf
  <2>6. Alive(s)'
    BY <1>1, <1>6, <2>1 DEF Destroy, Alive, HardwareUses
  <2> QED BY <1>6, <2>1, <2>2, <2>4, <2>5, <2>6, OneSlot DEF Destroy
<1>7. CASE GaveUp(s)
  <2>1. /\ phase[s] \in {"undo", "dying"} /\ phase'[s] = "empty" /\ todo'[s] = <<>>
        /\ \A o \in Slots \ {s} : phase'[o] = phase[o] /\ todo'[o] = todo[o]
        /\ DOMAIN todo' = Slots
        /\ phase' \in [Slots -> {"empty", "making", "live", "undo", "dying", "assigned",
                        "source"}]
    BY <1>1, <1>7 DEF GaveUp, GivenUp, QueueTypes
  <2>2. QueueTypes'
    BY <1>1, <1>7, <2>1 DEF GaveUp, QueueTypes
  <2>3. has[s] = {} /\ fifo[s] = <<>>
    <3>1. ToSet(todo[s]) \cap has[s] = {} /\ has[s] \subseteq ToSet(todo[s])
      BY <1>1, <1>7, <2>1 DEF GaveUp, GivenUp, HasOf
    <3> QED BY <1>1, <3>1 DEF FifoOf
  <2>4. TodoOf(s)' /\ HasOf(s)' /\ FifoOf(s)' /\ Alive(s)'
    BY <1>1, <1>7, <2>1, <2>3 DEF GaveUp, TodoOf, HasOf, FifoOf, Alive
  <2> QED BY <1>7, <2>1, <2>2, <2>4, OneSlot DEF GaveUp
<1> QED BY <1>3, <1>4, <1>5, <1>6, <1>7

(* The fifo of a slot that has its queue moves on, or gets one more.       *)
LEMMA FifoKeeps ==
  ASSUME QueueInv, NEW s \in Slots, NEW q \in Seq(Command), Len(q) <= MaxCommands,
         fifo' = [fifo EXCEPT ![s] = q],
         UNCHANGED <<phase, todo, tries, doorbells, source, lost>>,
         \/ phase[s] = "live" /\ UNCHANGED has
            /\ (<<"waves">> \in ToSet(q) => <<"waves">> \in ToSet(fifo[s]))
         \/ fifo[s] # <<>> /\ UNCHANGED has
            /\ (<<"waves">> \in ToSet(q) => <<"waves">> \in ToSet(fifo[s]))
         \/ fifo[s] # <<>> /\ has' = [has EXCEPT ![s] = @ \cup {"scratch"}]
  PROVE  QueueInv'
<1>1. QueueTypes /\ TodoOf(s) /\ HasOf(s) /\ FifoOf(s) /\ Alive(s)
  BY DEF QueueInv
<1>2. /\ fifo'[s] = q /\ DOMAIN fifo' = Slots
      /\ has'[s] \in {has[s], has[s] \cup {"scratch"}}
      /\ \A o \in Slots \ {s} : has'[o] = has[o] /\ fifo'[o] = fifo[o]
  BY <1>1 DEF QueueTypes
<1>3. phase[s] \in {"live", "dying", "assigned", "source"} /\ "hw" \in has[s]
  <2>1. phase[s] = "live" => "hw" \in has[s]
    BY <1>1, MadeOf DEF HasOf, Common
  <2> QED BY <1>1, <2>1 DEF QueueTypes, FifoOf, HasOf
<1>4. QueueTypes'
  <2>1. has' \in [Slots -> SUBSET Things]
    BY <1>1, ThingsAre DEF QueueTypes
  <2> QED BY <1>1, <1>2, <2>1 DEF QueueTypes
<1>5. HasOf(s)'
  <2>1. "scratch" \in ToSet(DestroyOrder) /\ "scratch" \in ToSet(AssignOrder)
    BY OrdersAre
  <2> QED BY <1>1, <1>2, <1>3, <2>1 DEF HasOf, TodoOf
<1>6. TodoOf(s)' /\ FifoOf(s)'
  BY <1>1, <1>2, <1>3 DEF TodoOf, FifoOf
<1>7. Alive(s)'
  <2>1. phase[s] = "live" /\ IsCompute(s) => "eop_seq" \in has[s]
    BY <1>1, MadeOf DEF HasOf, Rest
  <2>2. HardwareUses(s)' \subseteq has'[s]
    <3>1. HardwareUses(s) \subseteq has[s]
      BY <1>1, <1>3 DEF Alive
    <3>2. ASSUME NEW x \in HardwareUses(s)' PROVE x \in has'[s]
      <4>1. \/ x \in {"control", "ring"} \/ (IsCompute(s) /\ x \in {"eop", "cwsr"})
            \/ IsCompute(s) /\ phase[s] # "assigned" /\ x = "eop_seq"
            \/ <<"waves">> \in ToSet(q) /\ x = "scratch"
        BY <1>2, <3>2 DEF HardwareUses
      <4>2. CASE x = "scratch" /\ <<"waves">> \in ToSet(q)
        <5>1. <<"waves">> \in ToSet(fifo[s]) => x \in HardwareUses(s)
          BY <4>2 DEF HardwareUses
        <5>2. has'[s] = has[s] \cup {"scratch"} \/ <<"waves">> \in ToSet(fifo[s])
          BY <1>1, <4>2 DEF QueueTypes
        <5> QED BY <1>2, <3>1, <4>2, <5>1, <5>2
      <4>3. CASE x = "eop_seq" /\ IsCompute(s) /\ phase[s] # "assigned"
        <5>1. fifo[s] # <<>> => x \in HardwareUses(s)
          BY <4>3 DEF HardwareUses
        <5> QED BY <1>2, <2>1, <3>1, <4>3, <5>1
      <4>4. CASE x \in {"control", "ring"} \/ (IsCompute(s) /\ x \in {"eop", "cwsr"})
        <5>1. x \in HardwareUses(s)
          BY <4>4 DEF HardwareUses
        <5> QED BY <1>2, <3>1, <5>1
      <4> QED BY <4>1, <4>2, <4>3, <4>4
    <3> QED BY <3>2
  <2> QED BY <1>1, <1>2, <2>2 DEF Alive
<1> QED BY <1>2, <1>4, <1>5, <1>6, <1>7, OneSlot

LEMMA PutKeeps ==
  ASSUME QueueInv, NEW s \in Slots, NEW z \in Command, z # <<"waves">>, Put(s, z)
  PROVE  QueueInv'
<1>1. fifo[s] \in Seq(Command) /\ DOMAIN fifo = Slots
  BY DEF QueueInv, QueueTypes, FifoOf
<1> DEFINE q == Append(fifo[s], z)
<1>2. /\ q \in Seq(Command) /\ Len(q) = Len(fifo[s]) + 1
      /\ \A x : In(q, x) <=> In(fifo[s], x) \/ x = z
  BY <1>1, Pushed
<1>3. Len(q) <= MaxCommands
  BY <1>1, <1>2, QueueLifeAssumption DEF Put
<1>4. <<"waves">> \in ToSet(q) => <<"waves">> \in ToSet(fifo[s])
  <2> HIDE DEF q
  <2> QED BY <1>2 DEF In, ToSet
<1> QED BY <1>1, <1>2, <1>3, <1>4, FifoKeeps DEF Put

LEMMA DoneKeeps ==
  ASSUME QueueInv, NEW s \in Slots, fifo[s] # <<>>, Done(s)
  PROVE  QueueInv'
<1>1. fifo[s] \in Seq(Command) /\ DOMAIN fifo = Slots /\ Len(fifo[s]) <= MaxCommands
  BY DEF QueueInv, QueueTypes, FifoOf
<1> DEFINE q == Tail(fifo[s])
<1>2. /\ q \in Seq(Command) /\ Len(q) = Len(fifo[s]) - 1
      /\ \A x : In(q, x) => In(fifo[s], x)
  BY <1>1, Popped
<1>3. Len(q) <= MaxCommands
  BY <1>1, <1>2, QueueLifeAssumption
<1>4. <<"waves">> \in ToSet(q) => <<"waves">> \in ToSet(fifo[s])
  <2> HIDE DEF q
  <2> QED BY <1>2 DEF In, ToSet
<1> QED BY <1>1, <1>2, <1>3, <1>4, FifoKeeps DEF Done

LEMMA ServeKeeps ==
  ASSUME QueueInv, NEW s \in Slots, ServeScratch(s) PROVE QueueInv'
<1>1. /\ fifo[s] \in Seq(Command) /\ DOMAIN fifo = Slots /\ Len(fifo[s]) <= MaxCommands
      /\ fifo[s] # <<>> /\ <<"waves">> \in Command
  BY DEF QueueInv, QueueTypes, FifoOf, ServeScratch, Next1, Command
<1> DEFINE q == [fifo[s] EXCEPT ![1] = <<"waves">>]
<1>2. q \in Seq(Command) /\ Len(q) = Len(fifo[s])
  BY <1>1, Served
<1>3. fifo' = [fifo EXCEPT ![s] = q]
  BY DEF ServeScratch
<1> QED BY <1>1, <1>2, <1>3, FifoKeeps DEF ServeScratch

(* All the things change hands.                                            *)
LEMMA TakeKeeps ==
  ASSUME QueueInv, NEW s \in Slots, NEW from \in Slots, s # from, SameType(s, from),
         phase[from] \in {"live", "source"}, Take(s, from),
         \/ phase[s] = "empty" /\ phase[from] = "live" /\ UNCHANGED source
         \/ phase[s] = "assigned" /\ source[s] = from /\ source' = [source EXCEPT ![s] = s]
  PROVE  QueueInv'
<1>1. QueueTypes /\ \A o \in Slots : TodoOf(o) /\ HasOf(o) /\ FifoOf(o) /\ Alive(o) /\ SourceOf(o)
  BY DEF QueueInv
<1>2. /\ phase'[s] = "live" /\ phase'[from] = "empty"
      /\ has'[s] = has[from] /\ has'[from] = {}
      /\ fifo'[s] = fifo[from] /\ fifo'[from] = <<>>
      /\ todo'[s] = <<>> /\ todo'[from] = todo[from]
      /\ \A o \in Slots \ {s, from} :
           /\ phase'[o] = phase[o] /\ has'[o] = has[o]
           /\ fifo'[o] = fifo[o] /\ todo'[o] = todo[o]
      /\ \A o \in Slots \ {s} : source'[o] = source[o]
  BY <1>1 DEF Take, QueueTypes
<1>3. Making(s) = Making(from)
  BY QueueLifeAssumption DEF SameType, IsCompute, Making, Slots
<1>4. QueueTypes'
  <2>1. phase' \in [Slots -> {"empty", "making", "live", "undo", "dying", "assigned", "source"}]
    BY <1>1 DEF Take, QueueTypes
  <2>2. has' \in [Slots -> SUBSET Things]
    BY <1>1 DEF Take, QueueTypes
  <2>3. DOMAIN todo' = Slots /\ DOMAIN fifo' = Slots /\ source' \in [Slots -> Slots]
    BY <1>1 DEF Take, QueueTypes
  <2> QED BY <1>1, <2>1, <2>2, <2>3 DEF Take, QueueTypes
<1>5. TodoOf(s)' /\ HasOf(s)' /\ FifoOf(s)' /\ Alive(s)'
  <2>1. HardwareUses(s)' = HardwareUses(from)
    BY <1>2 DEF HardwareUses, SameType
  <2> QED BY <1>1, <1>2, <1>3, <2>1 DEF TodoOf, HasOf, FifoOf, Alive
<1>6. TodoOf(from)' /\ HasOf(from)' /\ FifoOf(from)' /\ Alive(from)'
  <2>1. <<>> \in Seq(Command) /\ Len(<<>>) <= MaxCommands
    BY QueueLifeAssumption
  <2> QED BY <1>1, <1>2, <2>1 DEF TodoOf, HasOf, FifoOf, Alive
<1>7. ASSUME NEW o \in Slots \ {s, from}
      PROVE  TodoOf(o)' /\ HasOf(o)' /\ FifoOf(o)' /\ Alive(o)'
  BY <1>1, <1>2, <1>7 DEF TodoOf, HasOf, FifoOf, Alive, HardwareUses
<1>8. ASSUME NEW o \in Slots PROVE SourceOf(o)'
  <2> SUFFICES ASSUME phase'[o] = "assigned" PROVE SourceOf(o)'
    BY DEF SourceOf
  <2>1. o \notin {s, from} /\ phase[o] = "assigned" /\ source'[o] = source[o]
    BY <1>2
  <2>2. /\ source[o] # o /\ SameType(o, source[o]) /\ phase[source[o]] = "source"
        /\ source[o] \in Slots
        /\ \A p \in Slots : phase[p] = "assigned" /\ source[p] = source[o] => p = o
    BY <1>1, <2>1 DEF SourceOf, QueueTypes
  <2>3. source[o] # from /\ source[o] # s
    BY <2>1, <2>2
  <2>4. phase'[source[o]] = "source"
    BY <1>2, <2>2, <2>3
  <2>5. \A p \in Slots : phase'[p] = "assigned" => phase[p] = "assigned" /\ source'[p] = source[p]
    BY <1>2
  <2> QED BY <2>1, <2>2, <2>4, <2>5 DEF SourceOf, SameType
<1> QED BY <1>4, <1>5, <1>6, <1>7, <1>8 DEF QueueInv

LEMMA AssignKeeps ==
  ASSUME QueueInv, NEW s \in Slots, NEW from \in Slots, Assign(s, from)
  PROVE  QueueInv'
<1>1. QueueTypes /\ \A o \in Slots : TodoOf(o) /\ HasOf(o) /\ FifoOf(o) /\ Alive(o) /\ SourceOf(o)
  BY DEF QueueInv
<1>2. /\ s # from /\ SameType(s, from) /\ phase[s] = "live" /\ phase[from] = "live"
      /\ phase'[s] = "assigned" /\ phase'[from] = "source"
      /\ todo'[s] = AssignOrder /\ source'[s] = from
      /\ \A o \in Slots \ {s, from} : phase'[o] = phase[o]
      /\ \A o \in Slots \ {s} : todo'[o] = todo[o] /\ source'[o] = source[o]
      /\ UNCHANGED <<has, tries, fifo, doorbells, lost>>
  BY <1>1 DEF Assign, QueueTypes
<1>3. QueueTypes'
  <2>1. phase' \in [Slots -> {"empty", "making", "live", "undo", "dying", "assigned", "source"}]
    BY <1>1 DEF Assign, QueueTypes
  <2>2. DOMAIN todo' = Slots /\ source' \in [Slots -> Slots]
    BY <1>1 DEF Assign, QueueTypes
  <2> QED BY <1>1, <1>2, <2>1, <2>2 DEF QueueTypes
<1>4. TodoOf(s)' /\ HasOf(s)' /\ FifoOf(s)' /\ Alive(s)'
  <2>1. has[s] \subseteq ToSet(AssignOrder)
    BY <1>1, OrdersAre, ThingsAre DEF QueueTypes
  <2>2. HardwareUses(s)' \subseteq HardwareUses(s)
    BY <1>2 DEF HardwareUses
  <2> QED BY <1>1, <1>2, <2>1, <2>2 DEF TodoOf, HasOf, FifoOf, Alive
<1>5. ASSUME NEW o \in Slots \ {s}
      PROVE  TodoOf(o)' /\ HasOf(o)' /\ FifoOf(o)' /\ Alive(o)'
  <2>1. phase'[o] = phase[o] \/ (phase[o] = "live" /\ phase'[o] = "source")
    BY <1>2
  <2>2. HardwareUses(o)' = HardwareUses(o)
    BY <1>2, <2>1 DEF HardwareUses
  <2> QED BY <1>1, <1>2, <2>1, <2>2 DEF TodoOf, HasOf, FifoOf, Alive
<1>6. ASSUME NEW o \in Slots PROVE SourceOf(o)'
  <2>1. CASE o = s
    <3>1. \A p \in Slots \ {s} : phase'[p] = "assigned" => phase[p] = "assigned" /\ source'[p] = source[p]
      BY <1>2
    <3>2. \A p \in Slots \ {s} : phase'[p] = "assigned" => source'[p] # from
      BY <1>1, <1>2, <3>1 DEF SourceOf
    <3> QED BY <1>2, <2>1, <3>2 DEF SourceOf, SameType
  <2>2. CASE o # s /\ phase'[o] = "assigned"
    <3>1. phase[o] = "assigned" /\ source'[o] = source[o]
      BY <1>2, <2>2
    <3>2. /\ source[o] # o /\ SameType(o, source[o]) /\ phase[source[o]] = "source"
          /\ source[o] \in Slots
          /\ \A p \in Slots : phase[p] = "assigned" /\ source[p] = source[o] => p = o
      BY <1>1, <3>1 DEF SourceOf, QueueTypes
    <3>3. source[o] # s /\ source[o] # from
      BY <1>2, <3>2
    <3>4. \A p \in Slots \ {s} : phase'[p] = "assigned" => phase[p] = "assigned" /\ source'[p] = source[p]
      BY <1>2
    <3> QED BY <1>2, <3>1, <3>2, <3>3, <3>4 DEF SourceOf, SameType
  <2> QED BY <2>1, <2>2 DEF SourceOf
<1> QED BY <1>3, <1>4, <1>5, <1>6 DEF QueueInv

LEMMA QueueCallKeeps ==
  ASSUME QueueInv, NEW s \in Slots, QueueCall(s) PROVE QueueInv'
<1>1. CASE Acquire(s)
  <2>1. PICK x \in Things : Making1(s, x) /\ has' = [has EXCEPT ![s] = @ \cup {x}]
    BY <1>1 DEF Acquire
  <2>2. doorbells' \in BOOLEAN /\ UNCHANGED <<phase, todo, tries, fifo, source, lost>>
    BY <1>1 DEF Acquire, QueueInv, QueueTypes
  <2> QED BY <2>1, <2>2, GetsKeeps
<1>2. CASE CreateHardware(s) \/ FindDoorbell(s)
  <2>1. {"hw", "doorbell"} \subseteq Things
    BY ThingsAre, MadeOf DEF Common
  <2>2. /\ doorbells' \in BOOLEAN /\ UNCHANGED <<phase, todo, tries, fifo, source, lost>>
        /\ \E x \in Things : Making1(s, x) /\ has' = [has EXCEPT ![s] = @ \cup {x}]
    BY <1>2, <2>1 DEF CreateHardware, FindDoorbell, QueueInv, QueueTypes
  <2> QED BY <2>2, GetsKeeps
<1>3. CASE Assigned(s)
  <2> DEFINE from == source[s]
  <2>1. /\ from \in Slots /\ s # from /\ SameType(s, from) /\ phase[from] = "source"
        /\ phase[s] = "assigned"
    BY <1>3 DEF Assigned, GivenUp, QueueInv, QueueTypes, SourceOf
  <2> QED BY <1>3, <2>1, TakeKeeps DEF Assigned
<1> QED BY <1>1, <1>2, <1>3, PhaseKeeps, FailsKeeps, GiveUpKeeps DEF QueueCall

LEMMA DeviceKeeps ==
  ASSUME QueueInv, NEW s \in Slots, DeviceStep(s) PROVE QueueInv'
  BY DoneKeeps, ServeKeeps DEF DeviceStep, Execute, Next1

LEMMA SubmitKeeps ==
  ASSUME QueueInv, NEW s \in Slots, Submit(s) PROVE QueueInv'
<1>1. /\ <<"work">> \in Command /\ <<"kernel">> \in Command
      /\ <<"work">> # <<"waves">> /\ <<"kernel">> # <<"waves">>
  BY DEF Command
<1> QED BY <1>1, PutKeeps DEF Submit

LEMMA MoveKeeps ==
  ASSUME QueueInv, NEW s \in Slots, NEW from \in Slots, MoveInto(s, from) \/ Assign(s, from)
  PROVE  QueueInv'
<1>1. CASE MoveInto(s, from)
  BY <1>1, TakeKeeps DEF MoveInto
<1> QED BY <1>1, AssignKeeps

LEMMA QueueSafe ==
  QueueInv => QTypeOK /\ QueueMemoryAlive /\ WatchedAlive /\ QueueLeavesNothing
<1> SUFFICES ASSUME QueueInv
             PROVE  QTypeOK /\ QueueMemoryAlive /\ WatchedAlive /\ QueueLeavesNothing
  OBVIOUS
<1>1. QueueTypes /\ \A o \in Slots : TodoOf(o) /\ HasOf(o) /\ FifoOf(o) /\ Alive(o)
  BY DEF QueueInv
<1>2. QTypeOK
  <2>1. ASSUME NEW s \in Slots PROVE ToSet(todo[s]) \subseteq Things
    <3>1. todo[s] \in {<<>>, DestroyOrder, AssignOrder, Locals, UndoDoorbell}
      BY <1>1 DEF TodoOf, QueueTypes
    <3>2. PICK c \in ComputeSlots : c \in Slots
      BY LoaderAssumption DEF Slots
    <3>3. Common \cup Rest \subseteq Things
      BY <3>2, MadeOf, ThingsAre DEF IsCompute
    <3>4. LocalThings \cup {"hw"} \subseteq Common \cup Rest
      BY DEF LocalThings, Common, Rest
    <3>5. ToSet(<<>>) = {}
      BY DEF ToSet
    <3> QED BY <3>1, <3>3, <3>4, <3>5, OrdersAre, ThingsAre
  <2> QED BY <1>1, <2>1 DEF QTypeOK, QueueTypes, FifoOf
<1>3. QueueMemoryAlive /\ WatchedAlive
  BY <1>1 DEF QueueMemoryAlive, WatchedAlive, Alive
<1>4. QueueLeavesNothing
  <2> SUFFICES ASSUME NEW s \in Slots,
                      phase[s] = "empty" \/ GivenUp(s, {"undo", "dying", "assigned"})
               PROVE  has[s] = {} /\ fifo[s] = <<>>
    BY DEF QueueLeavesNothing
  <2>1. has[s] = {}
    BY <1>1 DEF GivenUp, HasOf
  <2> QED BY <1>1, <2>1 DEF FifoOf
<1> QED BY <1>2, <1>3, <1>4

-----------------------------------------------------------------------------
(* The commands of the load among those of the fifos.                      *)
LEMMA Commands ==
  /\ LoaderCommands \subseteq Command
  /\ {<<"wait">>, <<"acquire">>, <<"signal">>} \subseteq LoaderCommands
  /\ \A c \in Chunks : <<"copy", c>> \in LoaderCommands
  /\ \A x \in LoaderCommands :
       \/ x \in {<<"wait">>, <<"acquire">>, <<"signal">>}
       \/ \E c \in Chunks : x = <<"copy", c>>
  /\ \A c \in Chunks :
       <<"copy", c>> \notin {<<"wait">>, <<"acquire">>, <<"signal">>, <<"work">>,
                             <<"kernel">>, <<"waves">>}
  /\ \A c, d \in Chunks : <<"copy", c>> = <<"copy", d>> => c = d
  /\ <<"wait">> # <<"acquire">> /\ <<"wait">> # <<"signal">> /\ <<"acquire">> # <<"signal">>
  /\ {<<"work">>, <<"kernel">>, <<"waves">>}
       \cap {<<"wait">>, <<"acquire">>, <<"signal">>} = {}
  /\ \A x \in LoaderCommands : x \notin {<<"work">>, <<"kernel">>, <<"waves">>}
<1>1. \A c : <<"copy", c>> \notin {<<"wait">>, <<"acquire">>, <<"signal">>, <<"work">>,
                                   <<"kernel">>, <<"waves">>}
  <2>1. \A c : Len(<<"copy", c>>) = 2
    OBVIOUS
  <2>2. \A z : Len(<<z>>) = 1
    OBVIOUS
  <2> QED BY <2>1, <2>2
<1>2. \A c, d : <<"copy", c>> = <<"copy", d>> => c = d
  OBVIOUS
<1>3. \A y, z : <<y>> = <<z>> => y = z
  OBVIOUS
<1>4. /\ <<"wait">> # <<"acquire">> /\ <<"wait">> # <<"signal">> /\ <<"acquire">> # <<"signal">>
      /\ {<<"work">>, <<"kernel">>, <<"waves">>}
           \cap {<<"wait">>, <<"acquire">>, <<"signal">>} = {}
  BY <1>3
<1> QED BY <1>1, <1>2, <1>4 DEF LoaderCommands, Command

LEMMA Flight == InFlight <=> \E s \in Slots : \E x \in LoaderCommands : In(fifo[s], x)
  BY DEF InFlight, ToSet, In

Quiet(q, r) ==
  \A x \in LoaderCommands :
    /\ In(q, x) <=> In(r, x)
    /\ Once(q, x) => Once(r, x)
    /\ \A y \in LoaderCommands : Behind(q, x, y) => Behind(r, x, y)

(* Commands of others do not disturb those of the load ...                 *)
LEMMA QuietStep ==
  ASSUME QueueInv, NEW s \in Slots, Submit(s) \/ DeviceStep(s)
  PROVE  UNCHANGED phase /\ \A o \in Slots : Quiet(fifo[o], fifo'[o])
<1>1. fifo[s] \in Seq(Command) /\ DOMAIN fifo = Slots
  BY DEF QueueInv, QueueTypes, FifoOf
<1>2. /\ \A x \in LoaderCommands : x \notin {<<"work">>, <<"kernel">>, <<"waves">>}
      /\ {<<"work">>, <<"kernel">>, <<"waves">>} \subseteq Command
  BY Commands DEF Command
<1>3. \A o \in Slots : fifo'[o] = fifo[o] => Quiet(fifo[o], fifo'[o])
  BY DEF Quiet
<1>4. ASSUME NEW z \in {<<"work">>, <<"kernel">>}, Put(s, z) PROVE Quiet(fifo[s], fifo'[s])
  <2>1. fifo'[s] = Append(fifo[s], z)
    BY <1>1, <1>4 DEF Put
  <2>2. /\ \A x : In(Append(fifo[s], z), x) <=> In(fifo[s], x) \/ x = z
        /\ \A x : Once(fifo[s], x) /\ (x = z => ~In(fifo[s], x)) => Once(Append(fifo[s], z), x)
        /\ \A x, y : Behind(fifo[s], x, y) /\ x # z => Behind(Append(fifo[s], z), x, y)
    BY <1>1, <1>2, <1>4, Pushed
  <2>3. \A x \in LoaderCommands : x # z
    BY <1>2, <1>4
  <2> HIDE DEF Quiet
  <2> QED BY <2>1, <2>2, <2>3 DEF Quiet
<1>5. ASSUME NEW z \in {<<"work">>, <<"waves">>}, Next1(s, z), Done(s)
      PROVE  Quiet(fifo[s], fifo'[s])
  <2>1. fifo'[s] = Tail(fifo[s]) /\ fifo[s] # <<>> /\ Head(fifo[s]) = z
    BY <1>1, <1>5 DEF Done, Next1
  <2>2. /\ \A x : In(Tail(fifo[s]), x) => In(fifo[s], x)
        /\ \A x : In(fifo[s], x) => x = Head(fifo[s]) \/ In(Tail(fifo[s]), x)
        /\ \A x : Once(fifo[s], x) => Once(Tail(fifo[s]), x)
        /\ \A x, y : Behind(fifo[s], x, y) => Behind(Tail(fifo[s]), x, y)
    BY <1>1, <2>1, Popped
  <2>3. \A x \in LoaderCommands : x # z
    BY <1>2, <1>5
  <2> QED BY <2>1, <2>2, <2>3 DEF Quiet
<1>6. ASSUME ServeScratch(s) PROVE Quiet(fifo[s], fifo'[s])
  <2> DEFINE z == <<"waves">>
             q == [fifo[s] EXCEPT ![1] = z]
  <2>1. fifo'[s] = q /\ fifo[s] # <<>> /\ Head(fifo[s]) = <<"kernel">>
    BY <1>1, <1>6 DEF ServeScratch, Next1
  <2>2. /\ \A x : In(q, x) => In(fifo[s], x) \/ x = z
        /\ \A x : x # Head(fifo[s]) => (In(fifo[s], x) => In(q, x))
        /\ \A x : x # z => (Once(fifo[s], x) => Once(q, x))
        /\ \A x, y : x # z /\ y # Head(fifo[s]) /\ Behind(fifo[s], x, y) => Behind(q, x, y)
    BY <1>1, <1>2, <2>1, Served
  <2>3. \A x \in LoaderCommands : x # z /\ x # Head(fifo[s])
    BY <1>2, <2>1
  <2> HIDE DEF q, z
  <2> QED BY <2>1, <2>2, <2>3 DEF Quiet
<1>7. Quiet(fifo[s], fifo'[s])
  BY <1>4, <1>5, <1>6 DEF Submit, DeviceStep, Execute
<1>8. UNCHANGED phase /\ \A o \in Slots \ {s} : fifo'[o] = fifo[o]
  BY <1>1 DEF Submit, DeviceStep, Execute, ServeScratch, Put, Done
<1> QED BY <1>3, <1>7, <1>8

(* ... and no call on a queue brings one of them.                          *)
LEMMA NoneNew ==
  ASSUME QueueInv, ~InFlight, NEW s \in Slots, NEW from \in Slots,
         \/ Begin(s) \/ QueueCall(s) \/ Submit(s) \/ DeviceStep(s) \/ Destroy(s)
         \/ MoveInto(s, from) \/ Assign(s, from)
  PROVE  ~InFlight'
<1>1. \A o \in Slots : \A x \in LoaderCommands : ~In(fifo[o], x)
  BY Flight
<1>2. DOMAIN fifo = Slots /\ source[s] \in Slots
  BY DEF QueueInv, QueueTypes
<1>3. SUFFICES ASSUME NEW o \in Slots PROVE \A x \in LoaderCommands : ~In(fifo'[o], x)
  BY DEF InFlight, ToSet, In
<1>4. \A x : ~In(<<>>, x)
  BY DEF In
<1>5. CASE Submit(s) \/ DeviceStep(s)
  BY <1>1, <1>5, QuietStep DEF Quiet
<1>6. CASE Complete(s)
  <2>1. fifo'[o] \in {fifo[o], <<<<"work">>>>}
    BY <1>2, <1>6 DEF Complete
  <2>2. \A x : In(<<<<"work">>>>, x) => x = <<"work">>
    BY DEF In
  <2> QED BY <1>1, <2>1, <2>2, Commands
<1>7. CASE GiveUp(s)
  <2>1. fifo'[o] \in {fifo[o], <<>>}
    BY <1>2, <1>7 DEF GiveUp
  <2> QED BY <1>1, <1>4, <2>1
<1>8. ASSUME NEW p \in Slots, Take(s, p) PROVE \A x \in LoaderCommands : ~In(fifo'[o], x)
  <2>1. fifo'[o] \in {fifo[o], fifo[p], <<>>}
    BY <1>2, <1>8 DEF Take
  <2> QED BY <1>1, <1>4, <2>1
<1>9. CASE \/ Begin(s) \/ Acquire(s) \/ CreateHardware(s) \/ RetryHardware(s)
           \/ FindDoorbell(s) \/ Fails(s) \/ GaveUp(s) \/ Destroy(s) \/ Assign(s, from)
  <2>1. fifo' = fifo
    BY <1>9 DEF Begin, Acquire, CreateHardware, RetryHardware, FindDoorbell, Fails, GaveUp,
                Destroy, Assign
  <2> QED BY <1>1, <2>1
<1> QED BY <1>2, <1>5, <1>6, <1>7, <1>8, <1>9 DEF QueueCall, MoveInto, Assigned

-----------------------------------------------------------------------------
(* The steps of the load.                                                  *)
LEMMA RoundUp ==
  ASSUME NEW f \in Nat, NEW w \in Nat \ {0}, NEW v \in Nat, f <= v * w
  PROVE  /\ (f + w - 1) \div w \in 0..v
         /\ \A c \in 0..((f + w - 1) \div w) - 1 : c * w \in Nat /\ f - c * w \in Nat \ {0}
<1> DEFINE q == (f + w - 1) \div w
<1>1. q \in Int /\ f + w - 1 \in Nat
  OBVIOUS
<1>2. q * w <= f + w - 1 /\ f + w - 1 < (q + 1) * w
  OBVIOUS
<1> HIDE DEF q
<1>3. q >= 0
  <2>1. CASE q <= -1
    <3>1. (q + 1) * w <= 0
      BY <1>1, <2>1
    <3> QED BY <1>1, <1>2, <3>1
  <2> QED BY <1>1, <2>1
<1>4. q <= v
  <2>1. CASE q >= v + 1
    <3>1. q * w >= (v + 1) * w
      BY <1>1, <2>1
    <3>2. (v + 1) * w = v * w + w /\ v * w \in Nat /\ q * w \in Int
      BY <1>1
    <3> QED BY <1>1, <1>2, <3>1, <3>2
  <2> QED BY <1>1, <2>1
<1>5. ASSUME NEW c \in 0..q - 1 PROVE c * w \in Nat /\ f - c * w \in Nat \ {0}
  <2>1. c * w \in Nat /\ q * w \in Int /\ (c + 1) * w = c * w + w
    BY <1>1
  <2>2. (c + 1) * w <= q * w
    BY <1>1, <1>5
  <2> QED BY <1>1, <1>2, <2>1, <2>2
<1> QED BY <1>1, <1>3, <1>4, <1>5 DEF q

LEMMA ChunksFit ==
  ASSUME NEW i \in Images, Acceptable(i, Dev)
  PROVE  /\ ChunksOf(i) \in 0..VramChunks
         /\ \A c \in 0..ChunksOf(i) - 1 :
              /\ c \in Chunks
              /\ c * ChunkWords \in Nat /\ Footprint(i) - c * ChunkWords \in Nat \ {0}
<1> DEFINE f == Footprint(i)
<1>1. /\ f \in 0..(VramChunks * ChunkWords) /\ VramChunks \in Nat
      /\ ChunkWords \in Nat \ {0} /\ VramChunks * ChunkWords \in Nat
  BY LoaderAssumption
<1> HIDE DEF f
<1>2. f \in Nat /\ f <= VramChunks * ChunkWords
  BY <1>1
<1>3. /\ (f + ChunkWords - 1) \div ChunkWords \in 0..VramChunks
      /\ \A c \in 0..((f + ChunkWords - 1) \div ChunkWords) - 1 :
           c * ChunkWords \in Nat /\ f - c * ChunkWords \in Nat \ {0}
  BY <1>1, <1>2, RoundUp
<1>4. ChunksOf(i) = (f + ChunkWords - 1) \div ChunkWords
  BY DEF ChunksOf, f
<1> HIDE DEF ChunksOf
<1> QED BY <1>1, <1>3, <1>4 DEF f, Chunks

LEMMA LoadInit == LInit => LoadInv
<1> SUFFICES ASSUME LInit PROVE LoadInv
  OBVIOUS
<1>1. img \in Images /\ sdma \in Slots /\ compute \in Slots
  BY LoaderAssumption DEF LInit, AtEnd, Slots
<1> QED BY <1>1, LoaderAssumption DEF LInit, LoadInv, LoadTypes, Early, Submits

LEMMA EndsKeeps == LoadInv /\ Ends => LoadInv'
<1> SUFFICES ASSUME LoadInv, Ends PROVE LoadInv'
  OBVIOUS
<1>1. img' \in Images /\ sdma' \in Slots /\ compute' \in Slots
  BY LoaderAssumption DEF Ends, AtEnd, Slots
<1>2. fence' \in 0..2 /\ next' \in 0..VramChunks
  BY LoaderAssumption DEF Ends, LoadInv, LoadTypes
<1> QED BY <1>1, <1>2 DEF Ends, LoadInv, LoadTypes, Early, Submits

(* While no load is under way the queues may do what brings none of its    *)
(* commands back.                                                          *)
LEMMA LoadRests ==
  ASSUME LoadInv, UNCHANGED lvars, at \in {"idle", "loaded"}, ~InFlight => ~InFlight'
  PROVE  LoadInv'
  BY DEF LoadInv, LoadTypes, Coherent, Early, Submits, lvars

(* Under way, what leaves its commands alone.                              *)
LEMMA LoadUndisturbed ==
  ASSUME LoadInv, UNCHANGED lvars, UNCHANGED phase,
         \A o \in Slots : Quiet(fifo[o], fifo'[o])
  PROVE  LoadInv'
<1>1. InFlight <=> InFlight'
  <2>1. InFlight' <=> \E s \in Slots : \E x \in LoaderCommands : In(fifo'[s], x)
    BY DEF InFlight, ToSet, In
  <2> QED BY <2>1, Flight DEF Quiet
<1>2. LoadTypes' /\ (LoadQueues => LoadQueues') /\ (Coherent => Coherent')
  BY DEF LoadInv, LoadTypes, LoadQueues, Coherent, lvars
<1>3. Quiet(fifo[sdma], fifo'[sdma]) /\ Quiet(fifo[compute], fifo'[compute])
  BY DEF LoadInv, LoadTypes
<1>4. \A x \in LoaderCommands : /\ InSdma(x) <=> InSdma(x)'
                                /\ InCompute(x) <=> InCompute(x)'
  BY <1>3 DEF Quiet, InSdma, InCompute, lvars
<1>5. Stream => Stream'
  <2> SUFFICES ASSUME Stream PROVE Stream'
    OBVIOUS
  <2>1. /\ UNCHANGED <<at, sdma, compute, next>>
        /\ {<<"wait">>, <<"acquire">>, <<"signal">>} \subseteq LoaderCommands
        /\ \A c \in Chunks : <<"copy", c>> \in LoaderCommands
    BY Commands DEF lvars
  <2>2. \A x, y \in LoaderCommands :
          /\ Once(fifo[sdma], x) => Once(fifo'[sdma], x)
          /\ Once(fifo[compute], x) => Once(fifo'[compute], x)
          /\ Behind(fifo[sdma], x, y) => Behind(fifo'[sdma], x, y)
          /\ Behind(fifo[compute], x, y) => Behind(fifo'[compute], x, y)
    BY <1>3 DEF Quiet
  <2> QED BY <1>4, <2>1, <2>2 DEF Stream
<1>6. FenceCounts => FenceCounts'
  BY <1>4, Commands DEF FenceCounts, lvars
<1>7. Copied => Copied'
  <2> SUFFICES ASSUME Copied PROVE Copied'
    OBVIOUS
  <2>1. \A c \in 0..next - 1 : c \in Chunks
    BY LoaderAssumption DEF LoadInv, LoadTypes, Chunks
  <2> QED BY <1>4, <2>1, Commands DEF Copied, lvars
<1>8. Ordered => Ordered'
  BY <1>2, <1>4, Commands DEF Ordered, lvars
<1> QED BY <1>1, <1>2, <1>5, <1>6, <1>7, <1>8 DEF LoadInv, lvars

LEMMA BeginKeeps ==
  ASSUME LoadInv, BeginLoad PROVE LoadInv'
<1>1. PICK i \in Images, s \in SdmaSlots, c \in ComputeSlots :
        Load(i, s, c) /\ \A o \in Slots \ {s, c} : phase[o] = "empty"
  BY DEF BeginLoad
<1>2. s \in Slots /\ c \in Slots /\ 0 \in 0..VramChunks
  BY LoaderAssumption DEF Slots
<1>3. LoadTypes'
  BY <1>1, <1>2 DEF Load, Go, LoadInv, LoadTypes, Early
<1>4. ~InFlight'
  BY <1>1 DEF Load, InFlight, qvars
<1>5. LoadQueues'
  BY <1>1 DEF Load, LoadQueues, qvars
<1>6. at' = "image" /\ next' = 0 /\ Acceptable(img', Dev)
  BY <1>1 DEF Load, Go
<1> QED BY <1>3, <1>4, <1>5, <1>6 DEF LoadInv, Early, Submits

(* Before the first command.                                               *)
LEMMA EarlyKeeps ==
  ASSUME LoadInv,
         \/ Get("image", "staging", "image") \/ Get("staging", "pinned", "staging")
         \/ Get("pinned", "fill", "pinned") \/ Fill \/ CreateSignal
  PROVE  LoadInv'
<1>1. /\ at \in Early /\ LoadQueues /\ next = 0 /\ ~InFlight /\ Acceptable(img, Dev)
      /\ UNCHANGED <<img, sdma, compute, next, vram, cache, qvars>>
  BY DEF LoadInv, Early, Submits, Get, Fill, CreateSignal, Go
<1>2. ~InFlight' /\ LoadQueues' /\ Acceptable(img', Dev)
  BY <1>1 DEF InFlight, LoadQueues, qvars
<1>3. LoadTypes'
  <2>1. at' \in Early \cup {"copy"} /\ fence' \in {fence, 2}
    BY DEF Early, Get, Fill, CreateSignal, Go, InitialFence
  <2>2. holds' \subseteq holds \cup {"image", "staging", "pinned", "signal"}
    BY DEF Get, Fill, CreateSignal
  <2> QED BY <1>1, <2>1, <2>2 DEF LoadInv, LoadTypes, Early, Submits
<1>4. CASE ~CreateSignal
  BY <1>1, <1>2, <1>3, <1>4 DEF LoadInv, Early, Submits, Get, Fill, Go
<1>5. CASE CreateSignal
  <2>1. /\ at' = "copy" /\ fence' = 2 /\ holds' = holds \cup {"signal"} /\ at = "signal"
        /\ fifo' = fifo
    BY <1>5 DEF CreateSignal, Go, InitialFence, qvars
  <2>2. \A x \in LoaderCommands : ~In(fifo[sdma], x) /\ ~In(fifo[compute], x)
    BY <1>1, Flight DEF LoadInv, LoadTypes
  <2>3. Stream'
    <3>1. \A x \in LoaderCommands : ~InSdma(x)' /\ ~InCompute(x)'
      BY <1>1, <2>1, <2>2 DEF InSdma, InCompute
    <3>2. \A x \in LoaderCommands : Once(fifo[sdma], x) /\ Once(fifo[compute], x)
      BY <2>2 DEF In, Once
    <3> QED BY <1>1, <2>1, <3>1, <3>2, Commands DEF Stream
  <2>4. FenceCounts'
    <3>1. ~InSdma(<<"signal">>)' /\ ~InCompute(<<"signal">>)'
      BY <1>1, <2>1, <2>2, Commands DEF InSdma, InCompute
    <3> QED BY <2>1, <3>1 DEF FenceCounts
  <2>5. Copied'
    <3>1. ChunksOf(img) \in Nat
      BY <1>1, ChunksFit DEF LoadInv, LoadTypes
    <3> QED BY <1>1, <2>1, <3>1 DEF Copied
  <2>6. Ordered'
    BY <2>1 DEF Ordered
  <2> QED BY <1>1, <1>2, <1>3, <2>1, <2>3, <2>4, <2>5, <2>6 DEF LoadInv, Early, Submits
<1> QED BY <1>4, <1>5

(* A step while commands are submitted: what remains to show of it.        *)
LEMMA SubmitsKeep ==
  ASSUME LoadInv, at \in Submits, at' \in Submits, UNCHANGED <<img, sdma, compute, holds, phase>>,
         next' \in 0..VramChunks, fence' \in 0..2, DOMAIN vram' = Chunks, DOMAIN cache' = Chunks,
         Stream', FenceCounts', Copied', Ordered'
  PROVE  LoadInv'
<1>1. /\ LoadQueues' /\ LoadTypes' /\ Acceptable(img', Dev) /\ Fillable(img')
      /\ {"image", "staging", "pinned"} \subseteq holds'
  BY DEF LoadInv, LoadQueues, LoadTypes, Submits, Early
<1> QED BY <1>1 DEF LoadInv, Submits, Early

LEMMA UnderWay ==
  ASSUME QueueInv, LoadInv, at \in Submits
  PROVE  /\ LoadTypes /\ LoadQueues /\ Stream /\ FenceCounts /\ Copied /\ Ordered
         /\ DOMAIN fifo = Slots /\ sdma \in Slots /\ compute \in Slots /\ sdma # compute
         /\ fifo[sdma] \in Seq(Command) /\ fifo[compute] \in Seq(Command)
         /\ \A o \in Slots \ {sdma, compute} : fifo[o] = <<>>
         /\ VramChunks \in Nat /\ ChunksOf(img) \in 0..VramChunks
         /\ \A c \in 0..ChunksOf(img) - 1 : c \in Chunks
<1>1. /\ LoadTypes /\ LoadQueues /\ Stream /\ FenceCounts /\ Copied /\ Ordered
      /\ Acceptable(img, Dev)
  BY DEF LoadInv, Submits
<1>2. sdma \in Slots /\ compute \in Slots /\ sdma # compute
  BY <1>1, QueueLifeAssumption DEF LoadQueues, Slots
<1>3. DOMAIN fifo = Slots /\ \A o \in Slots : FifoOf(o) /\ HasOf(o)
  BY DEF QueueInv, QueueTypes
<1>4. \A o \in Slots \ {sdma, compute} : fifo[o] = <<>>
  BY <1>1, <1>3 DEF LoadQueues, FifoOf, HasOf
<1>5. fifo[sdma] \in Seq(Command) /\ fifo[compute] \in Seq(Command)
  BY <1>2, <1>3 DEF FifoOf
<1>6. /\ ChunksOf(img) \in 0..VramChunks
      /\ \A c \in 0..ChunksOf(img) - 1 : c \in Chunks
  BY <1>1, ChunksFit DEF LoadTypes
<1> QED BY <1>1, <1>2, <1>3, <1>4, <1>5, <1>6, LoaderAssumption

LEMMA CopyChunkKeeps ==
  ASSUME QueueInv, LoadInv, CopyChunk PROVE LoadInv'
<1>1. at = "copy" /\ at \in Submits /\ at' = at
  BY DEF CopyChunk, Submits
<1>2. /\ LoadTypes /\ Stream /\ FenceCounts /\ Copied /\ Ordered
      /\ DOMAIN fifo = Slots /\ sdma \in Slots /\ compute \in Slots /\ sdma # compute
      /\ fifo[sdma] \in Seq(Command)
      /\ ChunksOf(img) \in 0..VramChunks /\ VramChunks \in Nat
  BY <1>1, UnderWay
<1> DEFINE z == <<"copy", next>>
<1>3. next \in Nat /\ next < ChunksOf(img) /\ next' = next + 1 /\ next \in Chunks
  BY <1>2 DEF CopyChunk, LoadTypes, Chunks
<1>4. fifo'[sdma] = Append(fifo[sdma], z) /\ fifo'[compute] = fifo[compute]
  BY <1>2 DEF CopyChunk, Put
<1>5. z \in Command /\ z \in LoaderCommands
      /\ z \notin {<<"wait">>, <<"acquire">>, <<"signal">>}
      /\ \A c \in Chunks : <<"copy", c>> = z => c = next
  BY <1>3, Commands
<1> HIDE DEF z
<1>6. /\ \A x : In(Append(fifo[sdma], z), x) <=> In(fifo[sdma], x) \/ x = z
      /\ \A x : Once(fifo[sdma], x) /\ (x = z => ~In(fifo[sdma], x)) => Once(Append(fifo[sdma], z), x)
  BY <1>2, <1>5, Pushed
<1>7. /\ UNCHANGED <<at, img, sdma, compute, holds, fence, vram, cache, phase>>
      /\ \A x : InSdma(x)' <=> InSdma(x) \/ x = z
      /\ \A x : InCompute(x)' <=> InCompute(x)
  BY <1>4, <1>6 DEF CopyChunk, Put, InSdma, InCompute
<1>8. Stream'
  <2>1. Once(fifo'[sdma], <<"signal">>)
    BY <1>2, <1>4, <1>5, <1>6 DEF Stream
  <2>2. \A c \in Chunks : InSdma(<<"copy", c>>)' => c < next'
    BY <1>2, <1>3, <1>5, <1>7 DEF Stream, Chunks
  <2> QED BY <1>1, <1>2, <1>4, <1>5, <1>7, <2>1, <2>2 DEF Stream
<1>9. FenceCounts'
  BY <1>1, <1>2, <1>7 DEF FenceCounts
<1>10. Copied'
  <2>1. next' \in 0..ChunksOf(img)
    BY <1>2, <1>3
  <2>2. ASSUME NEW c \in 0..next' - 1, ~InSdma(<<"copy", c>>)' PROVE vram'[c] = Chunk(img, c)
    <3>1. c # next
      BY <1>7, <2>2 DEF z
    <3>2. c \in 0..next - 1
      BY <1>3, <3>1
    <3> QED BY <1>2, <1>7, <2>2, <3>2 DEF Copied
  <2> QED BY <1>1, <1>7, <2>1, <2>2 DEF Copied
<1>11. Ordered'
  BY <1>1 DEF Ordered
<1>12. next' \in 0..VramChunks
  BY <1>2, <1>3
<1> QED BY <1>1, <1>2, <1>7, <1>8, <1>9, <1>10, <1>11, <1>12, SubmitsKeep DEF LoadTypes

LEMMA AllCopiedKeeps ==
  ASSUME QueueInv, LoadInv, AllCopied PROVE LoadInv'
<1>1. at = "copy" /\ at \in Submits /\ at' = "sdmaSignal" /\ at' \in Submits
  BY DEF AllCopied, Go, Submits
<1>2. LoadTypes /\ Stream /\ FenceCounts /\ Copied
  BY <1>1, UnderWay
<1>3. /\ next = ChunksOf(img)
      /\ UNCHANGED <<img, sdma, compute, holds, next, fence, vram, cache, phase, fifo>>
  BY DEF AllCopied, qvars
<1>4. \A x : (InSdma(x)' <=> InSdma(x)) /\ (InCompute(x)' <=> InCompute(x))
  BY <1>3 DEF InSdma, InCompute
<1>5. Stream'
  BY <1>1, <1>2, <1>3, <1>4 DEF Stream
<1>6. FenceCounts' /\ Ordered'
  BY <1>1, <1>2, <1>3, <1>4 DEF FenceCounts, Ordered
<1>7. Copied'
  BY <1>1, <1>2, <1>3, <1>4 DEF Copied
<1> QED BY <1>1, <1>2, <1>3, <1>5, <1>6, <1>7, SubmitsKeep DEF LoadTypes

LEMMA SdmaSignalKeeps ==
  ASSUME QueueInv, LoadInv, SubmitTo(sdma, "sdmaSignal", "wait", <<"signal">>)
  PROVE  LoadInv'
<1>1. at = "sdmaSignal" /\ at \in Submits /\ at' = "wait" /\ at' \in Submits
  BY DEF SubmitTo, Go, Submits
<1>2. /\ LoadTypes /\ Stream /\ FenceCounts /\ Copied /\ Ordered
      /\ DOMAIN fifo = Slots /\ sdma \in Slots /\ compute \in Slots /\ sdma # compute
      /\ fifo[sdma] \in Seq(Command)
      /\ ChunksOf(img) \in 0..VramChunks /\ VramChunks \in Nat
      /\ \A c \in 0..ChunksOf(img) - 1 : c \in Chunks
  BY <1>1, UnderWay
<1> DEFINE z == <<"signal">>
<1>3. fifo'[sdma] = Append(fifo[sdma], z) /\ fifo'[compute] = fifo[compute]
  BY <1>2 DEF SubmitTo, Put
<1>4. /\ z \in Command /\ z # <<"wait">> /\ z # <<"acquire">>
      /\ \A c \in Chunks : <<"copy", c>> # z
  BY Commands
<1> HIDE DEF z
<1>5. /\ \A x : In(Append(fifo[sdma], z), x) <=> In(fifo[sdma], x) \/ x = z
      /\ \A x : Once(fifo[sdma], x) /\ (x = z => ~In(fifo[sdma], x)) => Once(Append(fifo[sdma], z), x)
      /\ \A x : x # z => Behind(Append(fifo[sdma], z), x, z)
  BY <1>2, <1>4, Pushed
<1>6. /\ UNCHANGED <<img, sdma, compute, holds, next, fence, vram, cache, phase>>
      /\ \A x : InSdma(x)' <=> InSdma(x) \/ x = z
      /\ \A x : InCompute(x)' <=> InCompute(x)
  BY <1>3, <1>5 DEF SubmitTo, Put, InSdma, InCompute
<1>7. Stream'
  <2>1. Once(fifo'[sdma], z)
    <3>1. ~In(fifo[sdma], z) /\ Once(fifo[sdma], z)
      BY <1>1, <1>2 DEF Stream, InSdma, z
    <3> QED BY <1>3, <1>5, <3>1
  <2>2. \A c \in Chunks : Behind(fifo'[sdma], <<"copy", c>>, z)
    BY <1>3, <1>4, <1>5
  <2>3. \A c \in Chunks : InSdma(<<"copy", c>>)' => c < next'
    BY <1>2, <1>4, <1>6 DEF Stream
  <2>4. Once(fifo'[sdma], <<"signal">>)
        /\ \A c \in Chunks : Behind(fifo'[sdma], <<"copy", c>>, <<"signal">>)
    BY <2>1, <2>2 DEF z
  <2> QED BY <1>1, <1>2, <1>3, <1>4, <1>6, <2>3, <2>4 DEF Stream
<1>8. FenceCounts'
  <2>1. InSdma(<<"signal">>)'
    BY <1>6 DEF z
  <2> QED BY <1>1, <1>2, <1>6, <2>1 DEF FenceCounts
<1>9. Copied'
  <2>1. ASSUME NEW c \in 0..next - 1 PROVE InSdma(<<"copy", c>>)' <=> InSdma(<<"copy", c>>)
    <3>1. c \in Chunks
      BY <1>1, <1>2 DEF Copied
    <3> QED BY <1>4, <1>6, <3>1
  <2> QED BY <1>1, <1>2, <1>6, <2>1 DEF Copied
<1>10. Ordered'
  BY <1>1 DEF Ordered
<1> QED BY <1>1, <1>2, <1>6, <1>7, <1>8, <1>9, <1>10, SubmitsKeep DEF LoadTypes

LEMMA ComputeStepsKeep ==
  ASSUME QueueInv, LoadInv, ComputeSteps PROVE LoadInv'
<1> DEFINE z == CASE at = "wait" -> <<"wait">>
                  [] at = "acquire" -> <<"acquire">>
                  [] at = "computeSignal" -> <<"signal">>
<1>1. /\ at \in {"wait", "acquire", "computeSignal"} /\ at \in Submits /\ at' \in Submits
      /\ at = "wait" => at' = "acquire" /\ z = <<"wait">>
      /\ at = "acquire" => at' = "computeSignal" /\ z = <<"acquire">>
      /\ at = "computeSignal" => at' = "host" /\ z = <<"signal">>
      /\ Put(compute, z) /\ UNCHANGED <<img, sdma, compute, holds, next, fence, vram, cache>>
  BY DEF ComputeSteps, SubmitTo, Go, Submits
<1>2. /\ LoadTypes /\ Stream /\ FenceCounts /\ Copied /\ Ordered
      /\ DOMAIN fifo = Slots /\ sdma \in Slots /\ compute \in Slots /\ sdma # compute
      /\ fifo[compute] \in Seq(Command)
  BY <1>1, UnderWay
<1>3. fifo'[compute] = Append(fifo[compute], z) /\ fifo'[sdma] = fifo[sdma]
  BY <1>1, <1>2 DEF Put
<1>4. /\ z \in Command /\ \A c \in Chunks : <<"copy", c>> # z
      /\ <<"wait">> # <<"acquire">> /\ <<"wait">> # <<"signal">> /\ <<"acquire">> # <<"signal">>
  BY <1>1, Commands
<1> HIDE DEF z
<1>5. /\ \A x : In(Append(fifo[compute], z), x) <=> In(fifo[compute], x) \/ x = z
      /\ \A x : Once(fifo[compute], x) /\ (x = z => ~In(fifo[compute], x)) =>
                  Once(Append(fifo[compute], z), x)
      /\ \A x, y : Behind(fifo[compute], x, y) /\ x # z => Behind(Append(fifo[compute], z), x, y)
      /\ \A x : x # z => Behind(Append(fifo[compute], z), x, z)
  BY <1>2, <1>4, Pushed
<1>6. /\ UNCHANGED <<img, sdma, compute, holds, next, fence, vram, cache, phase>>
      /\ \A x : InCompute(x)' <=> InCompute(x) \/ x = z
      /\ \A x : InSdma(x)' <=> InSdma(x)
  BY <1>1, <1>3, <1>5 DEF Put, InSdma, InCompute
<1>7. ~InCompute(z)
  BY <1>1, <1>2 DEF Stream
<1>8. Stream'
  <2>1. \A x \in {<<"wait">>, <<"acquire">>, <<"signal">>} : Once(fifo'[compute], x)
    BY <1>2, <1>3, <1>5, <1>7 DEF Stream, InCompute
  <2>2. \A c \in Chunks : /\ ~InCompute(<<"copy", c>>)'
                          /\ InSdma(<<"copy", c>>)' => c < next'
                          /\ Behind(fifo'[sdma], <<"copy", c>>, <<"signal">>)
    BY <1>1, <1>2, <1>3, <1>4, <1>6 DEF Stream
  <2>3. /\ at' \in {"copy", "sdmaSignal", "wait"} => ~InCompute(<<"wait">>)'
        /\ at' \in {"copy", "sdmaSignal", "wait", "acquire"} => ~InCompute(<<"acquire">>)'
        /\ at' # "host" => ~InCompute(<<"signal">>)'
    BY <1>1, <1>2, <1>4, <1>6 DEF Stream
  <2>4. at' \in {"computeSignal", "host"} => Behind(fifo'[compute], <<"wait">>, <<"acquire">>)
    BY <1>1, <1>2, <1>3, <1>4, <1>5 DEF Stream
  <2>5. at' = "host" => Behind(fifo'[compute], <<"acquire">>, <<"signal">>)
    BY <1>1, <1>3, <1>4, <1>5
  <2> QED BY <1>1, <1>2, <1>3, <1>6, <2>1, <2>2, <2>3, <2>4, <2>5 DEF Stream
<1>9. FenceCounts'
  BY <1>1, <1>2, <1>6 DEF FenceCounts
<1>10. Copied'
  BY <1>1, <1>2, <1>6 DEF Copied
<1>11. Ordered'
  <2>1. Coherent' <=> Coherent
    BY <1>6 DEF Coherent
  <2> QED BY <1>1, <1>2, <1>4, <1>6, <2>1 DEF Ordered
<1> QED BY <1>1, <1>2, <1>6, <1>8, <1>9, <1>10, <1>11, SubmitsKeep DEF LoadTypes

(* The host's wait ends: every command is done.                            *)
LEMMA HostWaitsKeeps ==
  ASSUME QueueInv, LoadInv, HostWaits PROVE LoadInv'
<1>1. at = "host" /\ at \in Submits /\ at' = "loaded" /\ fence = 0
  BY DEF HostWaits, Go, Submits
<1>2. /\ LoadTypes /\ Stream /\ FenceCounts /\ Copied /\ Ordered
      /\ sdma \in Slots /\ compute \in Slots
      /\ \A o \in Slots \ {sdma, compute} : fifo[o] = <<>>
      /\ \A c \in 0..ChunksOf(img) - 1 : c \in Chunks
  BY <1>1, UnderWay
<1>3. ~InSdma(<<"signal">>) /\ ~InCompute(<<"signal">>)
  BY <1>1, <1>2 DEF FenceCounts
<1>4. \A c \in Chunks : ~InSdma(<<"copy", c>>)
  BY <1>1, <1>2, <1>3 DEF Stream, InSdma, In, Behind
<1>5. ~InCompute(<<"acquire">>)
  BY <1>1, <1>2, <1>3 DEF Stream, InCompute, In, Behind
<1>6. ~InCompute(<<"wait">>) /\ Coherent
  BY <1>1, <1>2, <1>5 DEF Ordered
<1>7. ~InFlight
  <2>1. ASSUME NEW o \in Slots, NEW x \in LoaderCommands PROVE ~In(fifo[o], x)
    <3>1. x \in {<<"wait">>, <<"acquire">>, <<"signal">>} \/ \E c \in Chunks : x = <<"copy", c>>
      BY Commands
    <3>2. CASE o = sdma
      BY <1>2, <1>3, <1>4, <3>1, <3>2 DEF Stream, InSdma
    <3>3. CASE o = compute
      BY <1>2, <1>3, <1>5, <1>6, <3>1, <3>3 DEF Stream, InCompute
    <3>4. CASE o \notin {sdma, compute}
      BY <1>2, <3>4 DEF In
    <3> QED BY <3>2, <3>3, <3>4
  <2> QED BY <2>1, Flight
<1>8. \A c \in 0..ChunksOf(img) - 1 : vram[c] = Chunk(img, c)
  BY <1>1, <1>2, <1>4 DEF Copied
<1>9. /\ UNCHANGED <<img, sdma, compute, fence, vram, cache, qvars>>
      /\ holds' = {"region", "image"} /\ next' = 0
  BY DEF HostWaits
<1>10. ~InFlight' /\ Coherent' /\ \A c \in 0..ChunksOf(img') - 1 : vram'[c] = Chunk(img', c)
  BY <1>6, <1>7, <1>8, <1>9 DEF InFlight, Coherent, qvars
<1>11. LoadTypes'
  BY <1>1, <1>2, <1>9, LoaderAssumption DEF LoadTypes
<1>12. Acceptable(img, Dev) /\ Fillable(img)
  BY <1>1 DEF LoadInv, Submits
<1> QED BY <1>1, <1>9, <1>10, <1>11, <1>12 DEF LoadInv, Early, Submits

(* The engines.  What a command leaves of the stream.                      *)
LEMMA SdmaPops ==
  ASSUME QueueInv, LoadInv, at \in Submits, Done(sdma), fifo[sdma] # <<>>,
         UNCHANGED <<at, sdma, compute, next>>
  PROVE  /\ Stream'
         /\ \A x : InSdma(x)' => InSdma(x)
         /\ \A x : InSdma(x) /\ x # Head(fifo[sdma]) => InSdma(x)'
         /\ \A x : InCompute(x)' <=> InCompute(x)
         /\ Head(fifo[sdma]) = <<"signal">> => ~InSdma(<<"signal">>)'
<1>1. /\ Stream /\ DOMAIN fifo = Slots /\ sdma \in Slots /\ compute \in Slots
      /\ sdma # compute /\ fifo[sdma] \in Seq(Command)
  BY UnderWay
<1>2. fifo'[sdma] = Tail(fifo[sdma]) /\ fifo'[compute] = fifo[compute]
  BY <1>1 DEF Done
<1>3. /\ \A x : In(Tail(fifo[sdma]), x) => In(fifo[sdma], x)
      /\ \A x : In(fifo[sdma], x) => x = Head(fifo[sdma]) \/ In(Tail(fifo[sdma]), x)
      /\ \A x : Once(fifo[sdma], x) => Once(Tail(fifo[sdma]), x)
                  /\ (x = Head(fifo[sdma]) => ~In(Tail(fifo[sdma]), x))
      /\ \A x, y : Behind(fifo[sdma], x, y) => Behind(Tail(fifo[sdma]), x, y)
  BY <1>1, Popped
<1>4. /\ \A x : InSdma(x)' => InSdma(x)
      /\ \A x : InSdma(x) /\ x # Head(fifo[sdma]) => InSdma(x)'
      /\ \A x : InCompute(x)' <=> InCompute(x)
  BY <1>2, <1>3 DEF InSdma, InCompute
<1>5. Head(fifo[sdma]) = <<"signal">> => ~InSdma(<<"signal">>)'
  BY <1>1, <1>2, <1>3 DEF Stream, InSdma
<1>6. Stream'
  <2>1. \A c \in Chunks :
          /\ ~InCompute(<<"copy", c>>)'
          /\ InSdma(<<"copy", c>>)' => c < next'
          /\ at \notin {"copy", "sdmaSignal"} =>
               Behind(fifo'[sdma], <<"copy", c>>, <<"signal">>)
    BY <1>1, <1>2, <1>3, <1>4 DEF Stream
  <2> QED BY <1>1, <1>2, <1>3, <1>4, <2>1 DEF Stream
<1> QED BY <1>4, <1>5, <1>6

LEMMA ComputePops ==
  ASSUME QueueInv, LoadInv, at \in Submits, Done(compute), fifo[compute] # <<>>,
         UNCHANGED <<at, sdma, compute, next>>
  PROVE  /\ Stream'
         /\ \A x : InCompute(x)' => InCompute(x)
         /\ \A x : InCompute(x) /\ x # Head(fifo[compute]) => InCompute(x)'
         /\ \A x : InSdma(x)' <=> InSdma(x)
         /\ \A x \in {<<"wait">>, <<"acquire">>, <<"signal">>} :
              Head(fifo[compute]) = x => ~InCompute(x)'
         /\ Head(fifo[compute]) = <<"acquire">> => ~InCompute(<<"wait">>)'
<1>1. /\ Stream /\ DOMAIN fifo = Slots /\ sdma \in Slots /\ compute \in Slots
      /\ sdma # compute /\ fifo[compute] \in Seq(Command)
  BY UnderWay
<1>2. fifo'[compute] = Tail(fifo[compute]) /\ fifo'[sdma] = fifo[sdma]
  BY <1>1 DEF Done
<1>3. /\ \A x : In(Tail(fifo[compute]), x) => In(fifo[compute], x)
      /\ \A x : In(fifo[compute], x) => x = Head(fifo[compute]) \/ In(Tail(fifo[compute]), x)
      /\ \A x : Once(fifo[compute], x) => Once(Tail(fifo[compute]), x)
                  /\ (x = Head(fifo[compute]) => ~In(Tail(fifo[compute]), x))
      /\ \A x, y : Behind(fifo[compute], x, y) => Behind(Tail(fifo[compute]), x, y)
      /\ \A x, y : Behind(fifo[compute], x, y) /\ Once(fifo[compute], y)
                     /\ y = Head(fifo[compute]) => ~In(fifo[compute], x)
  BY <1>1, Popped
<1>4. /\ \A x : InCompute(x)' => InCompute(x)
      /\ \A x : InCompute(x) /\ x # Head(fifo[compute]) => InCompute(x)'
      /\ \A x : InSdma(x)' <=> InSdma(x)
  BY <1>2, <1>3 DEF InSdma, InCompute
<1>5. \A x \in {<<"wait">>, <<"acquire">>, <<"signal">>} :
        Head(fifo[compute]) = x => ~InCompute(x)'
  BY <1>1, <1>2, <1>3 DEF Stream, InCompute
<1>6. Head(fifo[compute]) = <<"acquire">> => ~InCompute(<<"wait">>)'
  <2>1. SUFFICES ASSUME Head(fifo[compute]) = <<"acquire">> PROVE ~InCompute(<<"wait">>)
    BY <1>4
  <2>2. InCompute(<<"acquire">>)
    BY <1>1, <2>1 DEF InCompute, In
  <2>3. at \in {"computeSignal", "host"}
    BY <1>1, <2>2 DEF Stream, Submits
  <2> QED BY <1>1, <1>3, <2>1, <2>3 DEF Stream, InCompute
<1>7. Stream'
  <2>1. \A c \in Chunks :
          /\ ~InCompute(<<"copy", c>>)'
          /\ InSdma(<<"copy", c>>)' => c < next'
          /\ at \notin {"copy", "sdmaSignal"} =>
               Behind(fifo'[sdma], <<"copy", c>>, <<"signal">>)
    BY <1>1, <1>2, <1>4 DEF Stream
  <2>2. \A x \in {<<"wait">>, <<"acquire">>, <<"signal">>} : Once(fifo'[compute], x)
    BY <1>1, <1>2, <1>3 DEF Stream
  <2>3. /\ at \in {"computeSignal", "host"} => Behind(fifo'[compute], <<"wait">>, <<"acquire">>)
        /\ at = "host" => Behind(fifo'[compute], <<"acquire">>, <<"signal">>)
    BY <1>1, <1>2, <1>3 DEF Stream
  <2> QED BY <1>1, <1>2, <1>4, <2>1, <2>2, <2>3 DEF Stream
<1> QED BY <1>4, <1>5, <1>6, <1>7

LEMMA CopyKeeps ==
  ASSUME QueueInv, LoadInv, at \in Submits, Copy(sdma) PROVE LoadInv'
<1>1. PICK c \in Chunks : /\ Next1(sdma, <<"copy", c>>)
                          /\ vram' = [vram EXCEPT ![c] = Chunk(img, c)]
  BY DEF Copy, Submits
<1>2. /\ LoadTypes /\ Stream /\ FenceCounts /\ Copied /\ Ordered
      /\ sdma \in Slots /\ fifo[sdma] \in Seq(Command) /\ VramChunks \in Nat
      /\ ChunksOf(img) \in 0..VramChunks /\ \A d \in 0..ChunksOf(img) - 1 : d \in Chunks
  BY UnderWay
<1>3. /\ Done(sdma) /\ fifo[sdma] # <<>> /\ Head(fifo[sdma]) = <<"copy", c>>
      /\ UNCHANGED <<at, img, sdma, compute, holds, next, fence, cache, phase>>
  BY <1>1 DEF Copy, Next1, Done
<1>4. /\ Stream'
      /\ \A x : InSdma(x)' => InSdma(x)
      /\ \A x : InSdma(x) /\ x # <<"copy", c>> => InSdma(x)'
      /\ \A x : InCompute(x)' <=> InCompute(x)
  BY <1>3, SdmaPops
<1>5. InSdma(<<"copy", c>>) /\ <<"copy", c>> # <<"signal">>
  BY <1>1, <1>2, <1>3, Commands DEF InSdma, In
<1>6. DOMAIN vram' = Chunks /\ vram'[c] = Chunk(img, c)
      /\ \A d \in Chunks : d # c => vram'[d] = vram[d]
  BY <1>1, <1>2 DEF LoadTypes
<1>7. FenceCounts'
  BY <1>2, <1>3, <1>4, <1>5 DEF FenceCounts
<1>8. Copied'
  <2>1. ASSUME NEW d \in 0..next - 1, ~InSdma(<<"copy", d>>)' PROVE vram'[d] = Chunk(img, d)
    <3>1. d \in Chunks
      BY <1>2 DEF Copied
    <3>2. CASE d = c
      BY <1>6, <3>2
    <3>3. CASE d # c
      <4>1. <<"copy", d>> # <<"copy", c>>
        BY <3>1, <3>3, Commands
      <4>2. ~InSdma(<<"copy", d>>)
        BY <1>4, <2>1, <4>1
      <4> QED BY <1>2, <1>6, <3>1, <3>3, <4>2 DEF Copied
    <3> QED BY <3>2, <3>3
  <2> QED BY <1>2, <1>3, <2>1 DEF Copied
<1>9. Ordered'
  <2>1. at \notin {"copy", "sdmaSignal"} => InSdma(<<"signal">>)
    BY <1>2, <1>5 DEF Stream, InSdma, In, Behind
  <2>2. InSdma(<<"signal">>)' <=> InSdma(<<"signal">>)
    BY <1>4, <1>5
  <2> QED BY <1>2, <1>3, <1>4, <2>1, <2>2 DEF Ordered
<1> QED BY <1>2, <1>3, <1>4, <1>6, <1>7, <1>8, <1>9, SubmitsKeep DEF LoadTypes

LEMMA SignalKeeps ==
  ASSUME QueueInv, LoadInv, at \in Submits, NEW s \in {sdma, compute}, Signal(s)
  PROVE  LoadInv'
<1> DEFINE z == <<"signal">>
<1>1. /\ LoadTypes /\ Stream /\ FenceCounts /\ Copied /\ Ordered
      /\ fifo[sdma] \in Seq(Command) /\ fifo[compute] \in Seq(Command)
      /\ \A d \in 0..ChunksOf(img) - 1 : d \in Chunks
  BY UnderWay
<1>2. /\ Done(s) /\ fifo[s] # <<>> /\ Head(fifo[s]) = z
      /\ fence' = IF fence > 0 THEN fence - 1 ELSE fence
      /\ UNCHANGED <<at, img, sdma, compute, holds, next, vram, cache, phase>>
  BY DEF Signal, Next1, Done
<1>3. /\ \A c \in Chunks : <<"copy", c>> # z
      /\ z # <<"wait">> /\ z # <<"acquire">>
  BY Commands
<1>4. CASE s = sdma
  <2>1. /\ Stream'
        /\ \A x : InSdma(x)' => InSdma(x)
        /\ \A x : InSdma(x) /\ x # z => InSdma(x)'
        /\ \A x : InCompute(x)' <=> InCompute(x)
        /\ ~InSdma(z)'
    BY <1>2, <1>4, SdmaPops
  <2>2. InSdma(z)
    BY <1>1, <1>2, <1>4 DEF InSdma, In
  <2>3. at \notin {"copy", "sdmaSignal"}
    BY <1>1, <2>2 DEF Stream
  <2>4. fence > 0 /\ fence' \in 0..2 /\ FenceCounts'
    BY <1>1, <1>2, <2>1, <2>2, <2>3 DEF FenceCounts
  <2>5. Copied'
    <3>1. ASSUME NEW d \in 0..next - 1 PROVE InSdma(<<"copy", d>>)' <=> InSdma(<<"copy", d>>)
      <4>1. d \in Chunks
        BY <1>1, <2>3 DEF Copied
      <4> QED BY <1>3, <2>1, <4>1
    <3> QED BY <1>1, <1>2, <3>1 DEF Copied
  <2>6. Ordered'
    <3>1. Coherent' <=> Coherent
      BY <1>2 DEF Coherent
    <3> QED BY <1>1, <1>2, <2>1, <3>1 DEF Ordered
  <2> QED BY <1>1, <1>2, <2>1, <2>4, <2>5, <2>6, SubmitsKeep DEF LoadTypes
<1>5. CASE s = compute
  <2>1. /\ Stream'
        /\ \A x : InCompute(x)' => InCompute(x)
        /\ \A x : InCompute(x) /\ x # z => InCompute(x)'
        /\ \A x : InSdma(x)' <=> InSdma(x)
        /\ ~InCompute(z)'
    BY <1>2, <1>5, ComputePops
  <2>2. InCompute(z)
    BY <1>1, <1>2, <1>5 DEF InCompute, In
  <2>3. at = "host"
    BY <1>1, <2>2 DEF Stream
  <2>4. fence > 0 /\ fence' \in 0..2 /\ FenceCounts'
    BY <1>1, <1>2, <2>1, <2>2, <2>3 DEF FenceCounts
  <2>5. Copied'
    BY <1>1, <1>2, <2>1 DEF Copied
  <2>6. Ordered'
    <3>1. Coherent' <=> Coherent
      BY <1>2 DEF Coherent
    <3> QED BY <1>1, <1>2, <1>3, <2>1, <3>1 DEF Ordered
  <2> QED BY <1>1, <1>2, <2>1, <2>4, <2>5, <2>6, SubmitsKeep DEF LoadTypes
<1> QED BY <1>4, <1>5

(* The wait of the compute queue ends: the copies are done.                *)
LEMMA WaitKeeps ==
  ASSUME QueueInv, LoadInv, at \in Submits, Wait(compute) PROVE LoadInv'
<1> DEFINE z == <<"wait">>
<1>1. /\ LoadTypes /\ Stream /\ FenceCounts /\ Copied /\ Ordered
      /\ fifo[compute] \in Seq(Command)
  BY UnderWay
<1>2. /\ Done(compute) /\ fifo[compute] # <<>> /\ Head(fifo[compute]) = z /\ fence = 1
      /\ UNCHANGED <<at, img, sdma, compute, holds, next, fence, vram, cache, phase>>
  BY DEF Wait, WaitValue, Next1, Done
<1>3. /\ Stream'
      /\ \A x : InCompute(x)' => InCompute(x)
      /\ \A x : InCompute(x) /\ x # z => InCompute(x)'
      /\ \A x : InSdma(x)' <=> InSdma(x)
  BY <1>2, ComputePops
<1>4. InCompute(z)
  BY <1>1, <1>2 DEF InCompute, In
<1>5. at \in {"acquire", "computeSignal", "host"}
  BY <1>1, <1>4 DEF Stream, Submits
<1>6. at \in {"computeSignal", "host"} => InCompute(<<"acquire">>)
  BY <1>1, <1>4 DEF Stream, InCompute, In, Behind
<1>7. at = "host" => InCompute(<<"signal">>)
  BY <1>1, <1>6 DEF Stream, InCompute, In, Behind
<1>8. ~InSdma(<<"signal">>)
  BY <1>1, <1>2, <1>5, <1>7 DEF FenceCounts
<1>9. <<"signal">> # z /\ <<"acquire">> # z
  BY Commands
<1>10. FenceCounts'
  BY <1>1, <1>2, <1>3, <1>9 DEF FenceCounts
<1>11. Copied'
  BY <1>1, <1>2, <1>3 DEF Copied
<1>12. Ordered'
  BY <1>2, <1>3, <1>6, <1>8, <1>9 DEF Ordered
<1> QED BY <1>1, <1>2, <1>3, <1>10, <1>11, <1>12, SubmitsKeep DEF LoadTypes

(* Its caches are invalidated: from now on they hold what VRAM holds.      *)
LEMMA AcquireKeeps ==
  ASSUME QueueInv, LoadInv, at \in Submits, AcquireMem(compute) PROVE LoadInv'
<1> DEFINE z == <<"acquire">>
<1>1. /\ LoadTypes /\ Stream /\ FenceCounts /\ Copied /\ Ordered
      /\ fifo[compute] \in Seq(Command)
      /\ \A d \in 0..ChunksOf(img) - 1 : d \in Chunks
  BY UnderWay
<1>2. /\ Done(compute) /\ fifo[compute] # <<>> /\ Head(fifo[compute]) = z
      /\ cache' = [c \in Chunks |-> {}]
      /\ UNCHANGED <<at, img, sdma, compute, holds, next, fence, vram, phase>>
  BY DEF AcquireMem, Next1, Done
<1>3. /\ Stream'
      /\ \A x : InCompute(x)' => InCompute(x)
      /\ \A x : InCompute(x) /\ x # z => InCompute(x)'
      /\ \A x : InSdma(x)' <=> InSdma(x)
      /\ ~InCompute(<<"wait">>)'
  BY <1>2, ComputePops
<1>4. <<"signal">> # z /\ <<"wait">> # z
  BY Commands
<1>5. ~InCompute(<<"wait">>)
  BY <1>3, <1>4
<1>6. FenceCounts'
  BY <1>1, <1>2, <1>3, <1>4 DEF FenceCounts
<1>7. Copied'
  BY <1>1, <1>2, <1>3 DEF Copied
<1>8. Coherent'
  BY <1>1, <1>2 DEF Coherent
<1>9. Ordered'
  BY <1>1, <1>2, <1>3, <1>5, <1>8 DEF Ordered
<1> QED BY <1>1, <1>2, <1>3, <1>6, <1>7, <1>9, SubmitsKeep DEF LoadTypes

LEMMA EngineKeeps ==
  ASSUME QueueInv, LoadInv, NEW s \in Slots, EngineStep(s)
  PROVE  QueueInv' /\ LoadInv'
<1>1. PICK z \in LoaderCommands : Next1(s, z) /\ Done(s)
  BY Commands DEF EngineStep, Copy, Signal, Wait, AcquireMem
<1>2. fifo[s] # <<>> /\ fifo[s] \in Seq(Command) /\ In(fifo[s], z) /\ Head(fifo[s]) = z
  BY <1>1 DEF Next1, QueueInv, FifoOf, In
<1>3. QueueInv'
  BY <1>1, <1>2, DoneKeeps
<1>4. InFlight
  BY <1>2, Flight
<1>5. LoadTypes /\ at \in {"idle"} \cup Submits
  BY <1>4 DEF LoadInv, LoadTypes
<1>6. CASE at = "idle"
  <2>1. /\ UNCHANGED <<at, img, sdma, compute, holds, next, vram>>
        /\ fence' \in 0..2 /\ DOMAIN cache' = Chunks
    <3>1. fence \in 0..2 /\ DOMAIN cache = Chunks
      BY <1>5 DEF LoadTypes
    <3>2. CASE Copy(s)
      BY <1>6, <3>1, <3>2 DEF Copy
    <3>3. CASE Signal(s)
      BY <3>1, <3>3 DEF Signal
    <3>4. CASE Wait(s) \/ AcquireMem(s)
      BY <3>1, <3>4 DEF Wait, AcquireMem
    <3> QED BY <3>2, <3>3, <3>4 DEF EngineStep
  <2> QED BY <1>3, <1>5, <1>6, <2>1 DEF LoadInv, LoadTypes, Early, Submits
<1>7. CASE at \in Submits
  <2>1. s \in {sdma, compute}
    BY <1>2, <1>7, UnderWay
  <2>2. Stream
    BY <1>7, UnderWay
  <2>3. Copy(s) => s = sdma
    BY <1>2, <2>1, <2>2 DEF Copy, Next1, Stream, InCompute, In
  <2>4. Wait(s) \/ AcquireMem(s) => s = compute
    BY <1>2, <2>1, <2>2 DEF Wait, AcquireMem, Next1, Stream, InSdma, In
  <2> QED BY <1>3, <1>7, <2>1, <2>3, <2>4, CopyKeeps, SignalKeeps, WaitKeeps, AcquireKeeps
         DEF EngineStep
<1> QED BY <1>3, <1>5, <1>6, <1>7

LEMMA PrefetchKeeps ==
  ASSUME LoadInv, NEW c \in Chunks, Prefetch(c) PROVE LoadInv'
<1>1. /\ at \notin {"idle", "loaded"} /\ cache' = [cache EXCEPT ![c] = {vram[c]}]
      /\ UNCHANGED <<at, img, sdma, compute, holds, next, fence, vram, phase, fifo>>
  BY DEF Prefetch, qvars
<1>2. LoadTypes' /\ (Coherent => Coherent') /\ (LoadQueues => LoadQueues')
  BY <1>1 DEF LoadInv, LoadTypes, Coherent, LoadQueues
<1>3. \A x : (InSdma(x)' <=> InSdma(x)) /\ (InCompute(x)' <=> InCompute(x))
  BY <1>1 DEF InSdma, InCompute
<1>4. (Stream => Stream') /\ (FenceCounts => FenceCounts') /\ (Copied => Copied')
  BY <1>1, <1>3 DEF Stream, FenceCounts, Copied
<1>5. (Ordered => Ordered') /\ (InFlight' <=> InFlight)
  BY <1>1, <1>2, <1>3 DEF Ordered, InFlight
<1> QED BY <1>1, <1>2, <1>4, <1>5 DEF LoadInv

LEMMA LoadStepKeeps ==
  ASSUME QueueInv, LoadInv, LoadStep PROVE QueueInv' /\ LoadInv'
<1>1. LoadInv'
  BY EarlyKeeps, EndsKeeps, CopyChunkKeeps, AllCopiedKeeps, SdmaSignalKeeps,
     ComputeStepsKeep, HostWaitsKeeps
  DEF LoadStep, Refuse
<1>2. sdma \in Slots /\ compute \in Slots
  BY DEF LoadInv, LoadTypes
<1>3. \/ UNCHANGED qvars
      \/ CopyChunk
      \/ \E z \in {<<"wait">>, <<"acquire">>, <<"signal">>} : Put(sdma, z) \/ Put(compute, z)
  BY DEF LoadStep, Get, Fill, Refuse, Ends, CreateSignal, AllCopied, SubmitTo, ComputeSteps,
         HostWaits
<1>4. ASSUME CopyChunk PROVE QueueInv'
  <2>1. at \in Submits
    BY <1>4 DEF CopyChunk, Submits
  <2>2. next \in Chunks
    <3>1. ChunksOf(img) \in 0..VramChunks /\ VramChunks \in Nat /\ LoadTypes
      BY <2>1, UnderWay
    <3> QED BY <1>4, <3>1 DEF CopyChunk, Chunks, LoadTypes
  <2>3. <<"copy", next>> \in Command /\ <<"copy", next>> # <<"waves">>
    BY <2>2, Commands
  <2> QED BY <1>2, <1>4, <2>3, PutKeeps DEF CopyChunk
<1>5. ASSUME NEW z \in {<<"wait">>, <<"acquire">>, <<"signal">>}, NEW q \in Slots, Put(q, z)
      PROVE  QueueInv'
  <2>1. z \in Command /\ z # <<"waves">>
    BY Commands
  <2> QED BY <1>5, <2>1, PutKeeps
<1>6. QueueInv'
  BY <1>2, <1>3, <1>4, <1>5, QueueKept
<1> QED BY <1>1, <1>6

-----------------------------------------------------------------------------
(* All together.                                                           *)
LEMMA LifeInit == Init => LifeInv
  BY QueueInit, LoadInit, BufferInit DEF Init, LifeInv

LEMMA AllKept == LifeInv /\ UNCHANGED vars => LifeInv'
<1> SUFFICES ASSUME LifeInv, UNCHANGED vars PROVE LifeInv'
  OBVIOUS
<1>1. UNCHANGED qvars /\ UNCHANGED lvars /\ UNCHANGED bvars /\ UNCHANGED <<phase, fifo>>
  BY DEF vars, qvars, lvars, bvars
<1>2. \A o \in Slots : Quiet(fifo[o], fifo'[o])
  BY <1>1 DEF Quiet
<1> QED BY <1>1, <1>2, QueueKept, LoadUndisturbed, BufferKept DEF LifeInv

(* A call on a queue while a load has its queues: there is none.           *)
LEMMA CallsWait ==
  ASSUME QueueInv, LoadInv, NEW s \in Slots, QueueCall(s)
  PROVE  at \in {"idle", "loaded"}
<1> SUFFICES ASSUME at \notin {"idle", "loaded"} PROVE FALSE
  OBVIOUS
<1>1. LoadQueues
  BY DEF LoadInv, LoadTypes
<1>2. phase[s] \in {"empty", "live"}
  BY <1>1 DEF LoadQueues
<1>3. todo[s] = <<>>
  BY <1>2 DEF QueueInv, TodoOf
<1>4. ~GiveUp(s)
  BY <1>3 DEF GiveUp, First
<1> QED BY <1>2, <1>4 DEF QueueCall, Acquire, CreateHardware, RetryHardware,
           FindDoorbell, Fails, Complete, GaveUp, Assigned, Making1, GivenUp

LEMMA SlotStepKeeps ==
  ASSUME QueueInv, LoadInv, NEW s \in Slots,
         \/ Start(s) \/ Call(s) \/ Work(s) \/ Run(s) \/ End(s)
         \/ \E from \in Slots : MoveTo(s, from)
  PROVE  QueueInv' /\ LoadInv'
<1>1. CASE Start(s)
  BY <1>1, PhaseKeeps, NoneNew, LoadRests DEF Start
<1>2. CASE Call(s)
  BY <1>2, QueueCallKeeps, NoneNew, LoadRests, CallsWait DEF Call
<1>3. CASE Work(s)
  BY <1>3, SubmitKeeps, QuietStep, LoadUndisturbed DEF Work
<1>4. CASE DeviceStep(s) /\ UNCHANGED lvars
  BY <1>4, DeviceKeeps, QuietStep, LoadUndisturbed
<1>5. CASE EngineStep(s)
  BY <1>5, EngineKeeps
<1>6. CASE End(s)
  BY <1>6, PhaseKeeps, NoneNew, LoadRests DEF End, Loading
<1>7. ASSUME NEW from \in Slots, MoveTo(s, from) PROVE QueueInv' /\ LoadInv'
  BY <1>7, MoveKeeps, NoneNew, LoadRests DEF MoveTo, Loading
<1> QED BY <1>1, <1>2, <1>3, <1>4, <1>5, <1>6, <1>7 DEF Run

LEMMA LifeNext == LifeInv /\ [Next]_vars => LifeInv'
<1> SUFFICES ASSUME LifeInv, [Next]_vars PROVE LifeInv'
  OBVIOUS
<1>0. QueueInv /\ LoadInv /\ BufferInv
  BY DEF LifeInv
<1>1. ASSUME NEW s \in Slots,
             \/ Start(s) \/ Call(s) \/ Work(s) \/ Run(s) \/ End(s)
             \/ \E from \in Slots : MoveTo(s, from)
      PROVE  LifeInv'
  <2>1. UNCHANGED bvars
    BY <1>1 DEF Start, Call, Work, Run, End, MoveTo
  <2>2. QueueInv' /\ LoadInv'
    BY <1>0, <1>1, SlotStepKeeps
  <2> QED BY <1>0, <2>1, <2>2, BufferKept DEF LifeInv
<1>2. CASE BeginLoad
  <2>1. UNCHANGED qvars /\ UNCHANGED bvars
    BY <1>2 DEF BeginLoad, Load
  <2> QED BY <1>0, <1>2, <2>1, BeginKeeps, QueueKept, BufferKept DEF LifeInv
<1>3. CASE LoadCall
  BY <1>0, <1>3, LoadStepKeeps, BufferKept DEF LoadCall, LifeInv
<1>4. CASE LoadError \/ Unload
  <2>1. Ends /\ UNCHANGED qvars /\ UNCHANGED bvars
    BY <1>4 DEF LoadError, Unload, LoadFails, DestroyExecutable, Ends
  <2> QED BY <1>0, <2>1, EndsKeeps, QueueKept, BufferKept DEF LifeInv
<1>5. ASSUME NEW c \in Chunks, Prefetch(c), UNCHANGED bvars PROVE LifeInv'
  <2>1. UNCHANGED qvars
    BY <1>5 DEF Prefetch
  <2> QED BY <1>0, <1>5, <2>1, PrefetchKeeps, QueueKept, BufferKept DEF LifeInv
<1>6. ASSUME NEW b \in Objects, UseBuffer(b) PROVE LifeInv'
  <2>1. /\ BufferStep(b) /\ UNCHANGED qvars /\ UNCHANGED lvars /\ UNCHANGED <<phase, fifo>>
        /\ \A o \in Slots : Quiet(fifo[o], fifo'[o])
    BY <1>6 DEF UseBuffer, qvars, Quiet
  <2> QED BY <1>0, <2>1, BufferNext, QueueKept, LoadUndisturbed DEF LifeInv
<1> QED BY <1>1, <1>2, <1>3, <1>4, <1>5, <1>6, AllKept DEF Next

LEMMA LifeInvariant == Spec => []LifeInv
  BY LifeInit, LifeNext, PTL DEF Spec

(* What the hardware uses of a queue exists as long as it has the queue,   *)
(* whatever fails, moves or ends, and what a copy of the loader uses as    *)
(* long as the copy is in a queue (queue.cpp:493, loader.cpp:165).         *)
THEOREM HardwareMemoryAlive == Spec => []MemoryAlive
<1>1. LifeInv => MemoryAlive
  <2> SUFFICES ASSUME LifeInv PROVE MemoryAlive
    OBVIOUS
  <2>1. QueueMemoryAlive
    BY QueueSafe DEF LifeInv
  <2>2. ASSUME at # "idle", NEW s \in Slots, NEW c \in Chunks, <<"copy", c>> \in ToSet(fifo[s])
        PROVE  {"image", "staging", "pinned"} \subseteq holds
    <3>1. InFlight
      BY <2>2, Commands DEF InFlight
    <3>2. at \in Submits
      BY <2>2, <3>1 DEF LifeInv, LoadInv, LoadTypes
    <3> QED BY <3>2 DEF LifeInv, LoadInv
  <2> QED BY <2>1, <2>2 DEF MemoryAlive, CopiesHaveMemory
<1> QED BY <1>1, LifeInvariant, PTL

(* An object that holds no queue owns nothing, and every buffer of the     *)
(* kernel is held by one object (queue.cpp:488-508, memory.cpp:59).        *)
THEOREM ObjectsLeaveNothing == Spec => []NothingLeft
<1>1. LifeInv => NothingLeft
  BY QueueSafe, HeldOnce DEF LifeInv, LoadInv, NothingLeft
<1> QED BY <1>1, LifeInvariant, PTL

(* What a handler of the watcher uses exists while its event is watched    *)
(* (queue.cpp:488), every buffer an object holds can be given back         *)
(* (memory.cpp:59), and after a load VRAM holds what was staged, and no    *)
(* cache anything else, for every image, queue and order in which the      *)
(* engines work on the load's commands (loader.cpp:164).                   *)
THEOREM LifetimesSafe == Spec => []Inv
<1>1. ASSUME LifeInv PROVE Inv
  <2>1. TypeOK /\ WatchedAlive /\ DestroyIsAccepted
    BY <1>1, QueueSafe DEF LifeInv, LoadInv, LoadTypes, Early, Submits, BufferInv, TypeOK,
                           LTypeOK
  <2>2. AsStaged
    BY <1>1 DEF LifeInv, LoadInv, Coherent, AsStaged
  <2> QED BY <2>1, <2>2 DEF Inv
<1> QED BY <1>1, LifeInvariant, PTL

-----------------------------------------------------------------------------
(***************************************************************************)
(* The watcher of the queues' faults, in module FaultWatcher: its thread   *)
(* calls handlers of live queues only, and its copy of the list lacks no   *)
(* watch that its next wait does not hear of, for any number of queues and *)
(* events.                                                                 *)
(***************************************************************************)
WatchTypes ==
  /\ KernelTypeOK
  /\ place \in {"top", "copy", "wait", "asleep", "woken", "lock", "call",
                "exited", "died"}
  /\ eds \in Seq(Events) /\ watches \in Seq(Owners) /\ index \in Nat
  /\ exists \subseteq Owners /\ gone \subseteq Owners
  /\ mtx \in Owners \cup {Watcher, Free}
  /\ owner \in [Owners -> {"absent", "created", "added", "ready", "removed",
                           "unwatched"}]
  /\ closer \in {"open", "closing", "joining", "closed"}
  /\ seen \subseteq Events /\ dropped \subseteq Owners

(* watch_mtx is held over each change of the list and over the calls of    *)
(* the handlers.                                                           *)
WatchLocked ==
  /\ mtx = Watcher <=> place = "call"
  /\ \A o \in Owners : mtx = o <=> owner[o] \in {"added", "removed"}
  /\ index \in 1..(Len(watches) + 1) /\ (place # "call" => index = 1)

(* The list names each queue once, and only queues that are whole.         *)
WatchListed ==
  /\ \A i \in DOMAIN watches : owner[watches[i]] \in {"added", "ready"}
  /\ \A i, j \in DOMAIN watches : watches[i] = watches[j] => i = j
  /\ \A o \in Owners : o \in exists <=> owner[o] # "absent"
  /\ \A o \in unhandled : \E i \in DOMAIN watches : watches[i] = o

InEds(e) == \E i \in DOMAIN eds : eds[i] = e

(* A watch that the watcher's copy lacks has set the wake-up: it stays set *)
(* until the watcher sleeps, which receives it.                            *)
WakeupSet ==
  /\ place # "asleep" => registered[Watcher] = {} /\ activated[Watcher] = {}
  /\ place \in {"wait", "asleep"} => InEds(Wake)
  /\ place = "asleep" => Wake \in registered[Watcher]
  /\ \A i \in DOMAIN watches : ~InEds(watches[i]) /\ owner[watches[i]] # "added" =>
       /\ place = "wait" => signaled[Wake]
       /\ place = "asleep" => Wake \in activated[Watcher]

WatchInv == WatchTypes /\ WatchLocked /\ WatchListed /\ WakeupSet

-----------------------------------------------------------------------------
LEMMA WatchInit == WatcherInit => WatchInv
  BY WatcherAssumption DEF WatcherInit, WatchInv, WatchTypes, WatchLocked, WatchListed,
     WakeupSet, InEds, KernelInit, KernelTypeOK, WatcherAssumption

LEMMA LeastExists ==
  ASSUME NEW T, T \subseteq Nat, T # {}
  PROVE  \E x \in T : \A y \in T : x <= y
<1>1. PICK x \in T : \A y \in T : ~(<<y, x>> \in OpToRel(<, Nat))
  <2>1. \E x \in T : \A y \in T : ~(<<y, x>> \in OpToRel(<, Nat))
    BY NatLessThanWellFounded, WFMin
  <2> QED BY <2>1
<1>2. ASSUME NEW y \in T PROVE x <= y
  <2> SUFFICES ASSUME ~(x <= y) PROVE FALSE
    OBVIOUS
  <2>1. y < x /\ x \in Nat /\ y \in Nat
    OBVIOUS
  <2>2. <<y, x>> \in OpToRel(<, Nat)
    BY <2>1 DEF OpToRel
  <2> QED BY <1>1, <2>2
<1> QED BY <1>2

LEMMA Lists ==
  ASSUME WatchTypes
  PROVE  /\ Len(watches) \in Nat /\ DOMAIN watches = 1..Len(watches)
         /\ \A i \in DOMAIN watches : watches[i] \in Owners
         /\ Watched = {watches[i] : i \in DOMAIN watches}
         /\ Len(eds) \in Nat /\ DOMAIN eds = 1..Len(eds)
         /\ ToSet(eds) = {eds[i] : i \in DOMAIN eds}
  BY DEF WatchTypes, Watched, ToSet

(* remove_watch() takes one watch out of the list and keeps the others.    *)
LEMMA Removed ==
  ASSUME WatchTypes, WatchListed, NEW o \in Owners
  PROVE  /\ Without(o) \in Seq(Owners)
         /\ \A i \in DOMAIN Without(o) :
              /\ Without(o)[i] # o
              /\ \E j \in DOMAIN watches : Without(o)[i] = watches[j]
         /\ \A i, j \in DOMAIN Without(o) : Without(o)[i] = Without(o)[j] => i = j
         /\ \A j \in DOMAIN watches : watches[j] # o =>
              \E i \in DOMAIN Without(o) : Without(o)[i] = watches[j]
<1> DEFINE n == Len(watches)
<1>0. /\ n \in Nat /\ DOMAIN watches = 1..n /\ watches \in Seq(Owners)
      /\ \A i \in 1..n : watches[i] \in Owners
      /\ Watched = {watches[i] : i \in 1..n}
  BY Lists DEF WatchTypes
<1>1. CASE o \notin Watched
  BY <1>0, <1>1 DEF Without, WatchListed
<1>2. CASE o \in Watched
  <2> DEFINE k == CHOOSE i \in DOMAIN watches : watches[i] = o
             w == [watches EXCEPT ![k] = Last(watches)]
  <2>1. k \in 1..n /\ watches[k] = o
    BY <1>0, <1>2
  <2>2. Last(watches) = watches[n]
    BY DEF Last
  <2>3. w \in Seq(Owners) /\ Len(w) = n
    BY <1>0, <2>1, <2>2
  <2>4. Without(o) = SubSeq(w, 1, n - 1)
    BY <1>2, <2>3 DEF Without, Front
  <2>5. \A i \in 1..n : w[i] = IF i = k THEN watches[n] ELSE watches[i]
    BY <1>0, <2>1, <2>2
  <2> HIDE DEF k, w
  <2>6. /\ Without(o) \in Seq(Owners) /\ DOMAIN Without(o) = 1..(n - 1)
        /\ \A i \in 1..(n - 1) : Without(o)[i] = IF i = k THEN watches[n] ELSE watches[i]
    BY <1>0, <2>1, <2>3, <2>4, <2>5
  <2>7. \A i, j \in 1..n : watches[i] = watches[j] => i = j
    BY <1>0 DEF WatchListed
  <2>8. ASSUME NEW j \in 1..n, watches[j] # o
        PROVE  \E i \in 1..(n - 1) : Without(o)[i] = watches[j]
    <3>1. CASE j = n
      <4>1. k \in 1..(n - 1)
        BY <2>1, <2>8, <3>1
      <4> QED BY <2>6, <3>1, <4>1
    <3>2. CASE j # n
      BY <2>1, <2>6, <2>8, <3>2
    <3> QED BY <3>1, <3>2
  <2>9. ASSUME NEW i \in 1..(n - 1)
        PROVE  Without(o)[i] # o /\ \E j \in 1..n : Without(o)[i] = watches[j]
    BY <1>0, <2>1, <2>6, <2>7
  <2>10. \A i, j \in 1..(n - 1) : Without(o)[i] = Without(o)[j] => i = j
    BY <1>0, <2>1, <2>6, <2>7
  <2> QED BY <1>0, <2>6, <2>8, <2>9, <2>10
<1> QED BY <1>1, <1>2

(* The wake-up in hand, a sleep ends one way or the other.                 *)
LEMMA WakeupEnds ==
  ASSUME WatchTypes, InEds(Wake), Wake \in activated[Watcher]
  PROVE  WaitCompletes \/ WaitBreaks
<1> DEFINE got == activated[Watcher] \ gone
           T == {i \in DOMAIN eds : eds[i] \in got \cup gone}
<1>1. Wake \in got
  BY WatcherAssumption DEF WatchTypes, WatcherAssumption
<1>2. DOMAIN eds = 1..Len(eds) /\ Len(eds) \in Nat
  BY Lists
<1>3. T \subseteq Nat /\ T # {}
  BY <1>1, <1>2 DEF InEds
<1>4. PICK i \in T : \A j \in T : i <= j
  BY <1>3, LeastExists
<1>5. i \in DOMAIN eds /\ \A j \in 1..(i - 1) : eds[j] \notin got \cup gone
  BY <1>2, <1>4
<1> QED BY <1>5 DEF WaitCompletes, WaitBreaks, Decides

-----------------------------------------------------------------------------
(* What the driver's operations do to the one waiter.                      *)
LEMMA EventSet ==
  ASSUME WatchTypes, NEW e \in Events, SetEvent(e)
  PROVE  /\ KernelTypeOK' /\ registered' = registered
         /\ \A f \in Events : f # e => signaled'[f] = signaled[f]
         /\ e \in registered[Watcher] \ activated[Watcher] =>
              activated'[Watcher] = activated[Watcher] \cup {e}
         /\ e \notin registered[Watcher] \ activated[Watcher] =>
              signaled'[e] = TRUE /\ activated'[Watcher] = activated[Watcher]
<1>1. Queued(e) = IF e \in registered[Watcher] \ activated[Watcher]
                  THEN {Watcher} ELSE {}
  BY DEF Queued
<1> QED BY <1>1 DEF SetEvent, WatchTypes, KernelTypeOK

LEMMA SleepEnded ==
  ASSUME WatchTypes, EndWait(Watcher)
  PROVE  /\ KernelTypeOK' /\ registered'[Watcher] = {} /\ activated'[Watcher] = {}
         /\ signaled' = signaled
  BY DEF EndWait, WatchTypes, KernelTypeOK

LEMMA SleepBegun ==
  ASSUME WatchTypes, WaitEvents(Watcher, ToSet(eds))
  PROVE  /\ KernelTypeOK' /\ registered'[Watcher] = ToSet(eds)
         /\ activated'[Watcher] = {e \in ToSet(eds) : signaled[e]}
<1>1. ToSet(eds) \subseteq Events
  BY Lists DEF WatchTypes
<1> QED BY <1>1 DEF WaitEvents, WatchTypes, KernelTypeOK

LEMMA OwnEvents ==
  /\ Wake \in Events /\ Fault \in Events /\ Owners \subseteq Events
  /\ Wake # Fault /\ Wake \notin Owners /\ Fault \notin Owners
  /\ Watcher \notin Owners /\ Free \notin Owners /\ Free # Watcher
  BY WatcherAssumption DEF WatcherAssumption, Events

LEMMA ListCopied ==
  ASSUME WatchTypes
  PROVE  /\ EventList \in Seq(Events)
         /\ \E i \in DOMAIN EventList : EventList[i] = Wake
         /\ \A k \in DOMAIN watches :
              \E i \in DOMAIN EventList : EventList[i] = watches[k]
<1> DEFINE a == <<Fault>> \o watches  n == Len(watches)
<1>1. n \in Nat /\ DOMAIN watches = 1..n /\ watches \in Seq(Events)
  BY Lists, OwnEvents DEF WatchTypes
<1>2. a \in Seq(Events) /\ Len(a) = n + 1 /\ \A k \in 1..n : a[k + 1] = watches[k]
  BY <1>1, OwnEvents
<1> HIDE DEF a
<1>3. a \o <<Wake>> \in Seq(Events) /\ Len(a \o <<Wake>>) = n + 2
      /\ (a \o <<Wake>>)[n + 2] = Wake
      /\ \A k \in 1..(n + 1) : (a \o <<Wake>>)[k] = a[k]
  BY <1>1, <1>2, OwnEvents
<1>4. EventList = a \o <<Wake>>
  BY DEF EventList, a
<1>5. DOMAIN EventList = 1..(n + 2)
  BY <1>1, <1>3, <1>4
<1>6. ASSUME NEW k \in 1..n
      PROVE  \E i \in 1..(n + 2) : EventList[i] = watches[k]
  <2>1. k + 1 \in 1..(n + 1) /\ k + 1 \in 1..(n + 2)
    BY <1>1
  <2> QED BY <2>1, <1>2, <1>3, <1>4
<1>7. n + 2 \in 1..(n + 2)
  BY <1>1
<1> QED BY <1>1, <1>3, <1>4, <1>5, <1>6, <1>7

-----------------------------------------------------------------------------
(* The steps of the watcher thread.                                        *)
LEMMA WatcherKeeps == ASSUME WatchInv, WatcherStep PROVE WatchInv'
<1> USE DEF WatchInv
<1>1. CASE LoopTop \/ CheckWoken
  <2>1. WatchTypes'
    BY <1>1 DEF WatchTypes, KernelTypeOK, LoopTop, CheckWoken, driver, history
  <2>2. WatchLocked' /\ WatchListed'
    BY <1>1 DEF WatchLocked, WatchListed, LoopTop, CheckWoken, driver, history
  <2>3. WakeupSet'
    BY <1>1 DEF WakeupSet, InEds, LoopTop, CheckWoken, driver
  <2> QED BY <2>1, <2>2, <2>3
<1>2. CASE CopyWatches
  <2>1. WatchTypes'
    BY <1>2, ListCopied DEF WatchTypes, KernelTypeOK, CopyWatches, driver, history
  <2>2. WatchLocked' /\ WatchListed'
    BY <1>2, OwnEvents DEF WatchLocked, WatchListed, CopyWatches, driver, history
  <2>3. WakeupSet'
    BY <1>2, ListCopied DEF WakeupSet, InEds, CopyWatches, driver
  <2> QED BY <2>1, <2>2, <2>3
<1>3. CASE StartWait
  <2>1. /\ KernelTypeOK' /\ registered'[Watcher] = ToSet(eds)
        /\ activated'[Watcher] = {e \in ToSet(eds) : signaled[e]}
    BY <1>3, SleepBegun DEF StartWait
  <2>2. WatchTypes'
    BY <1>3, <2>1 DEF WatchTypes, StartWait, driver, history
  <2>3. WatchLocked' /\ WatchListed'
    BY <1>3 DEF WatchLocked, WatchListed, StartWait, driver, history
  <2>4. Wake \in ToSet(eds)
    BY <1>3, Lists DEF WakeupSet, InEds, StartWait
  <2>5. WakeupSet'
    BY <1>3, <2>1, <2>4 DEF WakeupSet, InEds, StartWait
  <2> QED BY <2>2, <2>3, <2>5
<1>4. CASE StartFails
  <2>1. WatchTypes'
    BY <1>4 DEF WatchTypes, KernelTypeOK, StartFails, driver, history
  <2>2. WatchLocked' /\ WatchListed'
    BY <1>4 DEF WatchLocked, WatchListed, StartFails, driver, history
  <2>3. WakeupSet'
    BY <1>4 DEF WakeupSet, InEds, StartFails
  <2> QED BY <2>1, <2>2, <2>3
<1>5. CASE Woken
  <2>1. KernelTypeOK' /\ registered'[Watcher] = {} /\ activated'[Watcher] = {}
    BY <1>5, SleepEnded DEF Woken
  <2>2. WatchTypes'
    BY <1>5, <2>1, OwnEvents DEF WatchTypes, KernelTypeOK, Woken, driver, history
  <2>3. WatchLocked' /\ WatchListed'
    BY <1>5 DEF WatchLocked, WatchListed, Woken, driver, history
  <2>4. WakeupSet'
    BY <1>5, <2>1 DEF WakeupSet, InEds, Woken
  <2> QED BY <2>2, <2>3, <2>4
<1>6. CASE SleepFails
  <2>1. KernelTypeOK' /\ registered'[Watcher] = {} /\ activated'[Watcher] = {}
    BY <1>6, SleepEnded DEF SleepFails
  <2>2. unhandled \subseteq Owners
    BY Lists DEF WatchListed
  <2>3. WatchTypes'
    BY <1>6, <2>1, <2>2 DEF WatchTypes, SleepFails, driver, history
  <2>4. WatchLocked' /\ WatchListed'
    BY <1>6 DEF WatchLocked, WatchListed, SleepFails, driver, history
  <2>5. WakeupSet'
    BY <1>6, <2>1 DEF WakeupSet, InEds, SleepFails
  <2> QED BY <2>3, <2>4, <2>5
<1>7. CASE LockWatches
  <2>1. WatchTypes'
    BY <1>7 DEF WatchTypes, KernelTypeOK, LockWatches, driver, history
  <2>2. WatchLocked' /\ WatchListed'
    BY <1>7, OwnEvents, Lists DEF WatchLocked, WatchListed, LockWatches, driver, history
  <2>3. WakeupSet'
    BY <1>7 DEF WakeupSet, InEds, LockWatches, driver
  <2> QED BY <2>1, <2>2, <2>3
<1>8. CASE CallHandler
  <2>1. WatchTypes'
    BY <1>8 DEF WatchTypes, KernelTypeOK, CallHandler, driver, history
  <2>2. WatchLocked'
    BY <1>8, Lists DEF WatchLocked, CallHandler, driver, history
  <2>3. WatchListed'
    BY <1>8 DEF WatchListed, CallHandler, driver, history
  <2>4. WakeupSet'
    BY <1>8 DEF WakeupSet, InEds, CallHandler, driver
  <2> QED BY <2>1, <2>2, <2>3, <2>4
<1>9. CASE UnlockWatches
  <2>1. WatchTypes'
    BY <1>9 DEF WatchTypes, KernelTypeOK, UnlockWatches, driver, history
  <2>2. WatchLocked' /\ WatchListed'
    BY <1>9, OwnEvents, Lists DEF WatchLocked, WatchListed, UnlockWatches, driver, history
  <2>3. WakeupSet'
    BY <1>9 DEF WakeupSet, InEds, UnlockWatches, driver
  <2> QED BY <2>1, <2>2, <2>3
<1> QED BY <1>1, <1>2, <1>3, <1>4, <1>5, <1>6, <1>7, <1>8, <1>9 DEF WatcherStep

(* The steps of the threads that make and destroy queues.                  *)
LEMMA OwnersKeep ==
  ASSUME WatchInv, NEW o \in Owners,
         CreateEvent(o) \/ AddWatch(o) \/ AddWatchFails(o) \/ RemoveWatch(o)
         \/ OwnerHolding(o) \/ DestroyEvent(o) \/ Fire(o)
  PROVE  WatchInv'
<1> USE DEF WatchInv
<1>1. CASE CreateEvent(o)
  <2>1. WatchTypes'
    BY <1>1, OwnEvents DEF WatchTypes, KernelTypeOK, CreateEvent, thread, driver, history
  <2>2. WatchLocked'
    BY <1>1 DEF WatchTypes, WatchLocked, CreateEvent, thread, driver, history
  <2>3. WatchListed'
    BY <1>1 DEF WatchTypes, WatchListed, CreateEvent, history, driver
  <2>4. WakeupSet'
    BY <1>1, OwnEvents, Lists DEF WatchTypes, KernelTypeOK, WatchListed, WakeupSet, InEds,
       CreateEvent, thread
  <2> QED BY <2>1, <2>2, <2>3, <2>4
<1>2. CASE AddWatch(o)
  <2>1. /\ watches' \in Seq(Owners) /\ Len(watches') = Len(watches) + 1
        /\ DOMAIN watches' = 1..(Len(watches) + 1)
        /\ watches'[Len(watches) + 1] = o
        /\ \A i \in DOMAIN watches : i \in DOMAIN watches' /\ watches'[i] = watches[i]
    BY <1>2, Lists DEF WatchTypes, AddWatch
  <2>2. Len(watches) + 1 \in DOMAIN watches' /\ Len(watches) + 1 \notin DOMAIN watches
    BY <2>1, Lists
  <2>3. \A i \in DOMAIN watches' : i # Len(watches) + 1 => i \in DOMAIN watches
    BY <2>1, Lists
  <2>4. WatchTypes'
    BY <1>2, <2>1 DEF WatchTypes, KernelTypeOK, AddWatch, thread, driver, history
  <2>5. WatchLocked'
    BY <1>2, <2>1, OwnEvents, Lists
       DEF WatchTypes, WatchLocked, AddWatch, thread, driver, history
  <2>6. WatchListed'
    <3>1. \A i \in DOMAIN watches : watches[i] # o
      BY <1>2 DEF WatchListed, AddWatch
    <3> QED BY <1>2, <2>1, <2>2, <2>3, <3>1, Lists
               DEF WatchTypes, WatchListed, AddWatch, history, driver
  <2>7. WakeupSet'
    BY <1>2, <2>1, <2>2, <2>3 DEF WatchTypes, WakeupSet, InEds, AddWatch, thread, driver
  <2> QED BY <2>4, <2>5, <2>6, <2>7
<1>3. CASE AddWatchFails(o)
  <2>1. WatchTypes'
    BY <1>3 DEF WatchTypes, KernelTypeOK, AddWatchFails, thread, driver, history
  <2>2. WatchLocked'
    BY <1>3, OwnEvents DEF WatchTypes, WatchLocked, AddWatchFails, thread, driver, history
  <2>3. WatchListed'
    BY <1>3 DEF WatchTypes, WatchListed, AddWatchFails, history, driver
  <2>4. WakeupSet'
    BY <1>3 DEF WatchTypes, WatchListed, WakeupSet, InEds, AddWatchFails, thread, driver
  <2> QED BY <2>1, <2>2, <2>3, <2>4
<1>4. CASE RemoveWatch(o)
  <2> DEFINE w == Without(o)
  <2>1. /\ w \in Seq(Owners)
        /\ \A i \in DOMAIN w : /\ w[i] # o
                               /\ \E j \in DOMAIN watches : w[i] = watches[j]
        /\ \A i, j \in DOMAIN w : w[i] = w[j] => i = j
        /\ \A j \in DOMAIN watches : watches[j] # o =>
             \E i \in DOMAIN w : w[i] = watches[j]
    BY Removed
  <2> HIDE DEF w
  <2>2. watches' = w
    BY <1>4 DEF RemoveWatch, w
  <2>3. Len(w) \in Nat
    BY <2>1
  <2>4. WatchTypes'
    BY <1>4, <2>1, <2>2 DEF WatchTypes, KernelTypeOK, RemoveWatch, thread, driver, history
  <2>5. WatchLocked'
    BY <1>4, <2>2, <2>3, OwnEvents
       DEF WatchTypes, WatchLocked, RemoveWatch, thread, driver, history
  <2>6. WatchListed'
    <3>1. owner' = [owner EXCEPT ![o] = "removed"] /\ unhandled' = unhandled \ {o}
          /\ exists' = exists /\ owner[o] = "ready"
      BY <1>4 DEF RemoveWatch, driver
    <3>2. \A i \in DOMAIN w : owner'[w[i]] \in {"added", "ready"}
      BY <2>1, <3>1, Lists DEF WatchTypes, WatchListed
    <3>3. \A p \in unhandled' : \E i \in DOMAIN w : w[i] = p
      BY <2>1, <3>1 DEF WatchListed
    <3>4. \A p \in Owners : p \in exists' <=> owner'[p] # "absent"
      BY <3>1 DEF WatchTypes, WatchListed
    <3> QED BY <2>1, <2>2, <3>2, <3>3, <3>4 DEF WatchListed
  <2>7. WakeupSet'
    <3>1. UNCHANGED <<place, eds, signaled, registered, activated>>
      BY <1>4 DEF RemoveWatch, thread, driver
    <3>2. owner' = [owner EXCEPT ![o] = "removed"]
      BY <1>4 DEF RemoveWatch
    <3>3. ASSUME NEW i \in DOMAIN w, ~InEds(w[i]), owner'[w[i]] # "added"
          PROVE  /\ place = "wait" => signaled[Wake]
                 /\ place = "asleep" => Wake \in activated[Watcher]
      <4>1. PICK j \in DOMAIN watches : w[i] = watches[j] /\ w[i] # o
        BY <2>1
      <4>2. owner[watches[j]] # "added"
        BY <3>2, <3>3, <4>1, Lists DEF WatchTypes
      <4> QED BY <3>3, <4>1, <4>2 DEF WakeupSet
    <3>4. \A i \in DOMAIN w : (\E k \in DOMAIN eds' : eds'[k] = w[i]) <=> InEds(w[i])
      BY <3>1 DEF InEds
    <3>5. (\E k \in DOMAIN eds' : eds'[k] = Wake) <=> InEds(Wake)
      BY <3>1 DEF InEds
    <3> QED BY <2>2, <3>1, <3>3, <3>4, <3>5 DEF WakeupSet, InEds
  <2> QED BY <2>4, <2>5, <2>6, <2>7
<1>5. CASE SignalAdded(o) \/ SignalRemoved(o)
  <2>0. SetEvent(Wake) /\ UNCHANGED <<thread, watches, closer, exitFlag, exists, gone,
                                      added, history>>
        /\ mtx' = Free
        /\ \/ owner[o] = "added" /\ owner' = [owner EXCEPT ![o] = "ready"]
           \/ owner[o] = "removed" /\ owner' = [owner EXCEPT ![o] = "unwatched"]
    BY <1>5 DEF SignalAdded, SignalRemoved
  <2>1. /\ KernelTypeOK' /\ registered' = registered
        /\ Wake \in registered[Watcher] \ activated[Watcher] =>
             activated'[Watcher] = activated[Watcher] \cup {Wake}
        /\ Wake \notin registered[Watcher] \ activated[Watcher] =>
             signaled'[Wake] = TRUE /\ activated'[Watcher] = activated[Watcher]
    BY <2>0, EventSet, OwnEvents
  <2>2. WatchTypes'
    BY <2>0, <2>1 DEF WatchTypes, thread, history, driver
  <2>3. WatchLocked'
    BY <2>0, OwnEvents DEF WatchTypes, WatchLocked, thread, driver, history
  <2>4. WatchListed'
    BY <2>0 DEF WatchTypes, WatchListed, history, driver
  <2>5. WakeupSet'
    <3>1. place' = "wait" => signaled'[Wake]
      BY <2>0, <2>1 DEF WakeupSet, thread
    <3>2. place' = "asleep" => Wake \in activated'[Watcher]
      BY <2>0, <2>1 DEF WakeupSet, thread
    <3> QED BY <2>0, <2>1, <3>1, <3>2 DEF WakeupSet, InEds, thread
  <2> QED BY <2>2, <2>3, <2>4, <2>5
<1>6. CASE DestroyEvent(o)
  <2>1. WatchTypes'
    BY <1>6 DEF WatchTypes, KernelTypeOK, DestroyEvent, thread, history, driver
  <2>2. WatchLocked'
    BY <1>6, OwnEvents DEF WatchTypes, WatchLocked, DestroyEvent, thread, driver, history
  <2>3. WatchListed'
    BY <1>6 DEF WatchTypes, WatchListed, DestroyEvent, history, driver
  <2>4. WakeupSet'
    BY <1>6, OwnEvents DEF WatchTypes, KernelTypeOK, WatchListed, WakeupSet, InEds,
       DestroyEvent, thread
  <2> QED BY <2>1, <2>2, <2>3, <2>4
<1>7. CASE Fire(o)
  <2>1. /\ KernelTypeOK' /\ registered' = registered
        /\ signaled'[Wake] = signaled[Wake] /\ activated[Watcher] \subseteq activated'[Watcher]
        /\ registered[Watcher] = {} => activated'[Watcher] = activated[Watcher]
    BY <1>7, EventSet, OwnEvents DEF Fire
  <2>2. WatchTypes'
    BY <1>7, <2>1 DEF WatchTypes, Fire, thread, driver, history
  <2>3. WatchLocked'
    BY <1>7 DEF WatchLocked, Fire, thread, driver, history
  <2>4. WatchListed'
    BY <1>7, Lists DEF WatchListed, Fire, driver, history
  <2>5. WakeupSet'
    BY <1>7, <2>1 DEF WakeupSet, InEds, Fire, thread
  <2> QED BY <2>2, <2>3, <2>4, <2>5
<1> QED BY <1>1, <1>2, <1>3, <1>4, <1>5, <1>6, <1>7 DEF OwnerHolding

(* The steps of the context's end, and of the devices.                     *)
LEMMA CloserKeeps ==
  ASSUME WatchInv, SetExitFlag \/ CloserStep \/ FaultOccurs
  PROVE  WatchInv'
<1> USE DEF WatchInv
<1>1. CASE SetExitFlag \/ Join
  <2>1. WatchTypes'
    BY <1>1 DEF WatchTypes, KernelTypeOK, SetExitFlag, Join, thread, driver, history
  <2>2. WatchLocked' /\ WatchListed'
    BY <1>1 DEF WatchLocked, WatchListed, SetExitFlag, Join, thread, driver, history
  <2>3. WakeupSet'
    BY <1>1 DEF WakeupSet, InEds, SetExitFlag, Join, thread, driver
  <2> QED BY <2>1, <2>2, <2>3
<1>2. ASSUME NEW e \in {Wake, Fault}, SetEvent(e), closer' \in {"closing", "joining", closer},
             UNCHANGED <<thread, watches, mtx, owner, exitFlag, exists, gone, added, history>>
      PROVE  WatchInv'
  <2>1. /\ KernelTypeOK' /\ registered' = registered
        /\ signaled'[Wake] \/ signaled'[Wake] = signaled[Wake] \/ registered[Watcher] # {}
        /\ activated[Watcher] \subseteq activated'[Watcher]
        /\ registered[Watcher] = {} => activated'[Watcher] = activated[Watcher]
    BY <1>2, EventSet, OwnEvents
  <2>2. WatchTypes'
    BY <1>2, <2>1 DEF WatchTypes, thread, history
  <2>3. WatchLocked' /\ WatchListed'
    BY <1>2 DEF WatchLocked, WatchListed, thread, history
  <2>4. WakeupSet'
    BY <1>2, <2>1 DEF WakeupSet, InEds, thread
  <2> QED BY <2>2, <2>3, <2>4
<1> QED BY <1>1, <1>2 DEF CloserStep, SignalExit, FaultOccurs

LEMMA WatchInvInductive == ASSUME WatchInv, [WatcherNext]_watcherVars PROVE WatchInv'
<1>1. CASE UNCHANGED watcherVars
  BY <1>1 DEF watcherVars, WatchInv, WatchTypes, KernelTypeOK, WatchLocked, WatchListed,
     WakeupSet, InEds
<1> QED BY <1>1, WatcherKeeps, OwnersKeep, CloserKeeps DEF WatcherNext

(* The watcher sleeps past no watch: the wake-up it has received ends the  *)
(* sleep, by whichever event of its list decides.                          *)
LEMMA WatchInvImplies == WatchInv => WatcherInv
<1> SUFFICES ASSUME WatchInv PROVE WatcherInv
  OBVIOUS
<1> USE DEF WatchInv
<1>1. WatcherTypeOK
  BY Lists DEF WatcherTypeOK, WatchTypes, WatchLocked, WatchListed
<1>2. HandlersAlive
  BY Lists DEF HandlersAlive, WatchLocked, WatchListed
<1>3. NoWatchOverlooked
  <2>1. SUFFICES ASSUME place = "asleep", NEW o \in Watched \ ToSet(eds), owner[o] # "added"
                 PROVE  WaitCompletes \/ WaitBreaks
    BY DEF NoWatchOverlooked
  <2>2. PICK i \in DOMAIN watches : watches[i] = o
    BY Lists
  <2>3. ~InEds(watches[i]) /\ owner[watches[i]] # "added"
    BY <2>1, <2>2, Lists DEF InEds
  <2>4. InEds(Wake) /\ Wake \in activated[Watcher]
    BY <2>1, <2>3 DEF WakeupSet
  <2> QED BY <2>4, WakeupEnds
<1> QED BY <1>1, <1>2, <1>3 DEF WatcherInv

(* No handler of a dead queue is called and no watch is slept past         *)
(* (context.cpp:112-190, add_watch() and remove_watch()), for any number   *)
(* of queues, watches and events fired.                                    *)
THEOREM WatcherCorrect == WatcherSpec => []WatcherInv
<1>1. WatcherSpec => []WatchInv
  BY WatchInit, WatchInvInductive, PTL DEF WatcherSpec
<1> QED BY <1>1, WatchInvImplies, PTL
=============================================================================
