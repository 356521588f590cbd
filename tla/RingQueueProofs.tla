--------------------------- MODULE RingQueueProofs ---------------------------
(***************************************************************************)
(* The ring is never overrun, and what the engine executes is the stream   *)
(* submit() accepted: for any threads, any capacity, any lengths, any      *)
(* number of calls, and the two types of queue whose engines count in the  *)
(* units the host takes them to count in.                                  *)
(***************************************************************************)
EXTENDS RingQueue, SequenceTheorems, TLAPS

(* The queues whose pointers submit_impl() converts to the engine's units. *)
Converted == QueueTypes \subseteq {"COMPUTE", "SDMA"}

-----------------------------------------------------------------------------
(* Arithmetic modulo the ring.                                             *)
LEMMA DivMod ==
  ASSUME NEW c \in Nat \ {0}, NEW x \in Int
  PROVE  x % c \in 0..(c - 1) /\ x \div c \in Int /\ x = c * (x \div c) + (x % c)
OBVIOUS

LEMMA ModUnique ==
  ASSUME NEW c \in Nat \ {0}, NEW q \in Int, NEW r \in 0..(c - 1)
  PROVE  (c * q + r) % c = r /\ (c * q + r) \div c = q
<1> DEFINE x == c * q + r
<1>1. x \in Int
  OBVIOUS
<1>2. x % c \in 0..(c - 1) /\ x \div c \in Int /\ x = c * (x \div c) + (x % c)
  BY <1>1, DivMod
<1> QED BY <1>2

LEMMA ModPlus ==
  ASSUME NEW c \in Nat \ {0}, NEW q \in Int, NEW x \in Int
  PROVE  (x + c * q) % c = x % c
<1> PICK r \in 0..(c - 1), p \in Int : x = c * p + r
  BY DivMod
<1>1. (c * p + r) % c = r
  BY ModUnique
<1>2. p + q \in Int /\ x + c * q = c * (p + q) + r
  OBVIOUS
<1>3. (c * (p + q) + r) % c = r
  BY <1>2, ModUnique
<1> QED BY <1>1, <1>2, <1>3

(* A remainder by a multiple of the ring's size has the same remainder by  *)
(* the ring's size.                                                        *)
LEMMA ModMod ==
  ASSUME NEW c \in Nat \ {0}, NEW m \in Nat \ {0}, NEW x \in Int
  PROVE  (x % (c * m)) % c = x % c
<1>1. c * m \in Nat \ {0}
  OBVIOUS
<1>2. PICK q \in Int : x = (c * m) * q + (x % (c * m))
  BY <1>1, DivMod
<1>3. x % (c * m) \in Int
  BY <1>1, DivMod
<1>4. m * q \in Int /\ x = (x % (c * m)) + c * (m * q)
  BY <1>2, <1>3
<1> QED BY <1>3, <1>4, ModPlus

(* What wait_for_room() computes modulo 2^32 and modulo the ring, from a   *)
(* read pointer s at the same place of the ring as the reported r, is the  *)
(* distance from r.                                                        *)
SamePlace(s, r, c) == \E k \in Int : s = r + c * k
Occupied(w, s, c, m) == (((w % c) + c - s) % (c * m)) % c

LEMMA Distance ==
  ASSUME NEW c \in Nat \ {0}, NEW m \in Nat \ {0}, NEW w \in Int, NEW r \in Int,
         w - r \in 0..(c - 1), NEW s \in Int, SamePlace(s, r, c)
  PROVE  Occupied(w, s, c, m) = w - r
<1> PICK k \in Int : s = r + c * k
  BY DEF SamePlace
<1>1. PICK a \in Int : w = c * a + (w % c)
  BY DivMod
<1>2. w % c \in Int
  BY DivMod
<1> DEFINE x == (w % c) + c - s
           q == 1 - a - k
<1>3. c * q = c - c * a - c * k
  OBVIOUS
<1>4. x \in Int /\ q \in Int /\ w - r \in Int /\ x = (w - r) + c * q
  BY <1>1, <1>2, <1>3
<1>5. x % c = (w - r) % c
  <2> HIDE DEF x, q
  <2> QED BY <1>4, ModPlus
<1>6. (w - r) % c = w - r
  OBVIOUS
<1>7. (x % (c * m)) % c = x % c
  <2> HIDE DEF x
  <2> QED BY <1>4, ModMod
<1> QED BY <1>5, <1>6, <1>7 DEF Occupied

(* The n places from that of w on hold w, w + 1, ... while the ring does   *)
(* not end, and no v behind w by at most a ring less n.                    *)
LEMMA PlacesAhead ==
  ASSUME NEW c \in Nat \ {0}, NEW w \in Int, NEW v \in Int, w <= v,
         (w % c) + (v - w) < c
  PROVE  v % c = (w % c) + (v - w)
<1>1. PICK q \in Int, p \in 0..(c - 1) : w = c * q + p /\ p = w % c
  BY DivMod
<1>2. p + (v - w) \in 0..(c - 1) /\ v = c * q + (p + (v - w))
  BY <1>1
<1>3. (c * q + (p + (v - w))) % c = p + (v - w)
  BY <1>2, ModUnique
<1> QED BY <1>1, <1>2, <1>3

LEMMA PlacesBehind ==
  ASSUME NEW c \in Nat \ {0}, NEW w \in Int, NEW v \in Int, NEW n \in Nat,
         v < w, w - v <= c - n
  PROVE  (v % c) \notin (w % c)..((w % c) + n - 1)
<1> SUFFICES ASSUME (v % c) \in (w % c)..((w % c) + n - 1) PROVE FALSE
  OBVIOUS
<1>1. PICK q \in Int, p \in 0..(c - 1) : w = c * q + p /\ p = w % c
  BY DivMod
<1>2. PICK a \in Int, r \in 0..(c - 1) : v = c * a + r /\ r = v % c
  BY DivMod
<1>3. r - p \in 0..(n - 1)
  BY <1>1, <1>2
<1>4. w - v = c * (q - a) - (r - p)
  BY <1>1, <1>2
<1>5. CASE q - a <= 0
  <2>1. c * (q - a) <= 0
    BY <1>5
  <2> QED BY <1>3, <1>4, <2>1
<1>6. CASE q - a >= 1
  <2>1. c * (q - a) >= c
    BY <1>6
  <2> QED BY <1>3, <1>4, <2>1
<1> QED BY <1>5, <1>6

-----------------------------------------------------------------------------
(* Where the pointers stand, in dwords, and what the threads inside        *)
(* submit() have established.                                              *)
Reported == readPtr \div EngineUnit
Polled   == writePtr \div EngineUnit
Rung     == doorbell \div EngineUnit

Waiting == {"idle", "lock"}
Writing == {"padpublish", "paddoorbell", "publish", "doorbell"}

OwnerInside ==
  /\ \A t \in Threads : t \in owner <=> pc[t] \notin Waiting
  /\ \A t, u \in owner : t = u

CallsRun == \A t \in Threads : pc[t] # "idle" => id[t] \in 1..calls

PacketFits ==
  \A t \in Threads :
    /\ pc[t] \in {"padroom", "padpublish", "paddoorbell", "room"}
         => size[id[t]] \in 1..(Cap - 1)
    /\ pc[t] \in {"padroom", "room"} => pos[t] = RingPos
    /\ pc[t] \in {"padpublish", "paddoorbell"} => RingPos = 0
    /\ pc[t] = "room" => pos[t] + size[id[t]] <= Cap

(* The stale read pointer the host reads, the engine's, and the host's own *)
(* are at most a ring apart, in this order.                                *)
PointersOrdered ==
  /\ type # "SDMA_XGMI"
  /\ readPtr = EngineUnit * Reported /\ Reported \in Nat
  /\ writePtr = EngineUnit * Polled /\ Polled \in Nat
  /\ doorbell = EngineUnit * Rung /\ Rung \in Nat
  /\ Reported <= rptr /\ rptr <= pendingWptr
  /\ pendingWptr - Reported < Cap
  /\ Polled <= pendingWptr /\ Rung <= pendingWptr

PublishedUnlessWriting ==
  /\ (\A t \in Threads : pc[t] \notin Writing)
        => Polled = pendingWptr /\ Rung = pendingWptr
  /\ \A t \in Threads : pc[t] \in {"paddoorbell", "doorbell"} => Polled = pendingWptr

RingInv == /\ TypeOK /\ OwnerInside /\ CallsRun /\ PacketFits
           /\ PointersOrdered /\ PublishedUnlessWriting

-----------------------------------------------------------------------------
(* The units: the host's conversion is the engine's.                       *)
LEMMA Units ==
  ASSUME type \in {"COMPUTE", "SDMA"}
  PROVE  /\ EngineUnit \in {1, 4}
         /\ \A w \in Nat : /\ ToHw(w) = EngineUnit * w /\ ToHw(w) \in Nat
                            /\ (EngineUnit * w) \div EngineUnit = w
         /\ PadId = EngineNop
BY DEF EngineUnit, ToHw, PadId, EngineNop

LEMMA WordIsRings ==
  /\ Cap \in Nat \ {0}
  /\ \E m \in Nat \ {0} : Word = Cap * (4 * m) /\ Word = 4 * (Cap * m)
<1>1. Cap \in Nat \ {0} /\ Word \in Nat \ {0} /\ Word % (4 * Cap) = 0
  BY RingAssumption DEF RingAssumption
<1>2. PICK m \in Int : Word = (4 * Cap) * m + 0
  <2> 4 * Cap \in Nat \ {0}
    BY <1>1
  <2> QED BY <1>1, DivMod
<1>3. m \in Nat \ {0}
  BY <1>1, <1>2
<1> QED BY <1>1, <1>2, <1>3

(* The host's read pointer, wrapped at 32 bits and converted to dwords, is *)
(* at the place in the ring the engine reported.                           *)
LEMMA ReadPlace ==
  ASSUME type \in {"COMPUTE", "SDMA"}, readPtr = EngineUnit * Reported, Reported \in Nat
  PROVE  ReadDwords \in Int /\ SamePlace(ReadDwords, Reported, Cap)
<1>1. PICK m \in Nat \ {0} : Word = Cap * (4 * m) /\ Word = 4 * (Cap * m)
  BY WordIsRings
<1>2. Cap \in Nat \ {0}
  BY WordIsRings
<1> DEFINE r == Reported
<1> HIDE DEF r
<1>3. r \in Int /\ r \in Nat
  BY DEF r
<1>4. CASE type = "COMPUTE"
  <2>1. Word \in Nat \ {0}
    BY RingAssumption DEF RingAssumption
  <2>2. PICK q \in Int : r = Word * q + (r % Word)
    BY <2>1, <1>3, DivMod
  <2>3. r % Word \in Int
    BY <2>1, <1>3, DivMod
  <2>4. r % Word = r + Cap * (4 * m * (-q))
    <3>1. Cap * (4 * m * (-q)) = -((Cap * (4 * m)) * q)
      BY <1>2
    <3>2. Cap * (4 * m * (-q)) = -(Word * q) /\ Word * q \in Int
      BY <1>1, <2>1, <3>1
    <3> QED BY <1>3, <2>2, <2>3, <3>2
  <2>5. ReadDwords = r % Word
    BY <1>4 DEF ReadDwords, EngineUnit, r
  <2>6. 4 * m * (-q) \in Int
    OBVIOUS
  <2> QED BY <2>3, <2>4, <2>5, <2>6 DEF r, SamePlace
<1>5. CASE type = "SDMA"
  <2> DEFINE n == Cap * m
  <2>1. n \in Nat \ {0}
    BY <1>2
  <2>2. PICK q \in Int, y \in 0..(n - 1) : r = n * q + y
    <3> HIDE DEF n
    <3> QED BY <1>3, <2>1, DivMod
  <2>3. (4 * r) % (4 * n) = 4 * y
    <3> HIDE DEF n
    <3>1. 4 * n \in Nat \ {0} /\ 4 * y \in 0..(4 * n - 1) /\ 4 * r = (4 * n) * q + 4 * y
      BY <2>1, <2>2
    <3>2. \A z, x \in Int : z \in 0..(4 * n - 1) => ((4 * n) * x + z) % (4 * n) = z
      BY <3>1, ModUnique
    <3> QED BY <3>1, <3>2
  <2>4. ReadDwords = y
    <3>1. readPtr = 4 * r /\ ReadDwords = (readPtr % Word) \div 4
      BY <1>5 DEF ReadDwords, EngineUnit, r
    <3>2. (4 * y) \div 4 = y
      BY <2>1, <2>2
    <3> QED BY <1>1, <2>3, <3>1, <3>2
  <2>5. y = r + Cap * (m * (-q))
    BY <1>2, <1>3, <2>2
  <2>6. m * (-q) \in Int
    OBVIOUS
  <2> QED BY <2>2, <2>4, <2>5, <2>6 DEF r, SamePlace
<1> QED BY <1>4, <1>5

(* The occupancy wait_for_room() computes is the one against the reported  *)
(* read pointer: neither the width of the index nor the modulo loses it.   *)
LEMMA InFlightExact ==
  ASSUME TypeOK, PointersOrdered
  PROVE  InFlight = pendingWptr - Reported
<1>1. type \in {"COMPUTE", "SDMA"}
  BY RingAssumption DEF TypeOK, PointersOrdered, RingAssumption
<1>2. ReadDwords \in Int /\ SamePlace(ReadDwords, Reported, Cap)
  BY <1>1, ReadPlace DEF PointersOrdered
<1>3. PICK m \in Nat \ {0} : Word = Cap * m
  <2> PICK n \in Nat \ {0} : Word = Cap * (4 * n)
    BY WordIsRings
  <2> 4 * n \in Nat \ {0}
    OBVIOUS
  <2> QED OBVIOUS
<1>4. Cap \in Nat \ {0}
  BY WordIsRings
<1>5. pendingWptr \in Int /\ Reported \in Int /\ pendingWptr - Reported \in 0..(Cap - 1)
  BY <1>4 DEF TypeOK, PointersOrdered
<1>6. Occupied(pendingWptr, ReadDwords, Cap, m) = pendingWptr - Reported
  BY <1>2, <1>4, <1>5, Distance
<1> QED BY <1>3, <1>6 DEF InFlight, RingPos, Occupied

-----------------------------------------------------------------------------
(* Positions in the ring.                                                  *)
LEMMA RingPosInRing ==
  ASSUME TypeOK
  PROVE  Cap \in Nat \ {0} /\ RingPos \in 0..(Cap - 1)
<1>1. Cap \in Nat \ {0}
  BY WordIsRings
<1>2. pendingWptr \in Int
  BY DEF TypeOK
<1> QED BY <1>1, <1>2, DivMod DEF RingPos

(* Padding ends at the start of the ring.                                  *)
LEMMA PaddingWraps ==
  ASSUME TypeOK, pendingWptr' = pendingWptr + (Cap - RingPos)
  PROVE  RingPos' = 0
<1>1. Cap \in Nat \ {0}
  BY WordIsRings
<1>2. pendingWptr \in Int
  BY DEF TypeOK
<1>3. PICK q \in Int : pendingWptr = Cap * q + RingPos
  BY <1>1, <1>2, DivMod DEF RingPos
<1>4. q + 1 \in Int /\ 0 \in 0..(Cap - 1) /\ pendingWptr' = Cap * (q + 1) + 0
  BY <1>1, <1>3, RingPosInRing
<1>5. (Cap * (q + 1) + 0) % Cap = 0
  BY <1>1, <1>4, ModUnique
<1> QED BY <1>4, <1>5 DEF RingPos

LEMMA WrittenTyped ==
  ASSUME TypeOK, NEW c \in Int, NEW p \in Nat, NEW n \in Nat
  PROVE  Written(c, p, n) \in [0..(Cap - 1) -> [id : Int, k : Nat, len : Nat]]
BY DEF TypeOK, Written, Dword

LEMMA RingInvInit == Converted /\ Init => RingInv
<1> SUFFICES ASSUME Converted, Init PROVE RingInv
  OBVIOUS
<1>1. Cap \in Nat \ {0} /\ MaxCalls \in Nat /\ type \in {"COMPUTE", "SDMA"}
  BY RingAssumption DEF RingAssumption, Converted, Init
<1>2. TypeOK
  <2> USE DEF Init, Calls
  <2>1. type \in QueueTypes /\ hung \in BOOLEAN /\ owner \in SUBSET Threads
    OBVIOUS
  <2>2. pc \in [Threads -> Places] /\ result \in [Calls -> Results]
    BY DEF Places, Results
  <2>3. /\ id \in [Threads -> 0..MaxCalls] /\ pos \in [Threads -> 0..(Cap - 1)]
        /\ calls \in 0..MaxCalls /\ size \in [Calls -> Sizes \cup {0}]
    BY <1>1
  <2>4. accepted \in Seq(Calls) /\ executed \in Seq(Calls \cup {0})
    OBVIOUS
  <2>5. ring \in [0..(Cap - 1) -> [id : Int, k : Nat, len : Nat]]
    BY DEF Zeroed
  <2> QED BY <2>1, <2>2, <2>3, <2>4, <2>5 DEF TypeOK
<1>3. Polled = 0 /\ Rung = 0 /\ Reported = 0 /\ EngineUnit \in {1, 4}
  BY <1>1 DEF Init, Polled, Rung, Reported, EngineUnit
<1>4. PointersOrdered /\ PublishedUnlessWriting
  BY <1>1, <1>3 DEF Init, PointersOrdered, PublishedUnlessWriting
<1>5. OwnerInside /\ CallsRun /\ PacketFits
  BY DEF Init, OwnerInside, CallsRun, PacketFits, Waiting
<1> QED BY <1>2, <1>4, <1>5 DEF RingInv

LEMMA RingInvNext ==
  ASSUME RingInv, [Next]_vars
  PROVE  RingInv'
<1> USE DEF RingInv
<1>1. type \in {"COMPUTE", "SDMA"}
  BY RingAssumption DEF TypeOK, PointersOrdered, RingAssumption
<1>2. Cap \in Nat \ {0} /\ RingPos \in 0..(Cap - 1) /\ MaxCalls \in Nat /\ Sizes \subseteq Nat
  BY RingPosInRing, RingAssumption DEF RingAssumption
<1>3. InFlight = pendingWptr - Reported
  BY InFlightExact
<1>a. ASSUME NEW t \in Threads, NEW n \in Sizes, Call(t, n)
      PROVE  RingInv'
  <2> USE <1>a DEF Call, engine, Goto
  <2>1. TypeOK'
    BY <1>2 DEF TypeOK, Calls, Places, Results
  <2>2. OwnerInside'
    BY DEF OwnerInside, TypeOK, Waiting
  <2>6. CallsRun'
    <3> SUFFICES ASSUME NEW u \in Threads, pc'[u] # "idle"
                 PROVE  id'[u] \in 1..calls'
      BY DEF CallsRun
    <3>1. calls \in Nat /\ calls' = calls + 1
      BY DEF TypeOK
    <3>2. CASE u = t
      BY <3>1, <3>2 DEF TypeOK
    <3>3. CASE u # t
      BY <3>1, <3>3 DEF CallsRun, TypeOK
    <3> QED BY <3>2, <3>3
  <2>3. PacketFits'
    <3> SUFFICES ASSUME NEW u \in Threads, pc'[u] \notin {"idle", "lock"}
                 PROVE  /\ u # t /\ pc[u] = pc'[u] /\ pos[u] = pos'[u]
                        /\ size'[id'[u]] = size[id[u]] /\ RingPos' = RingPos
      BY DEF PacketFits
    <3>1. u # t
      BY DEF TypeOK
    <3>2. id[u] \in 1..calls /\ calls \in Nat
      BY <3>1 DEF CallsRun, TypeOK
    <3> QED BY <3>1, <3>2 DEF RingPos, TypeOK
  <2>4. PointersOrdered'
    BY DEF PointersOrdered, Reported, Polled, Rung, EngineUnit
  <2>5. PublishedUnlessWriting'
    BY DEF PublishedUnlessWriting, Polled, Rung, EngineUnit, Writing, TypeOK
  <2> QED BY <2>1, <2>2, <2>3, <2>4, <2>5, <2>6
<1>b. ASSUME NEW t \in Threads, AcquireSubmitMutex(t)
      PROVE  RingInv'
  <2> USE <1>b DEF AcquireSubmitMutex, engine, Goto
  <2>1. TypeOK'
    BY DEF TypeOK, Places
  <2>2. OwnerInside'
    BY DEF OwnerInside, TypeOK, Waiting
  <2>3. CallsRun' /\ PacketFits'
    BY DEF CallsRun, PacketFits, TypeOK, RingPos
  <2>4. PointersOrdered'
    BY DEF PointersOrdered, Reported, Polled, Rung, EngineUnit
  <2>5. PublishedUnlessWriting'
    BY DEF PublishedUnlessWriting, Polled, Rung, EngineUnit, Writing, TypeOK
  <2> QED BY <2>1, <2>2, <2>3, <2>4, <2>5
<1>4. ASSUME NEW t \in Threads, pc[t] \notin Waiting
      PROVE  /\ owner = {t} /\ id[t] \in Calls /\ size[id[t]] \in Nat
             /\ \A u \in Threads : u # t => pc[u] \in Waiting
  <2>1. owner = {t} /\ \A u \in Threads : u # t => pc[u] \in Waiting
    BY <1>4 DEF OwnerInside, TypeOK
  <2>2. id[t] \in Calls
    BY <1>2, <1>4 DEF CallsRun, TypeOK, Calls, Waiting
  <2>3. size[id[t]] \in Sizes \cup {0}
    BY <2>2 DEF TypeOK
  <2>4. size[id[t]] \in Nat
    BY <1>2, <2>3
  <2> QED BY <2>1, <2>2, <2>4
<1>c. ASSUME NEW t \in Threads, EnterSubmitImpl(t)
      PROVE  RingInv'
  <2> USE <1>c
  <2>1. /\ owner = {t} /\ id[t] \in Calls /\ size[id[t]] \in Nat
        /\ \A u \in Threads : u # t => pc[u] \in Waiting
    <3>1. pc[t] = "enter"
      BY DEF EnterSubmitImpl
    <3> QED BY <1>4, <3>1 DEF Waiting
  <2>2. TypeOK'
    BY <1>2, <2>1 DEF TypeOK, Places, Results, EnterSubmitImpl, engine, Goto, Return
  <2>3. OwnerInside'
    BY <2>1 DEF OwnerInside, TypeOK, Waiting, EnterSubmitImpl, Goto, Return
  <2>4. CallsRun'
    BY DEF CallsRun, TypeOK, EnterSubmitImpl, Goto, Return
  <2>5. PacketFits'
    <3>1. RingPos' = RingPos /\ UNCHANGED <<id, size>>
      BY DEF EnterSubmitImpl, RingPos
    <3>2. \A u \in Threads : u # t => pc'[u] \in Waiting
      BY <2>1 DEF TypeOK, EnterSubmitImpl, Goto, Return
    <3>3. /\ pos'[t] = RingPos
          /\ \/ pc'[t] = "idle"
             \/ /\ size[id[t]] \in 1..(Cap - 1)
                /\ pc'[t] = IF RingPos + size[id[t]] > Cap THEN "padroom" ELSE "room"
      BY DEF TypeOK, EnterSubmitImpl, Goto, Return
    <3> QED BY <1>2, <2>1, <3>1, <3>2, <3>3 DEF PacketFits, Waiting
  <2>6. PointersOrdered'
    BY DEF PointersOrdered, Reported, Polled, Rung, EngineUnit, EnterSubmitImpl, engine
  <2>7. PublishedUnlessWriting'
    BY <2>1 DEF PublishedUnlessWriting, Polled, Rung, EngineUnit, Writing, Waiting, TypeOK,
              EnterSubmitImpl, Goto, Return
  <2> QED BY <2>2, <2>3, <2>4, <2>5, <2>6, <2>7
<1>d. ASSUME NEW t \in Threads, WritePadding(t)
      PROVE  RingInv'
  <2> USE <1>d DEF WritePadding, engine, Goto
  <2>1. /\ owner = {t} /\ id[t] \in Calls /\ size[id[t]] \in Nat
        /\ \A u \in Threads : u # t => pc[u] \in Waiting
    BY <1>4 DEF Waiting
  <2>2. pos[t] = RingPos /\ Cap - pos[t] \in 1..Cap
    BY <1>2 DEF PacketFits
  <2>3. TypeOK'
    <3>1. ring' \in [0..(Cap - 1) -> [id : Int, k : Nat, len : Nat]]
      <4>1. PadId \in Int /\ pos[t] \in Nat /\ Cap - pos[t] \in Nat
        BY <1>2, <2>2 DEF PadId, NopSDMA, NopPM4
      <4> QED BY <4>1, WrittenTyped
    <3>2. pendingWptr' \in Nat
      BY <1>2, <2>2 DEF TypeOK
    <3> QED BY <3>1, <3>2 DEF TypeOK, Places
  <2>4. OwnerInside'
    BY <2>1 DEF OwnerInside, TypeOK, Waiting
  <2>5. CallsRun'
    BY DEF CallsRun, TypeOK
  <2>6. PacketFits'
    <3>1. RingPos' = 0
      BY <2>2, PaddingWraps
    <3> QED BY <2>1, <3>1 DEF PacketFits, TypeOK, Waiting
  <2>7. PointersOrdered'
    <3>1. InFlight + (Cap - pos[t]) < Cap
      BY <2>2 DEF HasRoom
    <3>2. UNCHANGED <<Reported, Polled, Rung, EngineUnit>>
      BY DEF Reported, Polled, Rung, EngineUnit
    <3>3. /\ rptr \in Nat /\ pendingWptr \in Nat /\ Reported \in Nat
          /\ Polled \in Nat /\ Rung \in Nat
      BY DEF PointersOrdered, TypeOK
    <3>4. pendingWptr' \in Nat /\ pendingWptr' >= pendingWptr /\ pendingWptr' - Reported < Cap
      BY <1>2, <1>3, <2>1, <2>2, <3>1, <3>3
    <3>5. rptr' <= pendingWptr' /\ Polled <= pendingWptr' /\ Rung <= pendingWptr'
      BY <3>3, <3>4 DEF PointersOrdered
    <3> QED BY <3>2, <3>4, <3>5 DEF PointersOrdered
  <2>8. PublishedUnlessWriting'
    BY <2>1 DEF PublishedUnlessWriting, Writing, Waiting, TypeOK
  <2> QED BY <2>3, <2>4, <2>5, <2>6, <2>7, <2>8
<1>e. ASSUME NEW t \in Threads, WritePacket(t)
      PROVE  RingInv'
  <2> USE <1>e DEF WritePacket, engine, Goto
  <2>1. /\ owner = {t} /\ id[t] \in Calls /\ size[id[t]] \in Nat
        /\ \A u \in Threads : u # t => pc[u] \in Waiting
    BY <1>4 DEF Waiting
  <2>2. pos[t] = RingPos /\ size[id[t]] \in 1..(Cap - 1)
    BY <1>2 DEF PacketFits
  <2>3. TypeOK'
    <3>1. ring' \in [0..(Cap - 1) -> [id : Int, k : Nat, len : Nat]]
      <4>1. id[t] \in Int /\ pos[t] \in Nat /\ size[id[t]] \in Nat
        BY <1>2, <2>1, <2>2 DEF Calls
      <4> QED BY <4>1, WrittenTyped
    <3>2. accepted' \in Seq(Calls)
      BY <2>1 DEF TypeOK
    <3>3. pendingWptr' \in Nat
      BY <2>1 DEF TypeOK
    <3> QED BY <3>1, <3>2, <3>3 DEF TypeOK, Places
  <2>4. OwnerInside'
    BY <2>1 DEF OwnerInside, TypeOK, Waiting
  <2>5. CallsRun'
    BY DEF CallsRun, TypeOK
  <2>6. PacketFits'
    BY <2>1 DEF PacketFits, TypeOK, Waiting
  <2>7. PointersOrdered'
    <3>1. InFlight + size[id[t]] < Cap
      BY <2>2 DEF HasRoom
    <3>2. UNCHANGED <<Reported, Polled, Rung, EngineUnit>>
      BY DEF Reported, Polled, Rung, EngineUnit
    <3>3. /\ rptr \in Nat /\ pendingWptr \in Nat /\ Reported \in Nat
          /\ Polled \in Nat /\ Rung \in Nat
      BY DEF PointersOrdered, TypeOK
    <3>4. pendingWptr' \in Nat /\ pendingWptr' >= pendingWptr /\ pendingWptr' - Reported < Cap
      BY <1>2, <1>3, <2>1, <2>2, <3>1, <3>3
    <3>5. rptr' <= pendingWptr' /\ Polled <= pendingWptr' /\ Rung <= pendingWptr'
      BY <3>3, <3>4 DEF PointersOrdered
    <3> QED BY <3>2, <3>4, <3>5 DEF PointersOrdered
  <2>8. PublishedUnlessWriting'
    BY <2>1 DEF PublishedUnlessWriting, Writing, Waiting, TypeOK
  <2> QED BY <2>3, <2>4, <2>5, <2>6, <2>7, <2>8
<1>5. EngineUnit \in {1, 4} /\ ToHw(pendingWptr) = EngineUnit * pendingWptr
      /\ (EngineUnit * pendingWptr) \div EngineUnit = pendingWptr /\ ToHw(pendingWptr) \in Nat
  BY <1>1, Units DEF TypeOK
<1>f. ASSUME NEW t \in Threads, Publish(t)
      PROVE  RingInv'
  <2> USE <1>f DEF Publish, engine, Goto
  <2>1. \A u \in Threads : u # t => pc[u] \in Waiting
    BY <1>4 DEF Waiting
  <2>2. TypeOK'
    BY <1>5 DEF TypeOK, Places
  <2>3. OwnerInside' /\ CallsRun' /\ PacketFits'
    <3>1. OwnerInside'
      BY DEF OwnerInside, TypeOK, Waiting
    <3>2. CallsRun'
      BY DEF CallsRun, TypeOK
    <3>3. PacketFits'
      BY DEF PacketFits, TypeOK, RingPos
    <3> QED BY <3>1, <3>2, <3>3
  <2>4. Polled' = pendingWptr /\ EngineUnit' = EngineUnit /\ Rung' = Rung /\ Reported' = Reported
    BY <1>5 DEF Polled, Rung, Reported, EngineUnit
  <2>5. PointersOrdered'
    <3>1. pendingWptr \in Nat
      BY DEF TypeOK
    <3> QED BY <1>5, <2>4, <3>1 DEF PointersOrdered
  <2>6. PublishedUnlessWriting'
    BY <2>1, <2>4 DEF PublishedUnlessWriting, Writing, Waiting, TypeOK
  <2> QED BY <2>2, <2>3, <2>5, <2>6
<1>g. ASSUME NEW t \in Threads, RingPadDoorbell(t)
      PROVE  RingInv'
  <2> USE <1>g DEF RingPadDoorbell, engine, Goto
  <2>1. \A u \in Threads : u # t => pc[u] \in Waiting
    BY <1>4 DEF Waiting
  <2>2. TypeOK'
    <3>1. pos' \in [Threads -> 0..(Cap - 1)] /\ pc' \in [Threads -> Places]
      BY <1>2 DEF TypeOK, Places
    <3> QED BY <1>5, <3>1 DEF TypeOK
  <2>3. OwnerInside' /\ CallsRun' /\ PacketFits'
    <3>1. OwnerInside'
      BY DEF OwnerInside, TypeOK, Waiting
    <3>2. CallsRun'
      BY DEF CallsRun, TypeOK
    <3>3. PacketFits'
      <4>1. size[id[t]] \in 1..(Cap - 1) /\ RingPos = 0 /\ RingPos' = RingPos
        BY DEF PacketFits, RingPos
      <4>2. pos'[t] = 0 /\ pc'[t] = "room" /\ \A u \in Threads : u # t => pc'[u] \in Waiting
        BY <1>2, <2>1 DEF TypeOK
      <4> QED BY <1>2, <4>1, <4>2 DEF PacketFits, Waiting
    <3> QED BY <3>1, <3>2, <3>3
  <2>4. Polled' = Polled /\ EngineUnit' = EngineUnit /\ Rung' = pendingWptr /\ Reported' = Reported
    BY <1>5 DEF Polled, Rung, Reported, EngineUnit
  <2>5. PointersOrdered'
    <3>1. pendingWptr \in Nat
      BY DEF TypeOK
    <3> QED BY <1>5, <2>4, <3>1 DEF PointersOrdered
  <2>6. PublishedUnlessWriting'
    BY <2>1, <2>4 DEF PublishedUnlessWriting, Writing, Waiting, TypeOK
  <2> QED BY <2>2, <2>3, <2>5, <2>6
<1>h. ASSUME NEW t \in Threads, RingDoorbell(t)
      PROVE  RingInv'
  <2> USE <1>h DEF RingDoorbell, engine, Goto, Return
  <2>1. owner = {t} /\ \A u \in Threads : u # t => pc[u] \in Waiting
    BY <1>4 DEF Waiting
  <2>2. TypeOK'
    <3>1. result' \in [Calls -> Results] /\ pc' \in [Threads -> Places]
      BY DEF TypeOK, Places, Results
    <3> QED BY <1>5, <3>1 DEF TypeOK
  <2>3. OwnerInside' /\ CallsRun' /\ PacketFits'
    <3>1. OwnerInside'
      BY <2>1 DEF OwnerInside, TypeOK, Waiting
    <3>2. CallsRun'
      BY DEF CallsRun, TypeOK
    <3>3. PacketFits'
      BY <2>1 DEF PacketFits, TypeOK, Waiting
    <3> QED BY <3>1, <3>2, <3>3
  <2>4. Polled' = Polled /\ EngineUnit' = EngineUnit /\ Rung' = pendingWptr /\ Reported' = Reported
    BY <1>5 DEF Polled, Rung, Reported, EngineUnit
  <2>5. PointersOrdered'
    <3>1. pendingWptr \in Nat
      BY DEF TypeOK
    <3> QED BY <1>5, <2>4, <3>1 DEF PointersOrdered
  <2>6. PublishedUnlessWriting'
    BY <2>1, <2>4 DEF PublishedUnlessWriting, Writing, Waiting, TypeOK
  <2> QED BY <2>2, <2>3, <2>5, <2>6
<1>i. ASSUME NEW t \in Threads, TimeOut(t)
      PROVE  RingInv'
  <2> USE <1>i DEF TimeOut, engine, Goto, Return
  <2>0. pc[t] \in {"padroom", "room"}
    OBVIOUS
  <2>1. owner = {t} /\ \A u \in Threads : u # t => pc[u] \in Waiting
    BY <1>4, <2>0 DEF Waiting
  <2>2. TypeOK'
    BY DEF TypeOK, Places, Results
  <2>3. OwnerInside' /\ CallsRun' /\ PacketFits'
    <3>1. OwnerInside'
      BY <2>1 DEF OwnerInside, TypeOK, Waiting
    <3>2. CallsRun'
      BY DEF CallsRun, TypeOK
    <3>3. PacketFits'
      BY <2>1 DEF PacketFits, TypeOK, Waiting
    <3> QED BY <3>1, <3>2, <3>3
  <2>4. UNCHANGED <<Polled, EngineUnit, Rung, Reported>>
    BY DEF Polled, Rung, Reported, EngineUnit
  <2>5. PointersOrdered'
    BY <2>4 DEF PointersOrdered
  <2>6. PublishedUnlessWriting'
    BY <2>0, <2>1, <2>4 DEF PublishedUnlessWriting, Writing, Waiting, TypeOK
  <2> QED BY <2>2, <2>3, <2>5, <2>6
<1>6. ASSUME NEW limit \in Nat, limit <= pendingWptr, Consume(limit)
      PROVE  RingInv'
  <2> USE <1>6 DEF Consume, host
  <2>1. rptr < limit /\ rptr \in Nat /\ pendingWptr \in Nat /\ Reported \in Nat
    BY DEF TypeOK, PointersOrdered
  <2>2. Header \in [id : Int, k : Nat, len : Nat]
    <3>1. rptr % Cap \in 0..(Cap - 1)
      <4> rptr \in Int
        BY <2>1
      <4> QED BY <1>2, DivMod
    <3> QED BY <3>1 DEF TypeOK, Header
  <2>3. rptr' \in Nat /\ rptr <= rptr' /\ rptr' <= limit
    BY <2>1, <2>2
  <2>4. executed' \in Seq(Calls \cup {0})
    <3>1. CASE Intact /\ Header.id = EngineNop
      BY <3>1 DEF TypeOK
    <3>2. CASE Intact /\ Header.id # EngineNop
      BY <3>2 DEF TypeOK, Intact
    <3>3. CASE ~Intact
      BY <3>3 DEF TypeOK
    <3> QED BY <3>1, <3>2, <3>3
  <2>5. TypeOK'
    BY <2>3, <2>4 DEF TypeOK
  <2>6. OwnerInside' /\ CallsRun' /\ PacketFits'
    BY DEF OwnerInside, CallsRun, PacketFits, RingPos
  <2>7. UNCHANGED <<Polled, EngineUnit, Rung, Reported>>
    BY DEF Polled, Rung, Reported, EngineUnit
  <2>8. PointersOrdered'
    BY <2>1, <2>3, <2>7 DEF PointersOrdered
  <2>9. PublishedUnlessWriting'
    BY <2>7 DEF PublishedUnlessWriting
  <2> QED BY <2>5, <2>6, <2>8, <2>9
<1>j. CASE ConsumeRung \/ ConsumePolled
  <2>1. Rung \in Nat /\ Rung <= pendingWptr /\ Polled \in Nat /\ Polled <= pendingWptr
    BY DEF PointersOrdered
  <2> QED BY <1>j, <1>6, <2>1 DEF ConsumeRung, ConsumePolled, Rung, Polled
<1>k. CASE ReportReadPtr
  <2> USE <1>k DEF ReportReadPtr, host
  <2>1. rptr \in Nat /\ pendingWptr \in Nat /\ Reported \in Nat /\ rptr <= pendingWptr
        /\ Reported <= rptr /\ pendingWptr - Reported < Cap
    BY DEF TypeOK, PointersOrdered
  <2>2. readPtr' \in Nat /\ EngineUnit' = EngineUnit /\ Reported' = rptr
    BY <1>5, <2>1 DEF EngineUnit, Reported
  <2>3. TypeOK'
    BY <2>2 DEF TypeOK
  <2>4. OwnerInside' /\ CallsRun' /\ PacketFits'
    BY DEF OwnerInside, CallsRun, PacketFits, RingPos
  <2>5. UNCHANGED <<Polled, EngineUnit, Rung>>
    BY DEF Polled, Rung, EngineUnit
  <2>6. PointersOrdered'
    BY <1>2, <2>1, <2>2, <2>5 DEF PointersOrdered
  <2>7. PublishedUnlessWriting'
    BY <2>5 DEF PublishedUnlessWriting
  <2> QED BY <2>3, <2>4, <2>6, <2>7
<1>l. CASE Hang \/ UNCHANGED vars
  <2> USE <1>l DEF Hang, host, vars
  <2>1. TypeOK'
    BY DEF TypeOK
  <2>2. OwnerInside' /\ CallsRun' /\ PacketFits'
    BY DEF OwnerInside, CallsRun, PacketFits, RingPos
  <2>3. UNCHANGED <<Polled, EngineUnit, Rung, Reported>>
    BY DEF Polled, Rung, Reported, EngineUnit
  <2>4. PointersOrdered' /\ PublishedUnlessWriting'
    BY <2>3 DEF PointersOrdered, PublishedUnlessWriting
  <2> QED BY <2>1, <2>2, <2>4
<1> QED
  BY <1>a, <1>b, <1>c, <1>d, <1>e, <1>f, <1>g, <1>h, <1>i, <1>j, <1>k, <1>l
  DEF Next, SubmitStep

LEMMA RingInvariant ==
  ASSUME Converted
  PROVE  Spec => []RingInv
<1>1. Init => RingInv
  BY RingInvInit
<1>2. RingInv /\ [Next]_vars => RingInv'
  BY RingInvNext
<1> QED BY <1>1, <1>2, PTL DEF Spec

(* No dword the engine has yet to read is ever overwritten, and at rest    *)
(* both write pointers tell of everything submit() wrote.                  *)
THEOREM RingNeverOverrun ==
  ASSUME Converted
  PROVE  Spec => []Inv
<1>1. RingInv => Inv
  <2> SUFFICES ASSUME RingInv PROVE Inv
    OBVIOUS
  <2>1. NoOverrun
    BY WordIsRings DEF RingInv, TypeOK, PointersOrdered, NoOverrun
  <2>2. NothingUnpublished
    <3> SUFFICES ASSUME owner = {}
                 PROVE  writePtr = ToHw(pendingWptr) /\ doorbell = ToHw(pendingWptr)
      BY DEF NothingUnpublished
    <3>1. Polled = pendingWptr /\ Rung = pendingWptr
      BY DEF RingInv, OwnerInside, PublishedUnlessWriting, Waiting, Writing
    <3>2. type \in {"COMPUTE", "SDMA"} /\ pendingWptr \in Nat
      BY RingAssumption DEF RingInv, TypeOK, PointersOrdered, RingAssumption
    <3>3. ToHw(pendingWptr) = EngineUnit * pendingWptr
      BY <3>2, Units
    <3> QED BY <3>1, <3>3 DEF RingInv, PointersOrdered
  <2> QED BY <2>1, <2>2 DEF RingInv, Inv
<1> QED BY <1>1, RingInvariant, PTL

-----------------------------------------------------------------------------
(* The unread dwords of the ring are whole packets.                        *)
Unread == rptr..(pendingWptr - 1)
At(w) == ring[w % Cap]

PacketWhole(w) ==
  LET d == At(w) IN
  /\ d.id \in Calls \cup {EngineNop} /\ d.k \in 1..d.len
  /\ \A j \in 1..d.len : /\ w - d.k + j \in Unread
                         /\ At(w - d.k + j) = [d EXCEPT !.k = j]
PacketsWhole == \A w \in Unread : PacketWhole(w)

(* They are the accepted calls the engine has not executed, in order.      *)
Ahead == (Len(executed) + 1)..Len(accepted)

AcceptedOnce == \A i, j \in DOMAIN accepted : accepted[i] = accepted[j] => i = j
UnreadAhead == \A w \in Unread : At(w).id \in Calls =>
                 \E i \in Ahead : accepted[i] = At(w).id
AheadUnread == \A i \in Ahead : \E w \in Unread : At(w).id = accepted[i]
InOrder == \A v, w \in Unread : \A i, j \in Ahead :
             At(v).id = accepted[i] /\ At(w).id = accepted[j] /\ v <= w => i <= j
OnePacketEach == \A v, w \in Unread : At(v).id \in Calls /\ At(v).id = At(w).id
                   => v - At(v).k = w - At(w).k

OrderInv == /\ PacketsWhole /\ Len(executed) <= Len(accepted)
            /\ AcceptedOnce /\ UnreadAhead /\ AheadUnread /\ InOrder /\ OnePacketEach

(* What the callers have been told.                                        *)
Entered(c) == \E i \in DOMAIN accepted : accepted[i] = c

CallsDiffer == \A t, u \in Threads :
                 pc[t] # "idle" /\ pc[u] # "idle" /\ id[t] = id[u] => t = u
RunningCalls == \A t \in Threads : pc[t] # "idle" =>
                  /\ result[id[t]] = "running"
                  /\ Entered(id[t]) <=> pc[t] \in {"publish", "doorbell"}
LaterCalls == \A c \in Calls : c > calls => result[c] = "none" /\ ~Entered(c)

CallerInv == CallsDiffer /\ RunningCalls /\ LaterCalls

StreamInv == OrderInv /\ CallerInv

-----------------------------------------------------------------------------
LEMMA AtTyped ==
  ASSUME TypeOK, NEW w \in Int
  PROVE  At(w) \in [id : Int, k : Nat, len : Nat]
<1>1. w % Cap \in 0..(Cap - 1)
  BY WordIsRings, DivMod
<1> QED BY <1>1 DEF At, TypeOK

(* A packet x of n dwords written at the host's position leaves the unread *)
(* dwords as they are and puts its own behind them.                        *)
Appends(x, n) ==
  /\ n \in 1..Cap /\ RingPos + n <= Cap /\ pendingWptr + n - rptr < Cap
  /\ ring' = Written(x, RingPos, n)
  /\ pendingWptr' = pendingWptr + n
  /\ UNCHANGED <<rptr, type>>

LEMMA AppendsBehind ==
  ASSUME RingInv, NEW x, NEW n, Appends(x, n)
  PROVE  /\ Unread' = Unread \cup pendingWptr..(pendingWptr + n - 1)
         /\ \A w \in Unread : w \in Int /\ At(w)' = At(w)
         /\ \A w \in pendingWptr..(pendingWptr + n - 1) :
              w \in Int /\ At(w)' = Dword(x, w - pendingWptr + 1, n)
<1> USE DEF Appends
<1>1. /\ pendingWptr \in Nat /\ rptr \in Nat /\ rptr <= pendingWptr
      /\ Cap \in Nat \ {0} /\ RingPos \in 0..(Cap - 1)
  BY RingPosInRing DEF RingInv, TypeOK, PointersOrdered
<1>2. Unread' = Unread \cup pendingWptr..(pendingWptr + n - 1)
  BY <1>1 DEF Unread
<1>3. ASSUME NEW w \in Unread
      PROVE  w \in Int /\ At(w)' = At(w)
  <2>1. w \in Int /\ w < pendingWptr /\ pendingWptr - w <= Cap - n /\ n \in Nat
    BY <1>1 DEF Unread
  <2>2. (w % Cap) \notin RingPos..(RingPos + n - 1)
    <3>1. pendingWptr \in Int /\ Cap \in Nat \ {0}
      BY <1>1
    <3> QED BY <2>1, <3>1, PlacesBehind DEF RingPos
  <2>3. w % Cap \in 0..(Cap - 1)
    BY <1>1, <2>1, DivMod
  <2> QED BY <2>1, <2>2, <2>3 DEF At, Written
<1>4. ASSUME NEW w \in pendingWptr..(pendingWptr + n - 1)
      PROVE  w \in Int /\ At(w)' = Dword(x, w - pendingWptr + 1, n)
  <2>1. w \in Int /\ pendingWptr <= w /\ RingPos + (w - pendingWptr) < Cap
    BY <1>1
  <2>2. w % Cap = RingPos + (w - pendingWptr)
    <3>1. pendingWptr \in Int /\ Cap \in Nat \ {0}
      BY <1>1
    <3> QED BY <2>1, <3>1, PlacesAhead DEF RingPos
  <2>3. w % Cap \in RingPos..(RingPos + n - 1) /\ w % Cap \in 0..(Cap - 1)
    BY <1>1, <2>1, <2>2
  <2>4. ring'[w % Cap] = Dword(x, (w % Cap) - RingPos + 1, n)
    BY <2>3 DEF Written
  <2> QED BY <1>1, <2>1, <2>2, <2>4 DEF At
<1> QED BY <1>2, <1>3, <1>4

LEMMA AppendsWhole ==
  ASSUME RingInv, PacketsWhole, NEW x \in Calls \cup {EngineNop}, NEW n, Appends(x, n)
  PROVE  PacketsWhole'
<1>1. /\ pendingWptr \in Nat /\ rptr \in Nat /\ rptr <= pendingWptr /\ n \in Nat
  BY WordIsRings DEF RingInv, TypeOK, PointersOrdered, Appends
<1>2. /\ Unread' = Unread \cup pendingWptr..(pendingWptr + n - 1)
      /\ \A w \in Unread : w \in Int /\ At(w)' = At(w)
      /\ \A w \in pendingWptr..(pendingWptr + n - 1) :
           w \in Int /\ At(w)' = Dword(x, w - pendingWptr + 1, n)
  BY AppendsBehind
<1>3. EngineNop' = EngineNop
  BY DEF EngineNop, Appends
<1> SUFFICES ASSUME NEW w \in Unread'
             PROVE  PacketWhole(w)'
  BY DEF PacketsWhole
<1>4. CASE w \in Unread
  <2>1. PacketWhole(w) /\ At(w)' = At(w)
    BY <1>2, <1>4 DEF PacketsWhole
  <2>2. ASSUME NEW j \in 1..At(w).len
        PROVE  /\ w - At(w).k + j \in Unread'
               /\ ring'[(w - At(w).k + j) % Cap] = [At(w) EXCEPT !.k = j]
    <3>1. w - At(w).k + j \in Unread /\ At(w - At(w).k + j) = [At(w) EXCEPT !.k = j]
      BY <2>1 DEF PacketWhole
    <3> DEFINE v == w - At(w).k + j
    <3>2. v \in Unread /\ At(v) = [At(w) EXCEPT !.k = j]
      BY <3>1
    <3>3. \A u \in Unread : ring'[u % Cap] = At(u)
      BY <1>2 DEF At
    <3>4. ring'[v % Cap] = At(v)
      <4> HIDE DEF v
      <4> QED BY <3>2, <3>3
    <3> QED BY <1>2, <3>2, <3>4
  <2> QED BY <1>3, <2>1, <2>2 DEF PacketWhole, At
<1>5. CASE w \in pendingWptr..(pendingWptr + n - 1)
  <2>1. At(w)' = [id |-> x, k |-> w - pendingWptr + 1, len |-> n]
    BY <1>2, <1>5 DEF Dword
  <2>2. w - (w - pendingWptr + 1) = pendingWptr - 1 /\ w - pendingWptr + 1 \in 1..n
    BY <1>1, <1>5
  <2>3. ASSUME NEW j \in 1..n
        PROVE  /\ pendingWptr - 1 + j \in Unread'
               /\ ring'[(pendingWptr - 1 + j) % Cap] = [id |-> x, k |-> j, len |-> n]
    <3> DEFINE v == pendingWptr - 1 + j
    <3>1. v \in pendingWptr..(pendingWptr + n - 1) /\ v - pendingWptr + 1 = j
      BY <1>1
    <3>2. \A u \in pendingWptr..(pendingWptr + n - 1) :
            ring'[u % Cap] = [id |-> x, k |-> u - pendingWptr + 1, len |-> n]
      BY <1>2 DEF At, Dword
    <3>3. ring'[v % Cap] = [id |-> x, k |-> v - pendingWptr + 1, len |-> n]
      <4> HIDE DEF v
      <4> QED BY <3>1, <3>2
    <3> QED BY <1>2, <3>1, <3>3
  <2> QED BY <1>3, <2>1, <2>2, <2>3 DEF PacketWhole, At
<1> QED BY <1>2, <1>4, <1>5

(* What lies at the read pointer is a whole packet, and the packets behind *)
(* it begin behind it.                                                     *)
LEMMA HeaderWhole ==
  ASSUME RingInv, PacketsWhole, rptr < pendingWptr
  PROVE  /\ Intact
         /\ Header.len \in Nat \ {0} /\ rptr + Header.len <= pendingWptr
         /\ \A w \in Unread : w < rptr + Header.len =>
              At(w) = [Header EXCEPT !.k = w - rptr + 1]
         /\ \A w \in Unread : w >= rptr + Header.len =>
              w - At(w).k >= (rptr + Header.len) - 1
<1>1. rptr \in Nat /\ pendingWptr \in Nat /\ rptr \in Unread
  BY DEF RingInv, TypeOK, Unread
<1>2. Header = At(rptr) /\ PacketWhole(rptr) /\ Header \in [id : Int, k : Nat, len : Nat]
  BY <1>1, AtTyped DEF Header, At, PacketsWhole, RingInv
<1> DEFINE L == Header.len
<1>3. /\ Header.id \in Calls \cup {EngineNop} /\ Header.k \in 1..L
      /\ \A j \in 1..L : /\ rptr - Header.k + j \in Unread
                         /\ At(rptr - Header.k + j) = [Header EXCEPT !.k = j]
  BY <1>2 DEF PacketWhole
<1>4. Header.k = 1
  <2>0. 1 \in 1..L
    BY <1>2, <1>3
  <2>1. rptr - Header.k + 1 \in Unread
    BY <1>3, <2>0
  <2> QED BY <1>1, <1>2, <1>3, <2>1 DEF Unread
<1>5. L \in Nat \ {0}
  BY <1>2, <1>3
<1>6. \A j \in 1..L : /\ rptr - 1 + j \in Unread
                     /\ At(rptr - 1 + j) = [Header EXCEPT !.k = j]
  BY <1>3, <1>4
<1>7. rptr + L <= pendingWptr
  <2>0. L \in 1..L
    BY <1>5
  <2>1. rptr - 1 + L \in Unread
    BY <1>6, <2>0
  <2> QED BY <1>1, <1>5, <2>1 DEF Unread
<1>8. ASSUME NEW w \in Unread, w < rptr + L
      PROVE  At(w) = [Header EXCEPT !.k = w - rptr + 1]
  <2> DEFINE j == w - rptr + 1
  <2>1. j \in 1..L /\ rptr - 1 + j = w
    BY <1>1, <1>5, <1>8 DEF Unread
  <2>2. At(rptr - 1 + j) = [Header EXCEPT !.k = j]
    <3> HIDE DEF j
    <3> QED BY <1>6, <2>1
  <2> QED BY <2>1, <2>2
<1>9. ASSUME NEW w \in Unread, w >= rptr + L
      PROVE  w - At(w).k >= (rptr + L) - 1
  <2>1. PacketWhole(w) /\ w \in Int /\ At(w) \in [id : Int, k : Nat, len : Nat]
    BY <1>1, <1>9, AtTyped DEF PacketsWhole, Unread, RingInv
  <2> DEFINE v == w - At(w).k + 1
  <2>2. /\ At(w).k \in 1..At(w).len /\ v \in Unread
        /\ At(v) = [At(w) EXCEPT !.k = 1]
    BY <2>1 DEF PacketWhole
  <2>3. CASE v < rptr + L
    <3>1. At(v) = [Header EXCEPT !.k = v - rptr + 1]
      <4> HIDE DEF v
      <4> QED BY <1>8, <2>2, <2>3
    <3>2. At(v).k = 1 /\ At(v).len = At(w).len
      <4> HIDE DEF v
      <4> QED BY <2>1, <2>2
    <3>3. At(v).k = v - rptr + 1 /\ At(v).len = L
      <4> HIDE DEF v
      <4> QED BY <1>2, <3>1
    <3>4. v \in Int /\ v = rptr /\ At(w).len = L
      BY <1>1, <2>1, <3>2, <3>3
    <3>5. w = rptr + At(w).k - 1
      BY <1>1, <2>1, <3>4
    <3> QED BY <1>1, <1>5, <1>9, <2>1, <2>2, <3>4, <3>5
  <2>4. CASE v >= rptr + L
    BY <1>1, <1>5, <2>1, <2>4
  <2> QED BY <1>1, <1>5, <2>1, <2>3, <2>4
<1>10. Intact
  <2>1. ASSUME NEW j \in 0..(L - 1)
        PROVE  ring[(rptr + j) % Cap] = [Header EXCEPT !.k = j + 1]
    <3>1. j + 1 \in 1..L /\ rptr - 1 + (j + 1) = rptr + j
      BY <1>1, <1>5
    <3> DEFINE i == j + 1
    <3>2. At(rptr - 1 + i) = [Header EXCEPT !.k = i]
      <4> HIDE DEF i
      <4> i \in 1..L
        BY <3>1 DEF i
      <4> QED BY <1>6
    <3> QED BY <3>1, <3>2 DEF At
  <2> QED BY <1>3, <1>4, <2>1 DEF Intact
<1> QED BY <1>5, <1>7, <1>8, <1>9, <1>10

(* What Consume does to a ring of whole packets.                           *)
LEMMA ConsumeWhole ==
  ASSUME RingInv, PacketsWhole, NEW limit \in Nat, limit <= pendingWptr, Consume(limit)
  PROVE  /\ PacketsWhole' /\ rptr < pendingWptr
         /\ Unread' = (rptr + Header.len)..(pendingWptr - 1) /\ Unread' \subseteq Unread
         /\ \A w \in Unread : At(w)' = At(w)
         /\ executed' = IF Header.id = EngineNop THEN executed
                        ELSE Append(executed, Header.id)
<1>1. rptr \in Nat /\ pendingWptr \in Nat /\ rptr < pendingWptr
  BY DEF RingInv, TypeOK, Consume
<1>2. /\ Intact
      /\ Header.len \in Nat \ {0} /\ rptr + Header.len <= pendingWptr
      /\ \A w \in Unread : w >= rptr + Header.len =>
           w - At(w).k >= (rptr + Header.len) - 1
  BY <1>1, HeaderWhole
<1>3. rptr' = rptr + Header.len /\ UNCHANGED <<pendingWptr, ring, type>>
  BY <1>2 DEF Consume, host
<1>4. Unread' = (rptr + Header.len)..(pendingWptr - 1) /\ Unread' \subseteq Unread
  BY <1>1, <1>2, <1>3 DEF Unread
<1>5. \A w \in Unread : At(w)' = At(w)
  BY <1>3 DEF At
<1>6. PacketsWhole'
  <2> SUFFICES ASSUME NEW w \in Unread'
               PROVE  PacketWhole(w)'
    BY DEF PacketsWhole
  <2>1. /\ w \in Unread /\ w \in Int /\ PacketWhole(w)
        /\ At(w) \in [id : Int, k : Nat, len : Nat] /\ At(w)' = At(w)
    <3>1. w \in Unread /\ w \in Int
      BY <1>1, <1>2, <1>4
    <3>2. At(w) \in [id : Int, k : Nat, len : Nat]
      BY <3>1, AtTyped DEF RingInv
    <3> QED BY <1>5, <3>1, <3>2 DEF PacketsWhole
  <2>2. w - At(w).k >= (rptr + Header.len) - 1
    BY <1>1, <1>2, <1>4, <2>1
  <2>3. ASSUME NEW j \in 1..At(w).len
        PROVE  /\ w - At(w).k + j \in Unread'
               /\ ring'[(w - At(w).k + j) % Cap] = [At(w) EXCEPT !.k = j]
    <3>1. w - At(w).k + j \in Unread /\ At(w - At(w).k + j) = [At(w) EXCEPT !.k = j]
      BY <2>1 DEF PacketWhole
    <3>2. w - At(w).k + j \in Unread'
      <4> DEFINE v == w - At(w).k + j
      <4>1. v \in Unread /\ v >= rptr + Header.len
        BY <1>1, <1>2, <2>1, <2>2, <3>1
      <4>2. v \in Unread'
        <5> HIDE DEF v
        <5>1. v \in rptr..(pendingWptr - 1)
          BY <4>1 DEF Unread
        <5>2. v \in (rptr + Header.len)..(pendingWptr - 1)
          BY <1>1, <1>2, <4>1, <5>1
        <5> QED BY <1>4, <5>2
      <4> QED BY <4>2
    <3> QED BY <1>3, <3>1, <3>2 DEF At
  <2>4. EngineNop' = EngineNop
    BY <1>3 DEF EngineNop
  <2> QED BY <2>1, <2>3, <2>4 DEF PacketWhole, At
<1>7. executed' = IF Header.id = EngineNop THEN executed ELSE Append(executed, Header.id)
  BY <1>2 DEF Consume
<1> QED BY <1>1, <1>4, <1>5, <1>6, <1>7

-----------------------------------------------------------------------------
(* The order of the stream is kept by steps that leave the ring and both   *)
(* histories alone, ...                                                    *)
LEMMA OrderStutters ==
  ASSUME OrderInv, UNCHANGED <<ring, pendingWptr, rptr, type, accepted, executed>>
  PROVE  OrderInv'
<1>1. Unread' = Unread /\ Ahead' = Ahead /\ EngineNop' = EngineNop /\ \A w : At(w)' = At(w)
  BY DEF Unread, Ahead, EngineNop, At
<1>2. PacketsWhole'
  BY <1>1 DEF OrderInv, PacketsWhole, PacketWhole, At
<1>3. UnreadAhead' /\ AheadUnread'
  BY <1>1 DEF OrderInv, UnreadAhead, AheadUnread
<1>4. InOrder' /\ OnePacketEach'
  BY <1>1 DEF OrderInv, InOrder, OnePacketEach
<1> QED BY <1>2, <1>3, <1>4 DEF OrderInv, AcceptedOnce

LEMMA NopIsNoCall == EngineNop \notin Calls
BY RingAssumption DEF EngineNop, NopPM4, NopSDMA, Calls, RingAssumption

(* ... by padding, ...                                                     *)
LEMMA OrderPadded ==
  ASSUME RingInv, OrderInv, NEW n, Appends(EngineNop, n), UNCHANGED <<accepted, executed>>
  PROVE  OrderInv'
<1>1. PacketsWhole'
  BY AppendsWhole DEF OrderInv
<1>2. /\ Unread' = Unread \cup pendingWptr..(pendingWptr + n - 1)
      /\ \A w \in Unread : w \in Int /\ At(w)' = At(w)
      /\ \A w \in pendingWptr..(pendingWptr + n - 1) :
           w \in Int /\ At(w)' = Dword(EngineNop, w - pendingWptr + 1, n)
  BY AppendsBehind
<1>3. \A w \in Unread' : At(w)'.id \in Calls => w \in Unread
  BY <1>2, NopIsNoCall DEF Dword
<1>4. Ahead' = Ahead /\ \A i \in Ahead : accepted[i] \in Calls
  BY DEF Ahead, RingInv, TypeOK
<1>5. UnreadAhead' /\ AheadUnread'
  BY <1>2, <1>3, <1>4 DEF OrderInv, UnreadAhead, AheadUnread
<1>6. InOrder'
  BY <1>2, <1>3, <1>4 DEF OrderInv, InOrder
<1>7. OnePacketEach'
  BY <1>2, <1>3 DEF OrderInv, OnePacketEach
<1> QED BY <1>1, <1>5, <1>6, <1>7 DEF OrderInv, AcceptedOnce

(* ... by a packet of a call that is new to the stream, ...                *)
LEMMA OrderExtended ==
  ASSUME RingInv, OrderInv, NEW c \in Calls, ~Entered(c), NEW n, Appends(c, n),
         accepted' = Append(accepted, c), executed' = executed
  PROVE  OrderInv'
<1>1. PacketsWhole'
  BY AppendsWhole DEF OrderInv
<1>2. /\ Unread' = Unread \cup pendingWptr..(pendingWptr + n - 1)
      /\ \A w \in Unread : w \in Int /\ At(w)' = At(w)
      /\ \A w \in pendingWptr..(pendingWptr + n - 1) :
           w \in Int /\ At(w)' = Dword(c, w - pendingWptr + 1, n)
  BY AppendsBehind
<1> DEFINE New == pendingWptr..(pendingWptr + n - 1)
           Last == Len(accepted) + 1
<1>3. /\ Len(accepted) \in Nat /\ Len(executed) \in Nat /\ Len(accepted') = Last
      /\ \A i \in 1..Len(accepted) : accepted'[i] = accepted[i] /\ accepted[i] # c
      /\ accepted'[Last] = c /\ DOMAIN accepted = 1..Len(accepted)
      /\ DOMAIN accepted' = 1..Last
  BY DEF RingInv, TypeOK, Entered
<1>4. /\ Len(executed) <= Len(accepted) /\ Ahead' = Ahead \cup {Last}
      /\ Ahead \subseteq 1..Len(accepted) /\ Last \in Ahead'
  BY <1>3 DEF OrderInv, Ahead
<1>5. \A i \in Ahead' : accepted'[i] = c <=> i = Last
  BY <1>3, <1>4
<1>6. ASSUME NEW w \in Unread'
      PROVE  /\ w \in New => At(w)'.id = c
             /\ w \notin New => w \in Unread /\ At(w)' = At(w) /\ At(w).id # c
  <2>1. w \in New => At(w)'.id = c
    BY <1>2 DEF Dword
  <2>2. w \in Unread => At(w).id # c
    BY <1>3, <1>4 DEF OrderInv, UnreadAhead
  <2> QED BY <1>2, <2>1, <2>2
<1>7. AcceptedOnce'
  BY <1>3 DEF OrderInv, AcceptedOnce
<1>8. UnreadAhead'
  BY <1>3, <1>4, <1>6 DEF OrderInv, UnreadAhead
<1>9. AheadUnread'
  <2>1. pendingWptr \in New
    BY DEF Appends, RingInv, TypeOK
  <2> QED BY <1>2, <1>3, <1>4, <1>6, <2>1 DEF OrderInv, AheadUnread
<1>10. InOrder'
  <2> SUFFICES ASSUME NEW v \in Unread', NEW w \in Unread', NEW i \in Ahead', NEW j \in Ahead',
                      At(v)'.id = accepted'[i], At(w)'.id = accepted'[j], v <= w
               PROVE  i <= j
    BY DEF InOrder
  <2>1. CASE w \in New
    <3>1. j = Last
      BY <1>5, <1>6, <2>1
    <3>2. i <= Last
      BY <1>3, <1>4
    <3> QED BY <3>1, <3>2
  <2>2. CASE w \notin New
    <3>1. v \notin New
      <4>1. w \in Unread /\ v \in Int
        BY <1>2, <1>6, <2>2
      <4>2. w < pendingWptr /\ w \in Int /\ pendingWptr \in Int
        BY <4>1 DEF Unread, RingInv, TypeOK
      <4> QED BY <4>1, <4>2
    <3>2. /\ v \in Unread /\ At(v).id = accepted'[i] /\ At(v).id # c
          /\ w \in Unread /\ At(w).id = accepted'[j] /\ At(w).id # c
      BY <1>6, <2>2, <3>1
    <3>3. i \in Ahead /\ accepted'[i] = accepted[i] /\ j \in Ahead /\ accepted'[j] = accepted[j]
      BY <1>3, <1>4, <1>5, <3>2
    <3> QED BY <3>2, <3>3 DEF OrderInv, InOrder
  <2> QED BY <2>1, <2>2
<1>11. OnePacketEach'
  <2> SUFFICES ASSUME NEW v \in Unread', NEW w \in Unread',
                      At(v)'.id \in Calls, At(v)'.id = At(w)'.id
               PROVE  v - At(v)'.k = w - At(w)'.k
    BY DEF OnePacketEach
  <2>1. CASE w \in New
    <3>1. v \in New
      BY <1>6, <2>1
    <3>2. At(v)'.k = v - pendingWptr + 1 /\ At(w)'.k = w - pendingWptr + 1
      BY <1>2, <2>1, <3>1 DEF Dword
    <3> QED BY <1>2, <2>1, <3>1, <3>2 DEF RingInv, TypeOK
  <2>2. CASE w \notin New
    BY <1>6, <2>2 DEF OrderInv, OnePacketEach
  <2> QED BY <2>1, <2>2
<1> QED BY <1>1, <1>3, <1>4, <1>7, <1>8, <1>9, <1>10, <1>11 DEF OrderInv

(* ... and by the engine, which executes the oldest call not yet executed. *)
LEMMA OrderConsumed ==
  ASSUME RingInv, OrderInv, NEW limit \in Nat, limit <= pendingWptr, Consume(limit)
  PROVE  /\ OrderInv'
         /\ \/ executed' = executed
            \/ /\ Len(executed) < Len(accepted)
               /\ executed' = Append(executed, accepted[Len(executed) + 1])
<1> DEFINE End == rptr + Header.len
           First == Len(executed) + 1
<1>1. /\ PacketsWhole' /\ rptr < pendingWptr
      /\ Unread' = End..(pendingWptr - 1) /\ Unread' \subseteq Unread
      /\ \A w \in Unread : At(w)' = At(w)
      /\ executed' = IF Header.id = EngineNop THEN executed ELSE Append(executed, Header.id)
  BY ConsumeWhole DEF OrderInv
<1>2. /\ Header.len \in Nat \ {0} /\ End <= pendingWptr
      /\ \A w \in Unread : w < End => At(w) = [Header EXCEPT !.k = w - rptr + 1]
      /\ \A w \in Unread : w >= End => w - At(w).k >= End - 1
      /\ Intact
  <2>1. PacketsWhole /\ rptr < pendingWptr
    BY <1>1 DEF OrderInv
  <2> QED BY <2>1, HeaderWhole
<1>3. /\ rptr \in Unread /\ Unread \subseteq Int /\ At(rptr) = Header
      /\ rptr \in Int /\ pendingWptr \in Int
      /\ Header \in [id : Int, k : Nat, len : Nat] /\ Header.k = 1
      /\ Header.id \in Calls \cup {EngineNop}
  <2>1. rptr \in Unread /\ Unread \subseteq Int /\ rptr \in Int /\ pendingWptr \in Int
    BY <1>1 DEF Unread, RingInv, TypeOK
  <2>2. At(rptr) = Header
    BY DEF At, Header
  <2> QED BY <1>2, <2>1, <2>2, AtTyped DEF Intact, RingInv
<1>4. \A w \in Unread : w \notin Unread' => w < End /\ At(w).id = Header.id
  <2>1. \A w \in Unread : w \notin Unread' => w < End
    <3> SUFFICES ASSUME NEW w \in Unread, w \notin Unread' PROVE w < End
      OBVIOUS
    <3>1. w \in Int /\ w <= pendingWptr - 1
      BY <1>3 DEF Unread
    <3>2. w \notin End..(pendingWptr - 1)
      BY <1>1
    <3> QED BY <1>2, <1>3, <3>1, <3>2
  <2> QED BY <1>2, <1>3, <2>1
<1>5. UNCHANGED accepted /\ AcceptedOnce'
  BY DEF Consume, host, OrderInv, AcceptedOnce
<1>6. OnePacketEach'
  BY <1>1 DEF OrderInv, OnePacketEach
<1>7. /\ Len(executed) \in Nat /\ Len(accepted) \in Nat /\ Len(executed) <= Len(accepted)
      /\ DOMAIN accepted = 1..Len(accepted)
      /\ \A i \in Ahead : accepted[i] \in Calls
  BY DEF RingInv, TypeOK, OrderInv, Ahead
<1>8. CASE Header.id = EngineNop
  <2>1. executed' = executed /\ Ahead' = Ahead
    BY <1>1, <1>5, <1>8 DEF Ahead
  <2>2. \A w \in Unread : At(w).id \in Calls => w \in Unread'
    BY <1>4, <1>8, NopIsNoCall
  <2>3. UnreadAhead' /\ AheadUnread'
    BY <1>1, <1>5, <1>7, <2>1, <2>2 DEF OrderInv, UnreadAhead, AheadUnread
  <2>4. InOrder'
    BY <1>1, <1>5, <2>1 DEF OrderInv, InOrder
  <2> QED BY <1>1, <1>5, <1>6, <2>1, <2>3, <2>4 DEF OrderInv
<1>9. CASE Header.id # EngineNop
  <2>1. Header.id \in Calls
    BY <1>3, <1>9
  <2>2. PICK i \in Ahead : accepted[i] = Header.id
    BY <1>3, <2>1 DEF OrderInv, UnreadAhead
  <2>3. i \in Int /\ First \in Ahead /\ First <= i
    BY <1>7, <2>2 DEF Ahead
  <2>4. PICK v \in Unread : At(v).id = accepted[First]
    BY <2>3 DEF OrderInv, AheadUnread
  <2>5. rptr <= v
    BY <1>3, <2>4 DEF Unread
  <2>6. i <= First
    BY <1>3, <2>2, <2>3, <2>4, <2>5 DEF OrderInv, InOrder
  <2>7. i = First /\ Header.id = accepted[First]
    BY <1>7, <2>2, <2>3, <2>6
  <2>8. /\ First <= Len(accepted) /\ executed' = Append(executed, accepted[First])
        /\ Len(executed') = First /\ Len(executed) < Len(accepted)
    <3>1. executed' = Append(executed, accepted[First])
      BY <1>1, <1>9, <2>7
    <3>2. Len(executed') = First
      BY <1>7, <2>3, <3>1 DEF RingInv, TypeOK
    <3> QED BY <1>7, <2>3, <3>1, <3>2 DEF Ahead
  <2>9. Ahead' \subseteq Ahead /\ First \notin Ahead' /\ Ahead \subseteq Ahead' \cup {First}
    BY <1>5, <1>7, <2>8 DEF Ahead
  <2>10. \A w \in Unread' : At(w).id # Header.id
    <3> SUFFICES ASSUME NEW w \in Unread', At(w).id = Header.id
                 PROVE  FALSE
      OBVIOUS
    <3>1. w \in Unread /\ w >= End /\ w \in Int
      BY <1>1, <1>2, <1>3
    <3>2. w - At(w).k = rptr - 1
      BY <1>3, <2>1, <3>1 DEF OrderInv, OnePacketEach
    <3>3. w - At(w).k >= End - 1
      BY <1>2, <3>1
    <3> QED BY <1>2, <1>3, <3>2, <3>3
  <2>11. UnreadAhead'
    <3> SUFFICES ASSUME NEW w \in Unread', At(w)'.id \in Calls
                 PROVE  \E j \in Ahead' : accepted'[j] = At(w)'.id
      BY DEF UnreadAhead
    <3>1. w \in Unread /\ At(w)' = At(w)
      BY <1>1
    <3>2. PICK j \in Ahead : accepted[j] = At(w).id
      BY <3>1 DEF OrderInv, UnreadAhead
    <3>3. j # First
      BY <2>7, <2>10, <3>2
    <3> QED BY <1>5, <2>9, <3>1, <3>2, <3>3
  <2>12. AheadUnread'
    <3> SUFFICES ASSUME NEW j \in Ahead'
                 PROVE  \E w \in Unread' : At(w)'.id = accepted[j]
      BY <1>5 DEF AheadUnread
    <3>1. j \in Ahead /\ j # First
      BY <2>9
    <3>2. accepted[j] # accepted[First]
      BY <1>7, <2>3, <3>1 DEF OrderInv, AcceptedOnce, Ahead
    <3>3. PICK w \in Unread : At(w).id = accepted[j]
      BY <3>1 DEF OrderInv, AheadUnread
    <3>4. w \in Unread'
      BY <1>4, <2>7, <3>2, <3>3
    <3> QED BY <1>1, <3>3, <3>4
  <2>13. InOrder'
    BY <1>1, <1>5, <2>9 DEF OrderInv, InOrder
  <2>14. Len(executed') <= Len(accepted')
    BY <1>5, <2>8
  <2> QED BY <1>1, <1>5, <1>6, <2>8, <2>11, <2>12, <2>13, <2>14 DEF OrderInv
<1> QED BY <1>8, <1>9

-----------------------------------------------------------------------------
StreamStep == [Stream!Next]_(Stream!vars)

(* A step that touches neither the calls' results nor the accepted stream  *)
(* is invisible to the callers.                                            *)
LEMMA CallersStutter ==
  ASSUME RingInv, CallerInv, NEW t \in Threads, NEW place \in Places,
         pc[t] # "idle", place # "idle", Goto(t, place),
         pc[t] \in {"publish", "doorbell"} <=> place \in {"publish", "doorbell"},
         UNCHANGED <<id, result, accepted, calls>>
  PROVE  CallerInv'
<1> USE DEF Goto
<1>1. pc \in [Threads -> Places] /\ \A u \in Threads : u # t => pc'[u] = pc[u]
      /\ pc'[t] = place
  BY DEF RingInv, TypeOK
<1>2. \A c : Entered(c)' = Entered(c)
  BY DEF Entered
<1>3. CallsDiffer'
  BY <1>1 DEF CallerInv, CallsDiffer
<1>4. RunningCalls'
  BY <1>1, <1>2 DEF CallerInv, RunningCalls
<1>5. LaterCalls'
  BY <1>2 DEF CallerInv, LaterCalls
<1> QED BY <1>3, <1>4, <1>5 DEF CallerInv

(* A call returns.                                                         *)
LEMMA CallersReturn ==
  ASSUME RingInv, CallerInv, NEW t \in Threads, NEW r \in Results, pc[t] # "idle",
         Return(t, r), UNCHANGED <<id, accepted, calls>>
  PROVE  CallerInv'
<1> USE DEF Goto, Return
<1>1. /\ pc \in [Threads -> Places] /\ \A u \in Threads : u # t => pc'[u] = pc[u]
      /\ pc'[t] = "idle" /\ result \in [Calls -> Results]
      /\ \A u \in Threads : pc[u] # "idle" => id[u] \in 1..calls
      /\ calls \in 0..MaxCalls /\ MaxCalls \in Nat
  BY RingAssumption DEF RingAssumption, RingInv, TypeOK, CallsRun
<1>2. \A c : Entered(c)' = Entered(c)
  BY DEF Entered
<1>3. CallsDiffer'
  BY <1>1 DEF CallerInv, CallsDiffer
<1>4. RunningCalls'
  <2> SUFFICES ASSUME NEW u \in Threads, pc'[u] # "idle"
               PROVE  /\ result'[id[u]] = "running"
                      /\ Entered(id[u])' <=> pc'[u] \in {"publish", "doorbell"}
    BY DEF RunningCalls, Entered
  <2>1. u # t /\ pc[u] # "idle" /\ id[u] # id[t] /\ id[u] \in Calls
    BY <1>1 DEF CallerInv, CallsDiffer, Calls
  <2> QED BY <1>1, <1>2, <2>1 DEF CallerInv, RunningCalls
<1>5. LaterCalls'
  <2>1. id[t] \in 1..calls
    BY <1>1
  <2> QED BY <1>1, <1>2, <2>1 DEF CallerInv, LaterCalls, Calls
<1> QED BY <1>3, <1>4, <1>5 DEF CallerInv

LEMMA StreamInvInit == Converted /\ Init => StreamInv
<1> SUFFICES ASSUME Converted, Init PROVE StreamInv
  OBVIOUS
<1>1. Unread = {} /\ Ahead = {}
  BY DEF Init, Unread, Ahead
<1>2. OrderInv
  BY <1>1 DEF Init, OrderInv, PacketsWhole, AcceptedOnce, UnreadAhead, AheadUnread, InOrder,
              OnePacketEach
<1>3. CallerInv
  BY DEF Init, CallerInv, CallsDiffer, RunningCalls, LaterCalls, Entered
<1> QED BY <1>2, <1>3 DEF StreamInv

(* Each step keeps the invariant and is a step of the stream or invisible  *)
(* in it.                                                                  *)
LEMMA StreamInvNext ==
  ASSUME RingInv, StreamInv, [Next]_vars
  PROVE  StreamInv' /\ StreamStep
<1> USE DEF StreamInv
<1>1. \A t \in Threads : pc[t] # "idle" => id[t] \in Calls /\ id[t] \in 1..calls
  BY RingAssumption DEF RingAssumption, RingInv, TypeOK, CallsRun, Calls
<1>2. \A t \in Threads : pc[t] # "idle" =>
        /\ result[id[t]] = "running"
        /\ Stream!InStream(id[t]) <=> pc[t] \in {"publish", "doorbell"}
  BY DEF CallerInv, RunningCalls, Entered, Stream!InStream
<1>a. ASSUME NEW t \in Threads, NEW n \in Sizes, Call(t, n)
      PROVE  StreamInv' /\ StreamStep
  <2> USE <1>a DEF Call, engine
  <2>1. /\ calls + 1 \in Calls /\ calls \in Nat /\ calls + 1 > calls
        /\ pc \in [Threads -> Places] /\ result \in [Calls -> Results]
        /\ id \in [Threads -> 0..MaxCalls]
    BY RingAssumption DEF RingAssumption, RingInv, TypeOK, Calls
  <2>2. result[calls + 1] = "none" /\ ~Entered(calls + 1)
    BY <2>1 DEF CallerInv, LaterCalls
  <2>3. StreamStep
    <3>1. Stream!Begin(calls + 1, n)
      BY <2>2 DEF Stream!Begin
    <3> QED BY <2>1, <3>1 DEF StreamStep, Stream!Next
  <2>4. OrderInv'
    BY OrderStutters
  <2>5. \A c : Entered(c)' = Entered(c)
    BY DEF Entered
  <2>6. CallsDiffer'
    BY <1>1, <2>1 DEF CallerInv, CallsDiffer, Goto
  <2>7. RunningCalls'
    <3> SUFFICES ASSUME NEW u \in Threads, pc'[u] # "idle"
                 PROVE  /\ result'[id'[u]] = "running"
                        /\ Entered(id[u])' <=> pc'[u] \in {"publish", "doorbell"}
      BY DEF RunningCalls, Entered
    <3> QED BY <1>1, <2>1, <2>2, <2>5 DEF CallerInv, RunningCalls, Goto
  <2>8. LaterCalls'
    BY <2>1, <2>5 DEF CallerInv, LaterCalls, Calls
  <2> QED BY <2>3, <2>4, <2>6, <2>7, <2>8 DEF CallerInv
<1>3. UNCHANGED <<size, result, accepted, executed>> => StreamStep
  BY DEF StreamStep, Stream!vars
<1>b. ASSUME NEW t \in Threads, AcquireSubmitMutex(t)
      PROVE  StreamInv' /\ StreamStep
  <2> USE <1>b DEF AcquireSubmitMutex, engine
  <2>1. OrderInv'
    BY OrderStutters
  <2>2. "enter" \in Places /\ pc[t] # "idle" /\ Goto(t, "enter")
    BY DEF Places
  <2>3. CallerInv'
    BY <2>2, CallersStutter
  <2> QED BY <1>3, <2>1, <2>3
<1>4. ASSUME NEW t \in Threads, NEW r \in Results, pc[t] # "idle", Return(t, r),
             UNCHANGED <<size, id, calls, accepted, executed>>,
             \/ r = "ok" /\ (size[id[t]] = 0 \/ pc[t] = "doorbell")
             \/ r \in {"EMSGSIZE", "ETIMEDOUT"} /\ pc[t] \notin {"publish", "doorbell"}
      PROVE  CallerInv' /\ StreamStep
  <2>1. CallerInv'
    BY <1>4, CallersReturn
  <2>2. id[t] \in Calls /\ result[id[t]] = "running" /\ result' = [result EXCEPT ![id[t]] = r]
    BY <1>1, <1>2, <1>4 DEF Return
  <2>3. CASE r = "ok"
    <3>1. Stream!Succeed(id[t])
      BY <1>2, <1>4, <2>2, <2>3 DEF Stream!Succeed
    <3> QED BY <2>1, <2>2, <3>1 DEF StreamStep, Stream!Next
  <2>4. CASE r \in {"EMSGSIZE", "ETIMEDOUT"}
    <3>1. Stream!Fail(id[t])
      BY <1>2, <1>4, <2>2, <2>4 DEF Stream!Fail
    <3> QED BY <2>1, <2>2, <3>1 DEF StreamStep, Stream!Next
  <2> QED BY <1>4, <2>3, <2>4
<1>c. ASSUME NEW t \in Threads, EnterSubmitImpl(t)
      PROVE  StreamInv' /\ StreamStep
  <2>1. OrderInv'
    BY <1>c, OrderStutters DEF EnterSubmitImpl, engine
  <2>2. pc[t] = "enter" /\ UNCHANGED <<id, calls, size, accepted, executed>>
    BY <1>c DEF EnterSubmitImpl, engine
  <2>3. CASE size[id[t]] = 0 /\ Return(t, "ok")
    BY <1>4, <2>1, <2>2, <2>3 DEF Results
  <2>4. CASE Return(t, "EMSGSIZE")
    BY <1>4, <2>1, <2>2, <2>4 DEF Results
  <2>5. CASE /\ Goto(t, "padroom") \/ Goto(t, "room")
             /\ UNCHANGED <<type, owner, result>>
    <3>1. \A place \in {"padroom", "room"} : Goto(t, place) => CallerInv'
      <4> SUFFICES ASSUME NEW place \in {"padroom", "room"}, Goto(t, place)
                   PROVE  CallerInv'
        OBVIOUS
      <4> place \in Places /\ place # "idle" /\ place \notin {"publish", "doorbell"}
        BY DEF Places
      <4> QED BY <2>2, <2>5, CallersStutter
    <3> QED BY <1>3, <2>1, <2>2, <2>5, <3>1
  <2>6. \/ size[id[t]] = 0 /\ Return(t, "ok")
        \/ Return(t, "EMSGSIZE")
        \/ /\ Goto(t, "padroom") \/ Goto(t, "room")
           /\ UNCHANGED <<type, owner, result>>
    BY <1>c DEF EnterSubmitImpl
  <2> QED BY <2>3, <2>4, <2>5, <2>6
<1>5. ASSUME NEW n, HasRoom(n), n \in Nat
      PROVE  pendingWptr + n - rptr < Cap
  <2>1. InFlight = pendingWptr - Reported
    BY InFlightExact DEF RingInv
  <2>2. /\ Reported \in Nat /\ pendingWptr \in Nat /\ rptr \in Nat /\ Reported <= rptr
        /\ Cap \in Nat
    BY WordIsRings DEF RingInv, PointersOrdered, TypeOK
  <2> QED BY <1>5, <2>1, <2>2 DEF HasRoom
<1>d. ASSUME NEW t \in Threads, WritePadding(t)
      PROVE  StreamInv' /\ StreamStep
  <2> USE <1>d DEF WritePadding, engine
  <2> DEFINE n == Cap - pos[t]
  <2>1. /\ pos[t] = RingPos /\ RingPos \in 0..(Cap - 1) /\ Cap \in Nat
    BY RingPosInRing DEF RingInv, PacketFits
  <2>2. n \in 1..Cap /\ RingPos + n = Cap /\ pendingWptr + n - rptr < Cap
    BY <1>5, <2>1
  <2>3. PadId = EngineNop
    BY RingAssumption, Units DEF RingInv, TypeOK, PointersOrdered, RingAssumption
  <2>4. Appends(EngineNop, n)
    BY <2>1, <2>2, <2>3 DEF Appends
  <2>5. OrderInv'
    <3> HIDE DEF n
    <3> QED BY <2>4, OrderPadded
  <2>6. "padpublish" \in Places /\ pc[t] = "padroom" /\ Goto(t, "padpublish")
    BY DEF Places
  <2>7. CallerInv'
    BY <2>6, CallersStutter
  <2> QED BY <1>3, <2>5, <2>7
<1>e. ASSUME NEW t \in Threads, WritePacket(t)
      PROVE  StreamInv' /\ StreamStep
  <2> USE <1>e DEF WritePacket, engine
  <2> DEFINE n == size[id[t]]
             c == id[t]
  <2>1. /\ pos[t] = RingPos /\ RingPos \in 0..(Cap - 1) /\ Cap \in Nat
        /\ n \in 1..(Cap - 1) /\ RingPos + n <= Cap
    BY RingPosInRing DEF RingInv, PacketFits
  <2>2. pendingWptr + n - rptr < Cap
    BY <1>5, <2>1
  <2>3. c \in Calls /\ ~Entered(c) /\ result[c] = "running"
    BY <1>1 DEF CallerInv, RunningCalls
  <2>4. Appends(c, n)
    BY <2>1, <2>2 DEF Appends
  <2>5. OrderInv'
    <3> HIDE DEF n, c
    <3>1. accepted' = Append(accepted, c) /\ executed' = executed
      BY DEF c
    <3> QED BY <2>3, <2>4, <3>1, OrderExtended
  <2>6. StreamStep
    <3>1. Stream!Accept(c)
      BY <2>1, <2>3 DEF Stream!Accept, Stream!InStream, Entered
    <3> QED BY <2>3, <3>1 DEF StreamStep, Stream!Next
  <2>7. /\ pc \in [Threads -> Places] /\ accepted \in Seq(Calls)
        /\ pc' = [pc EXCEPT ![t] = "publish"]
    BY DEF RingInv, TypeOK, Goto
  <2>8. \A x : Entered(x)' <=> Entered(x) \/ x = c
    BY <2>3, <2>7 DEF Entered
  <2>9. CallsDiffer'
    BY <2>7 DEF CallerInv, CallsDiffer
  <2>10. RunningCalls'
    <3> SUFFICES ASSUME NEW u \in Threads, pc'[u] # "idle"
                 PROVE  /\ result[id[u]] = "running"
                        /\ Entered(id[u])' <=> pc'[u] \in {"publish", "doorbell"}
      BY DEF RunningCalls
    <3>1. pc[u] # "idle" /\ (id[u] = c => u = t)
      BY <2>7 DEF CallerInv, CallsDiffer
    <3>2. /\ result[id[u]] = "running"
          /\ Entered(id[u]) <=> pc[u] \in {"publish", "doorbell"}
      BY <3>1 DEF CallerInv, RunningCalls
    <3>3. Entered(id[u])' <=> Entered(id[u]) \/ id[u] = c
      BY <2>8 DEF Entered
    <3> QED BY <2>7, <3>1, <3>2, <3>3
  <2>11. LaterCalls'
    <3> SUFFICES ASSUME NEW x \in Calls, x > calls
                 PROVE  result[x] = "none" /\ ~Entered(x)'
      BY DEF LaterCalls
    <3>1. x # c
      <4>1. c \in 1..calls /\ calls \in Nat /\ x \in Nat
        BY <1>1, RingAssumption DEF RingInv, TypeOK, RingAssumption, Calls
      <4> HIDE DEF c
      <4> QED BY <4>1
    <3> QED BY <2>8, <3>1 DEF CallerInv, LaterCalls
  <2> QED BY <2>5, <2>6, <2>9, <2>10, <2>11 DEF CallerInv
<1>f. ASSUME NEW t \in Threads, Publish(t)
      PROVE  StreamInv' /\ StreamStep
  <2> USE <1>f DEF Publish, engine
  <2>1. OrderInv'
    BY OrderStutters
  <2>2. CASE pc[t] = "publish"
    <3>1. "doorbell" \in Places /\ Goto(t, "doorbell")
      BY <2>2 DEF Places
    <3>2. CallerInv'
      BY <2>2, <3>1, CallersStutter
    <3> QED BY <1>3, <2>1, <3>2
  <2>3. CASE pc[t] = "padpublish"
    <3>1. "paddoorbell" \in Places /\ Goto(t, "paddoorbell")
      BY <2>3 DEF Places
    <3>2. CallerInv'
      BY <2>3, <3>1, CallersStutter
    <3> QED BY <1>3, <2>1, <3>2
  <2> QED BY <2>2, <2>3
<1>g. ASSUME NEW t \in Threads, RingPadDoorbell(t)
      PROVE  StreamInv' /\ StreamStep
  <2> USE <1>g DEF RingPadDoorbell, engine
  <2>1. OrderInv'
    BY OrderStutters
  <2>2. "room" \in Places /\ pc[t] = "paddoorbell" /\ Goto(t, "room")
    BY DEF Places
  <2>3. CallerInv'
    BY <2>2, CallersStutter
  <2> QED BY <1>3, <2>1, <2>3
<1>h. ASSUME NEW t \in Threads, RingDoorbell(t)
      PROVE  StreamInv' /\ StreamStep
  <2>1. OrderInv'
    BY <1>h, OrderStutters DEF RingDoorbell, engine
  <2>2. /\ "ok" \in Results /\ pc[t] = "doorbell" /\ Return(t, "ok")
        /\ UNCHANGED <<size, id, calls, accepted, executed>>
    BY <1>h DEF RingDoorbell, engine, Results
  <2>3. CallerInv' /\ StreamStep
    BY <1>4, <2>2
  <2> QED BY <2>1, <2>3
<1>i. ASSUME NEW t \in Threads, TimeOut(t)
      PROVE  StreamInv' /\ StreamStep
  <2>1. OrderInv'
    BY <1>i, OrderStutters DEF TimeOut, engine
  <2>2. /\ "ETIMEDOUT" \in Results /\ pc[t] \in {"padroom", "room"} /\ Return(t, "ETIMEDOUT")
        /\ UNCHANGED <<size, id, calls, accepted, executed>>
    BY <1>i DEF TimeOut, engine, Results
  <2>3. CallerInv' /\ StreamStep
    BY <1>4, <2>2
  <2> QED BY <2>1, <2>3
<1>6. UNCHANGED <<pc, id, result, calls, accepted>> => CallerInv'
  <2> SUFFICES ASSUME UNCHANGED <<pc, id, result, calls, accepted>> PROVE CallerInv'
    OBVIOUS
  <2> \A c : Entered(c)' = Entered(c)
    BY DEF Entered
  <2> QED BY DEF CallerInv, CallsDiffer, RunningCalls, LaterCalls, Entered
<1>j. ASSUME NEW limit \in Nat, limit <= pendingWptr, Consume(limit)
      PROVE  StreamInv' /\ StreamStep
  <2>1. /\ OrderInv'
        /\ \/ executed' = executed
           \/ /\ Len(executed) < Len(accepted)
              /\ executed' = Append(executed, accepted[Len(executed) + 1])
    BY <1>j, OrderConsumed
  <2>2. UNCHANGED <<size, pc, id, result, calls, accepted>>
    BY <1>j DEF Consume, host
  <2>3. CASE executed' = executed
    BY <1>3, <1>6, <2>1, <2>2, <2>3
  <2>4. CASE /\ Len(executed) < Len(accepted)
             /\ executed' = Append(executed, accepted[Len(executed) + 1])
    <3>1. Stream!Execute
      BY <2>2, <2>4 DEF Stream!Execute
    <3> QED BY <1>6, <2>1, <2>2, <3>1 DEF StreamStep, Stream!Next
  <2> QED BY <2>1, <2>3, <2>4
<1>k. CASE ConsumeRung \/ ConsumePolled
  <2>1. Rung \in Nat /\ Rung <= pendingWptr /\ Polled \in Nat /\ Polled <= pendingWptr
    BY DEF RingInv, PointersOrdered
  <2> QED BY <1>j, <1>k, <2>1 DEF ConsumeRung, ConsumePolled, Rung, Polled
<1>l. CASE ReportReadPtr \/ Hang \/ UNCHANGED vars
  <2> USE <1>l DEF ReportReadPtr, Hang, host, vars
  <2>1. OrderInv'
    BY OrderStutters
  <2>2. UNCHANGED <<pc, id, result, calls, accepted, size, executed>>
    OBVIOUS
  <2> QED BY <1>3, <1>6, <2>1, <2>2
<1> QED
  BY <1>a, <1>b, <1>c, <1>d, <1>e, <1>f, <1>g, <1>h, <1>i, <1>k, <1>l
  DEF Next, SubmitStep

(* What the engine executes is the stream of accepted packets: whole, once *)
(* and in order, whatever the threads, the padding, the wrapping, the      *)
(* stale read pointer and the time-outs.                                   *)
THEOREM RingImplementsStream ==
  ASSUME Converted
  PROVE  Spec => ImplementsStream
<1>1. Init => Stream!Init
  BY DEF Init, Stream!Init
<1>2. Init => StreamInv
  BY StreamInvInit
<1>3. RingInv /\ StreamInv /\ [Next]_vars => StreamInv' /\ StreamStep
  BY StreamInvNext
<1> QED BY <1>1, <1>2, <1>3, RingInvariant, PTL DEF Spec, StreamStep, ImplementsStream, Stream!Spec

=============================================================================
