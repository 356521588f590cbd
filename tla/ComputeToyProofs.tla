--------------------------- MODULE ComputeToyProofs ---------------------------
(***************************************************************************)
(* Proofs about module ComputeToy, for two or more buffers, any number of  *)
(* frames, edits and refused commits, and any cards: the output it chooses *)
(* can show the picture, the screen is given back unless the card refuses, *)
(* the wait for a buffer hangs only after a refused commit, no edit of the *)
(* kernel's file is missed for good, the console is given back but after a *)
(* signal without a handler, and either backend keeps what DisplaySpec     *)
(* promises.                                                               *)
(*                                                                         *)
(* The argument.  Only one backend ever has a window, and how far it is    *)
(* follows from the place of main() (Stages, Guarded).  What a backend     *)
(* believes to be in use is at least what the display has: the slots cover *)
(* the scanout and the flip under way (SlotsAgree), busy covers the        *)
(* server's queue, its front and the reports not yet read (SentBusy).  The *)
(* buffer of the turn in progress is none of those, from the wait on       *)
(* (Free), and was rendered after all of them (Stamps).                    *)
(***************************************************************************)
EXTENDS ComputeToy, WellFoundedInduction, TLAPS

(* Setup is over at the first turn of the loop; the loop ends at its top.  *)
Setup == {"read", "window"}
Early == {"none", "opened", "found", "props", "blob"}
Late == {"settled", "restored", "removed", "unguarded"}

(* The output is the one that find_output() chooses on this card.          *)
Chosen ==
  dstage \in {"found", "props", "blob", "graphics", "live"} =>
    output = FindOutput(card, Want) /\ output # NoOutput

(* Where each backend is, by the place of main().  Only one has a window.  *)
Untouched ==
  /\ displaying = NoBuffer /\ pending = NoBuffer /\ ready = NoBuffer /\ ~modeSet
  /\ scanout = Saved /\ flip = NoBuffer /\ ~flipEvent
Unsent == queue = <<>> /\ front = NoBuffer /\ busy = {} /\ idle = {}

Stages ==
  /\ ~Drm => Untouched /\ dstage = "none" /\ ~guarded /\ console = "text"
  /\ Drm => Unsent /\ xstage = "closed"
  /\ pc = "read" => ~Drm
  /\ pc \in Setup => Untouched /\ Unsent /\ frame = 0 /\ current = 0
  /\ pc = "window" /\ Drm => dstage \in Early \cup {"graphics", "live", "closed"}
  /\ pc \in Loop /\ Drm => dstage = "live" /\ fbs = Buffers
  /\ pc = "closing" /\ Drm => dstage \in Late \cup {"live"}
  /\ pc = "closing" /\ Drm /\ dstage \in {"live", "settled", "restored"} => fbs = Buffers
  /\ pc = "closed" /\ Drm => dstage = "closed"
  /\ dstage \in Early \cup {"graphics"} => Untouched

(* The slots against the card.                                             *)
SlotsAgree ==
  /\ flip # NoBuffer => flip = pending /\ ~flipEvent
  /\ flipEvent => pending = scanout /\ pending # NoBuffer
  /\ pending # NoBuffer => flip = pending \/ flipEvent
  /\ ready # NoBuffer => pending # NoBuffer
  /\ ~flipEvent /\ scanout \in Buffers => scanout = displaying
  /\ ~modeSet => pending = NoBuffer /\ displaying = NoBuffer
  /\ dstage \in {"restored", "removed", "unguarded", "closed"} => pending = NoBuffer
  /\ frame = 0 => displaying = NoBuffer /\ pending = NoBuffer

(* Before the framebuffers go, the screen was given back or could not be.  *)
GivenBack ==
  /\ ScreenGivenBack
  /\ dstage = "restored" => DHeld = {} \/ saved = "none" \/ kept

(* The server's pixmaps against the ones main() counts as busy.            *)
SentBusy ==
  /\ \A i \in DOMAIN queue : queue[i] \in busy /\ queue[i] \notin idle /\ queue[i] # front
  /\ \A i, j \in DOMAIN queue : queue[i] = queue[j] => i = j
  /\ front # NoBuffer => front \in busy /\ front \notin idle
  /\ idle \subseteq busy
  /\ broken => queue = <<>> /\ front = NoBuffer

(* The buffer of the turn in progress is free, from the wait for it on.    *)
Free ==
  /\ pc \in {"reload", "reread", "dispatch", "gpu", "present"} => ~InUse
  /\ pc = "drain" /\ Drm => ~InUse
  /\ pc \in Loop \ {"poll"} => frame < MaxFrames

(* While no commit was refused, the newest frame is in the last slot.      *)
Newest == IF ready # NoBuffer THEN ready
          ELSE IF pending # NoBuffer THEN pending ELSE displaying
InTurn ==
  refused = 0 /\ frame > 0 /\ Drm /\ pc \in Loop =>
    Newest # NoBuffer /\ current = (Newest + 1) % NumBuffers

(* Frames are sent in the order of their numbers.                          *)
Rendered == IF pc \in {"drain", "present"} THEN frame + 1 ELSE frame
Stamps ==
  ~Ended =>
    /\ shown <= Rendered /\ \A b \in Buffers : stamp[b] <= Rendered
    /\ pc \in {"drain", "present"} => stamp[current] = frame + 1
    /\ pending # NoBuffer => shown <= stamp[pending]
    /\ ready # NoBuffer => stamp[pending] <= stamp[ready]
    /\ \A i \in DOMAIN queue : shown <= stamp[queue[i]]
    /\ \A i, j \in DOMAIN queue : i < j => stamp[queue[i]] <= stamp[queue[j]]

(* A console in graphics mode has its guard, but for the two moments.      *)
Guarded ==
  /\ pc = "dead" => ~guarded
  /\ dstage \in Early \cup {"graphics", "unguarded", "closed"} => ~guarded
  /\ dstage \in Early \cup {"closed"} => console = "text"
  /\ dstage \in {"live", "settled", "restored", "removed"} /\ console = "graphics" =>
       guarded

(* The time main() knows is never ahead of the file's.                     *)
Times == elfMtime <= file /\ EditsNoticed

ToyInv ==
  /\ TypeOK /\ Chosen /\ Stages /\ SlotsAgree /\ GivenBack /\ SentBusy
  /\ Free /\ InTurn /\ Stamps /\ Guarded /\ Times

-----------------------------------------------------------------------------
LEMMA LeastExists ==
  ASSUME NEW T, T \subseteq Nat, T # {}
  PROVE  \E x \in T : \A y \in T : x <= y
<1>1. PICK x \in T : \A y \in T : ~(<<y, x>> \in OpToRel(<, Nat))
  <2>1. \E x \in T : \A y \in T : ~(<<y, x>> \in OpToRel(<, Nat))
    BY NatLessThanWellFounded, WFMin
  <2> QED BY <2>1
<1>2. ASSUME NEW y \in T PROVE x <= y
  <2> SUFFICES ASSUME ~(x <= y) PROVE FALSE
    OBVIOUS
  <2>1. y < x /\ x \in Nat /\ y \in Nat
    OBVIOUS
  <2>2. <<y, x>> \in OpToRel(<, Nat)
    BY <2>1 DEF OpToRel
  <2> QED BY <1>1, <2>2
<1> QED BY <1>2

LEMMA MinIn ==
  ASSUME NEW T, T \subseteq Nat, T # {}
  PROVE  Min(T) \in T /\ \A y \in T : Min(T) <= y
  BY LeastExists DEF Min

(* The buffers, and the marks that are none.                               *)
LEMMA BufferNumbers ==
  /\ NoBuffer \notin Buffers /\ Saved \notin Buffers /\ Saved # NoBuffer
  /\ 0 \in Buffers /\ Buffers \subseteq Nat
  /\ \A b \in Buffers : (b + 1) % NumBuffers \in Buffers /\ (b + 1) % NumBuffers # b
<1>1. NumBuffers \in Nat /\ NumBuffers > 1 /\ NoBuffer \in Int \ 0..NumBuffers
  BY WindowAssumption DEF WindowAssumption
<1>2. ASSUME NEW b \in Buffers
      PROVE  (b + 1) % NumBuffers = IF b + 1 = NumBuffers THEN 0 ELSE b + 1
  BY <1>1, <1>2 DEF Buffers
<1>3. \A b \in Buffers : (b + 1) % NumBuffers \in Buffers /\ (b + 1) % NumBuffers # b
  BY <1>1, <1>2 DEF Buffers
<1> QED BY <1>1, <1>3 DEF Buffers, Saved

LEMMA Bounds == MaxFrames \in Nat /\ MaxEdits \in Nat /\ MaxRefused \in Nat
  BY ToyAssumption DEF ToyAssumption

(* The operations on the windows keep the types of their variables.        *)
LEMMA EventTypes ==
  ASSUME DTypeOK, XTypeOK, HandleEvent
  PROVE  DTypeOK' /\ XTypeOK'
<1>1. CASE DHandleEvent /\ UNCHANGED xvars
  <2>1. refused' \in 0..MaxRefused
    BY <1>1, Bounds DEF DTypeOK, DHandleEvent, ChainFlip, NoChain, Accepts, Refuses
  <2>2. {displaying', pending', ready', flip'} \subseteq Buffers \cup {NoBuffer}
    BY <1>1 DEF DTypeOK, DHandleEvent, ChainFlip, NoChain, Accepts, Refuses
  <2>3. /\ UNCHANGED <<dstage, card, saved, kept, console, guarded, fbs, scanout, modeSet>>
        /\ flipEvent' \in BOOLEAN
    BY <1>1 DEF DTypeOK, DHandleEvent, ChainFlip, NoChain, Accepts, Refuses, choice,
       console_state
  <2>4. XTypeOK'
    BY <1>1 DEF XTypeOK, xvars
  <2> QED BY <2>1, <2>2, <2>3, <2>4 DEF DTypeOK
<1>2. CASE XHandleEvent /\ UNCHANGED dvars
  BY <1>2 DEF DTypeOK, XTypeOK, XHandleEvent, dvars
<1> QED BY <1>1, <1>2 DEF HandleEvent

LEMMA PresentTypes ==
  ASSUME DTypeOK, NEW b \in Buffers, DPresent(b)
  PROVE  DTypeOK'
<1>1. refused' \in 0..MaxRefused
  BY Bounds DEF DTypeOK, DPresent, SetMode, PageFlip, Park, Accepts, Refuses
<1>2. {displaying', pending', ready', flip'} \subseteq Buffers \cup {NoBuffer}
      /\ modeSet' \in BOOLEAN
  BY DEF DTypeOK, DPresent, SetMode, PageFlip, Park, Accepts, Refuses
<1> QED BY <1>1, <1>2 DEF DTypeOK, DPresent, choice, console_state

(* The pixmap shown, and those still queued behind it.                     *)
LEMMA Shown ==
  ASSUME XTypeOK, NEW i \in DOMAIN queue, XShow(i)
  PROVE  /\ Len(queue) \in Nat /\ i \in 1..Len(queue) /\ DOMAIN queue = 1..Len(queue)
         /\ queue' \in Seq(Buffers) /\ DOMAIN queue' = 1..(Len(queue) - i)
         /\ \A k \in DOMAIN queue' : k + i \in DOMAIN queue /\ queue'[k] = queue[k + i]
         /\ \A b \in idle' : \/ b \in idle \/ b = front \/ b = queue[i]
                             \/ \E k \in 1..(i - 1) : b = queue[k]
         /\ front' \in {queue[i], NoBuffer}
         /\ front' = queue[i] =>
              \A b \in idle' : \/ b \in idle \/ b = front
                               \/ \E k \in 1..(i - 1) : b = queue[k]
         /\ idle' \subseteq Buffers
<1>1. Len(queue) \in Nat /\ DOMAIN queue = 1..Len(queue) /\ queue \in Seq(Buffers)
      /\ \A k \in 1..Len(queue) : queue[k] \in Buffers
  BY DEF XTypeOK
<1>2. i \in 1..Len(queue) /\ i - 1 \in 0..Len(queue)
  BY <1>1
<1> DEFINE before == SubSeq(queue, 1, i - 1)
           after == SubSeq(queue, i + 1, Len(queue))
<1>3. after \in Seq(Buffers) /\ Len(after) = Len(queue) - i
      /\ \A k \in 1..(Len(queue) - i) : after[k] = queue[k + i]
  BY <1>1, <1>2
<1>4. ToSet(before) = {queue[k] : k \in 1..(i - 1)}
  <2>1. Len(before) = i - 1 /\ before \in Seq(Buffers)
        /\ \A k \in 1..(i - 1) : before[k] = queue[k]
    BY <1>1, <1>2
  <2>2. DOMAIN before = 1..(i - 1)
    BY <1>1, <1>2, <2>1
  <2> HIDE DEF before
  <2> QED BY <2>1, <2>2 DEF ToSet
<1> DEFINE done == ToSet(before) \cup ({front} \cap Buffers)
<1>5. /\ queue' = after
      /\ \/ front' = queue[i] /\ idle' = idle \cup done
         \/ front' = NoBuffer /\ idle' = idle \cup done \cup {queue[i]}
  BY DEF XShow
<1> HIDE DEF before, after
<1>6. DOMAIN after = 1..(Len(queue) - i)
  BY <1>1, <1>2, <1>3
<1>7. \A k \in 1..(Len(queue) - i) : k + i \in 1..Len(queue)
  BY <1>1, <1>2
<1>8. \A k \in 1..(i - 1) : k \in 1..Len(queue)
  BY <1>1, <1>2
<1>9. done \subseteq Buffers /\ \A b \in done : b = front \/ \E k \in 1..(i - 1) : b = queue[k]
  BY <1>1, <1>4, <1>8
<1> HIDE DEF done
<1>10. idle \subseteq Buffers /\ queue[i] \in Buffers /\ queue[i] # NoBuffer
  BY <1>1, <1>2, BufferNumbers DEF XTypeOK
<1>11. /\ idle' \subseteq Buffers /\ front' \in {queue[i], NoBuffer}
       /\ \A b \in idle' : \/ b \in idle \/ b = front \/ b = queue[i]
                           \/ \E k \in 1..(i - 1) : b = queue[k]
       /\ front' = queue[i] =>
            \A b \in idle' : \/ b \in idle \/ b = front
                             \/ \E k \in 1..(i - 1) : b = queue[k]
  BY <1>5, <1>9, <1>10
<1> QED BY <1>1, <1>2, <1>3, <1>5, <1>6, <1>7, <1>11

LEMMA Sent ==
  ASSUME XTypeOK, NEW b \in Buffers, XPresent(b), ~broken
  PROVE  /\ Len(queue) \in Nat /\ DOMAIN queue = 1..Len(queue)
         /\ queue' \in Seq(Buffers) /\ DOMAIN queue' = 1..(Len(queue) + 1)
         /\ queue'[Len(queue) + 1] = b
         /\ \A k \in DOMAIN queue : queue'[k] = queue[k]
  BY DEF XTypeOK, XPresent

-----------------------------------------------------------------------------
(* The steps that touch the DRM backend, those that touch the X11 backend, *)
(* and the rest.                                                           *)
QuietSteps ==
  \/ ReadFile \/ LookAtMtime \/ Poll \/ Quit \/ WaitedIdle \/ NoticeEdit \/ Reload
  \/ KeepKernel \/ Dispatch \/ GpuDone \/ DrainedFirst \/ Edit \/ UNCHANGED vars

LEMMA Steps ==
  ASSUME [Next]_vars
  PROVE  \/ CreateDrm \/ ImportBuffer \/ WaitIdle \/ Drain \/ PresentDrm \/ CloseDrm
         \/ Dies \/ Killed \/ CardFlips \/ CreateXcb \/ FallBack \/ PresentXcb \/ DrainedLast
         \/ CloseXcb \/ ServerShows \/ ServerBreaks \/ QuietSteps
  BY DEF Next, MainStep, Display, QuietSteps

LEMMA QuietKeepsWindows ==
  ASSUME QuietSteps
  PROVE  /\ UNCHANGED <<dvars, xvars, backend, current, frame, shown>>
         /\ pc' = "dead" => pc = "dead"
<1>1. CASE ReadFile \/ LookAtMtime
  BY <1>1 DEF ReadFile, LookAtMtime, main
<1>2. CASE Poll \/ Quit \/ WaitedIdle \/ NoticeEdit \/ Reload \/ KeepKernel \/ Dispatch
           \/ GpuDone \/ DrainedFirst
  BY <1>2 DEF Poll, Quit, WaitedIdle, NoticeEdit, Reload, KeepKernel, Dispatch, GpuDone,
     DrainedFirst, Goto, WindowIdle, main
<1>3. CASE Edit \/ UNCHANGED vars
  BY <1>3 DEF Edit, WindowIdle, main, vars, app
<1> QED BY <1>1, <1>2, <1>3 DEF QuietSteps

LEMMA DrmSteps ==
  ASSUME [Next]_vars
  PROVE  \/ CreateDrm \/ ImportBuffer \/ WaitIdle \/ Drain \/ PresentDrm \/ CloseDrm
         \/ Dies \/ CardFlips
         \/ UNCHANGED <<dvars, frame>> /\ (pc' = "dead" => pc = "dead")
         \/ DrainedLast /\ UNCHANGED dvars
<1>1. CASE QuietSteps
  BY <1>1, QuietKeepsWindows
<1>2. CASE CreateXcb \/ FallBack \/ ServerBreaks \/ ServerShows
  BY <1>2 DEF CreateXcb, FallBack, ServerBreaks, ServerShows, app, main
<1>3. CASE PresentXcb \/ CloseXcb \/ Killed
  BY <1>3 DEF PresentXcb, CloseXcb, Killed, Goto, main
<1>4. CASE DrainedLast
  BY <1>4 DEF DrainedLast
<1> QED BY <1>1, <1>2, <1>3, <1>4, Steps

LEMMA XcbSteps ==
  ASSUME [Next]_vars
  PROVE  \/ CreateXcb \/ FallBack \/ ImportBuffer \/ WaitIdle \/ Drain \/ PresentXcb
         \/ CloseXcb \/ ServerShows \/ ServerBreaks \/ UNCHANGED xvars
<1>1. CASE QuietSteps
  BY <1>1, QuietKeepsWindows
<1>2. CASE CreateDrm \/ PresentDrm \/ CloseDrm \/ Dies \/ Killed \/ CardFlips \/ DrainedLast
  BY <1>2 DEF CreateDrm, PresentDrm, CloseDrm, Dies, Killed, CardFlips, DrainedLast
<1> QED BY <1>1, <1>2, Steps

(* What the events, a frame and the end do to the slots.                   *)
LEMMA DrmEvents ==
  ASSUME WaitIdle \/ Drain \/ CloseDrm
  PROVE  \/ DHandleEvent /\ UNCHANGED xvars
         \/ XHandleEvent /\ UNCHANGED dvars
         \/ DropReady \/ RestoreCrtc \/ RemoveFbs \/ HadNoTty \/ ReleaseGuard
         \/ ReleaseConsole
  BY DEF WaitIdle, Drain, CloseDrm, HandleEvent

LEMMA DTypesNext == ASSUME ToyInv, [Next]_vars PROVE DTypeOK'
<1>1. DTypeOK /\ XTypeOK /\ current \in Buffers
  BY DEF ToyInv, TypeOK
<1>2. CASE CreateDrm
  BY <1>1, <1>2 DEF CreateDrm, OpenCard, ChooseOutput, LookupProps, CreateBlob,
     DCreateFails, HasNoTty, TakeConsole, InstallTtyGuard, DStep, CrtcState, DTypeOK, choice,
     slots, kernel, console_state
<1>3. CASE ImportBuffer
  <2> DEFINE b == Min(Buffers \ Imported)
  <2>1. Imported \subseteq Buffers /\ Buffers \ Imported # {}
    BY <1>1, <1>3 DEF ImportBuffer, Imported, DTypeOK, XTypeOK
  <2>2. b \in Buffers
    BY <2>1, MinIn, BufferNumbers
  <2>3. UNCHANGED dvars \/ DImport(b)
    BY <1>3 DEF ImportBuffer
  <2> HIDE DEF b
  <2> QED BY <1>1, <2>2, <2>3 DEF DImport, DTypeOK, dvars, choice, slots, kernel,
     console_state
<1>4. CASE WaitIdle \/ Drain \/ CloseDrm
  <2>1. CASE HandleEvent
    BY <1>1, <2>1, EventTypes
  <2>2. CASE DropReady \/ RestoreCrtc \/ RemoveFbs \/ HadNoTty \/ ReleaseGuard
             \/ ReleaseConsole
    BY <1>1, <2>2 DEF DropReady, RestoreCrtc, RemoveFbs, TakeFbs, HadNoTty, ReleaseGuard,
       ReleaseConsole, DStep, DTypeOK, choice, slots, kernel, console_state, Saved
  <2> QED BY <1>4, <2>1, <2>2 DEF WaitIdle, Drain, CloseDrm, HandleEvent
<1>5. CASE PresentDrm
  BY <1>1, <1>5, PresentTypes DEF PresentDrm
<1>6. CASE Dies
  BY <1>1, <1>6 DEF Dies, RestoreTty, DTypeOK, choice, slots, kernel
<1>7. CASE CardFlips
  BY <1>1, <1>7 DEF CardFlips, Vblank, DTypeOK, choice, slots, console_state
<1>8. CASE UNCHANGED dvars
  BY <1>1, <1>8 DEF DTypeOK, dvars, choice, console_state, slots, kernel
<1> QED BY <1>2, <1>3, <1>4, <1>5, <1>6, <1>7, <1>8, DrmSteps DEF dvars

LEMMA XTypesNext == ASSUME ToyInv, [Next]_vars PROVE XTypeOK'
<1>1. DTypeOK /\ XTypeOK /\ current \in Buffers
  BY DEF ToyInv, TypeOK
<1>2. CASE CreateXcb \/ FallBack
  BY <1>1, <1>2 DEF CreateXcb, FallBack, XConnect, XHasDri3, XHasPresent, XCreateFails,
     XTypeOK, server
<1>3. CASE ImportBuffer
  <2> DEFINE b == Min(Buffers \ Imported)
  <2>1. Imported \subseteq Buffers /\ Buffers \ Imported # {}
    BY <1>1, <1>3 DEF ImportBuffer, Imported, DTypeOK, XTypeOK
  <2>2. b \in Buffers
    BY <2>1, MinIn, BufferNumbers
  <2>3. UNCHANGED xvars \/ XImport(b)
    BY <1>3 DEF ImportBuffer
  <2> HIDE DEF b
  <2> QED BY <1>1, <2>2, <2>3 DEF XImport, XTypeOK, xvars, server
<1>4. CASE WaitIdle \/ Drain
  BY <1>1, <1>4, EventTypes DEF WaitIdle, Drain
<1>5. CASE PresentXcb
  <2>1. queue' \in Seq(Buffers)
    BY <1>1, <1>5, Sent DEF PresentXcb, XPresent, XTypeOK
  <2> QED BY <1>1, <1>5, <2>1 DEF PresentXcb, XPresent, XTypeOK
<1>6. CASE ServerShows
  <2>1. PICK i \in DOMAIN queue : XShow(i)
    BY <1>6 DEF ServerShows
  <2>2. queue' \in Seq(Buffers) /\ idle' \subseteq Buffers
        /\ front' \in Buffers \cup {NoBuffer}
    BY <1>1, <2>1, Shown DEF XTypeOK
  <2> QED BY <1>1, <2>1, <2>2 DEF XShow, XTypeOK, window
<1>7. CASE CloseXcb \/ ServerBreaks
  <2>1. queue' = <<>> /\ front' = NoBuffer /\ idle' \subseteq Buffers
        /\ xstage' \in {xstage, "closed"} /\ pixmaps' \in {pixmaps, {}}
        /\ busy' = busy /\ broken' \in {broken, TRUE}
    <3>1. CASE CloseXcb
      BY <3>1 DEF CloseXcb, XDestroy
    <3>2. CASE ServerBreaks
      BY <1>1, <3>2 DEF ServerBreaks, XBreak, XTypeOK, window
    <3> QED BY <1>7, <3>1, <3>2
  <2>2. <<>> \in Seq(Buffers)
    OBVIOUS
  <2> QED BY <1>1, <2>1, <2>2 DEF XTypeOK
<1>8. CASE UNCHANGED xvars
  BY <1>1, <1>8 DEF XTypeOK, xvars, window, server
<1> QED BY <1>2, <1>3, <1>4, <1>5, <1>6, <1>7, <1>8, XcbSteps

LEMMA TypesNext == ASSUME ToyInv, [Next]_vars PROVE TypeOK'
<1> DEFINE AppTypes ==
      /\ pc \in Loop \cup {"read", "window", "closing", "closed", "dead", "killed"}
      /\ backend \in {"xcb", "drm"}
      /\ current \in Buffers /\ frame \in 0..MaxFrames
      /\ stamp \in [Buffers -> 0..MaxFrames] /\ shown \in 0..MaxFrames
      /\ {file, loaded, elfMtime} \subseteq 0..MaxEdits /\ missed \in BOOLEAN
<1>1. AppTypes /\ DTypeOK /\ XTypeOK /\ Free
  BY DEF ToyInv, TypeOK
<1>2. CASE ReadFile \/ LookAtMtime \/ Poll \/ Quit \/ WaitedIdle \/ NoticeEdit \/ Reload
           \/ KeepKernel \/ Dispatch \/ DrainedFirst
  <2>1. AppTypes'
    BY <1>1, <1>2 DEF Loop, ReadFile, LookAtMtime, Poll, Quit, WaitedIdle, NoticeEdit,
       Reload, KeepKernel, Dispatch, DrainedFirst, Goto, WindowIdle, main, kernelFile
  <2> QED BY <2>1, DTypesNext, XTypesNext DEF TypeOK
<1>3. CASE GpuDone \/ Edit \/ UNCHANGED vars
  <2>1. AppTypes'
    BY <1>1, <1>3, Bounds DEF Loop, GpuDone, Edit, Goto, WindowIdle, main, kernelFile,
       Free, vars, app
  <2> QED BY <2>1, DTypesNext, XTypesNext DEF TypeOK
<1>4. CASE CreateXcb \/ FallBack \/ CreateDrm \/ ImportBuffer \/ WaitIdle \/ Drain
           \/ PresentXcb \/ CloseDrm \/ CloseXcb \/ Dies \/ Killed \/ ServerBreaks
  <2>1. AppTypes'
    BY <1>1, <1>4 DEF Loop, CreateXcb, FallBack, CreateDrm, ImportBuffer, WaitIdle, Drain,
       PresentXcb, CloseDrm, CloseXcb, Dies, Killed, ServerBreaks, Goto, app, main,
       kernelFile
  <2> QED BY <2>1, DTypesNext, XTypesNext DEF TypeOK
<1>5. CASE PresentDrm \/ DrainedLast
  <2>1. current' \in Buffers /\ frame' \in 0..MaxFrames
    BY <1>1, <1>5, BufferNumbers, Bounds DEF PresentDrm, DrainedLast, NextBuffer, Free, Loop
  <2>2. AppTypes'
    BY <1>1, <1>5, <2>1 DEF PresentDrm, DrainedLast, NextBuffer, Loop, kernelFile
  <2> QED BY <2>2, DTypesNext, XTypesNext DEF TypeOK
<1>6. CASE CardFlips \/ ServerShows
  <2>1. shown' \in 0..MaxFrames
    <3>1. CASE CardFlips
      BY <1>1, <3>1 DEF CardFlips, Vblank, DTypeOK
    <3>2. CASE ServerShows
      <4>1. PICK i \in DOMAIN queue : shown' = stamp[queue[i]]
        BY <3>2 DEF ServerShows
      <4>2. queue[i] \in Buffers
        BY <1>1 DEF XTypeOK
      <4> QED BY <1>1, <4>1, <4>2
    <3> QED BY <1>6, <3>1, <3>2
  <2>2. AppTypes'
    BY <1>1, <1>6, <2>1 DEF CardFlips, ServerShows, main, kernelFile
  <2> QED BY <2>2, DTypesNext, XTypesNext DEF TypeOK
<1> QED BY <1>2, <1>3, <1>4, <1>5, <1>6, Steps DEF QuietSteps

-----------------------------------------------------------------------------
(* The parts of the invariant, one by one.                                 *)
LEMMA ChosenNext == ASSUME ToyInv, [Next]_vars PROVE Chosen'
<1>1. Chosen
  BY DEF ToyInv
<1>2. CASE CreateDrm
  BY <1>1, <1>2 DEF CreateDrm, OpenCard, ChooseOutput, LookupProps, CreateBlob,
     DCreateFails, HasNoTty, TakeConsole, InstallTtyGuard, DStep, choice, Chosen
<1>3. CASE ImportBuffer
  BY <1>1, <1>3 DEF ImportBuffer, DImport, dvars, choice, Chosen
<1>4. CASE WaitIdle \/ Drain \/ CloseDrm
  BY <1>1, <1>4, DrmEvents DEF DHandleEvent, DropReady, RestoreCrtc, RemoveFbs, TakeFbs,
     HadNoTty, ReleaseGuard, ReleaseConsole, DStep, dvars, choice, Chosen
<1>5. CASE PresentDrm \/ Dies \/ CardFlips
  BY <1>1, <1>5 DEF PresentDrm, DPresent, Dies, CardFlips, Vblank, choice, Chosen
<1> QED BY <1>1, <1>2, <1>3, <1>4, <1>5, DrmSteps DEF dvars, Chosen

LEMMA SlotsAgreeNext == ASSUME ToyInv, [Next]_vars PROVE SlotsAgree'
<1>1. SlotsAgree /\ Stages /\ DTypeOK /\ Free /\ frame \in Nat /\ current \in Buffers
  BY Bounds DEF ToyInv, TypeOK
<1>2. CASE CreateDrm
  <2>1. Untouched
    BY <1>1, <1>2 DEF CreateDrm, Stages, Setup
  <2>2. UNCHANGED <<slots, kernel, frame>>
        /\ dstage' \notin {"restored", "removed", "unguarded"}
    BY <1>2 DEF CreateDrm, OpenCard, ChooseOutput, LookupProps, CreateBlob,
       DCreateFails, HasNoTty, TakeConsole, InstallTtyGuard, DStep, app, main
  <2> QED BY <1>1, <2>1, <2>2, BufferNumbers DEF Untouched, SlotsAgree, slots, kernel
<1>3. CASE ImportBuffer
  BY <1>1, <1>3 DEF ImportBuffer, DImport, SlotsAgree, dvars, slots, kernel, app, main
<1>4. CASE (WaitIdle \/ Drain \/ CloseDrm) /\ DHandleEvent
  <2>1. frame' = frame /\ (CloseDrm => dstage = "settled")
    BY <1>4 DEF WaitIdle, Drain, CloseDrm, app, main, DHandleEvent, DropReady, RestoreCrtc,
       RemoveFbs, HadNoTty, ReleaseGuard, ReleaseConsole, DStep
  <2>2. modeSet /\ dstage \notin {"restored", "removed", "unguarded", "closed"} /\ frame # 0
    BY <1>1, <1>4 DEF DHandleEvent, SlotsAgree
  <2> QED BY <1>1, <1>4, <2>1, <2>2 DEF DHandleEvent, ChainFlip, NoChain, Accepts, Refuses,
       SlotsAgree, DTypeOK
<1>5. CASE (WaitIdle \/ Drain \/ CloseDrm) /\ ~DHandleEvent
  <2>1. frame' = frame
    BY <1>5 DEF WaitIdle, Drain, CloseDrm, app, main
  <2>2. CASE DropReady \/ HadNoTty \/ ReleaseGuard \/ ReleaseConsole
    BY <1>1, <2>1, <2>2 DEF DropReady, HadNoTty, ReleaseGuard, ReleaseConsole,
       DStep, SlotsAgree, slots, kernel
  <2>3. CASE RestoreCrtc
    BY <1>1, <2>1, <2>3, BufferNumbers DEF RestoreCrtc, DStep, SlotsAgree, slots
  <2>4. CASE RemoveFbs
    BY <1>1, <2>1, <2>4, BufferNumbers DEF RemoveFbs, TakeFbs, DStep, SlotsAgree, slots
  <2>5. CASE UNCHANGED dvars
    BY <1>1, <2>1, <2>5 DEF SlotsAgree, dvars
  <2> QED BY <1>5, <2>2, <2>3, <2>4, <2>5, DrmEvents
<1>6. CASE PresentDrm
  <2>1. frame' # 0 /\ dstage = "live" /\ dstage' = dstage
    BY <1>1, <1>6 DEF PresentDrm, DPresent, NextBuffer, Stages, Loop
  <2> QED BY <1>1, <1>6, <2>1, BufferNumbers DEF PresentDrm, DPresent, SetMode, PageFlip, Park,
       Accepts, Refuses, SlotsAgree, DTypeOK
<1>7. CASE Dies
  BY <1>1, <1>7 DEF Dies, SlotsAgree, slots, kernel, main
<1>8. CASE CardFlips
  BY <1>1, <1>8 DEF CardFlips, Vblank, SlotsAgree, slots, main
<1>9. CASE UNCHANGED <<dvars, frame>>
  BY <1>1, <1>9 DEF SlotsAgree, dvars
<1>10. CASE DrainedLast /\ UNCHANGED dvars
  <2>1. frame' # 0
    BY <1>1, <1>10 DEF DrainedLast, NextBuffer
  <2> QED BY <1>1, <1>10, <2>1 DEF SlotsAgree, dvars
<1> QED BY <1>2, <1>3, <1>4, <1>5, <1>6, <1>7, <1>8, <1>9, <1>10, DrmSteps

LEMMA GivenBackNext == ASSUME ToyInv, [Next]_vars PROVE GivenBack'
<1>1. GivenBack /\ SlotsAgree /\ Stages /\ DTypeOK
  BY DEF ToyInv, TypeOK
<1>2. CASE CreateDrm
  <2>1. scanout = Saved /\ UNCHANGED kernel /\ dstage' # "restored"
    BY <1>1, <1>2 DEF CreateDrm, Stages, Setup, Untouched, OpenCard, ChooseOutput,
       LookupProps, CreateBlob, DCreateFails, HasNoTty, TakeConsole, InstallTtyGuard, DStep
  <2> QED BY <2>1, BufferNumbers DEF GivenBack, ScreenGivenBack, kernel
<1>3. CASE ImportBuffer
  BY <1>1, <1>3 DEF ImportBuffer, DImport, GivenBack, ScreenGivenBack, DHeld, dvars, choice,
     kernel
<1>4. CASE DHandleEvent
  <2>1. dstage # "restored"
    BY <1>1, <1>4 DEF DHandleEvent, SlotsAgree
  <2> QED BY <1>1, <1>4, <2>1 DEF DHandleEvent, GivenBack, ScreenGivenBack, choice
<1>5. CASE DropReady \/ HadNoTty \/ ReleaseGuard \/ ReleaseConsole
  BY <1>1, <1>5 DEF DropReady, HadNoTty, ReleaseGuard, ReleaseConsole, DStep, GivenBack,
     ScreenGivenBack, choice, kernel
<1>6. CASE RestoreCrtc
  <2>1. flip = NoBuffer /\ UNCHANGED <<saved, flip>>
    BY <1>1, <1>6 DEF RestoreCrtc, SlotsAgree, choice
  <2>2. scanout' = Saved => DHeld' = {}
    BY <2>1, BufferNumbers DEF DHeld
  <2> QED BY <1>1, <1>6, <2>1, <2>2, BufferNumbers DEF RestoreCrtc, GivenBack,
       ScreenGivenBack
<1>7. CASE RemoveFbs
  BY <1>1, <1>7 DEF RemoveFbs, TakeFbs, DStep, GivenBack, ScreenGivenBack, choice
<1>8. CASE PresentDrm
  <2>1. dstage = "live"
    BY <1>1, <1>8 DEF PresentDrm, Stages, Loop
  <2> QED BY <1>1, <1>8, <2>1 DEF PresentDrm, DPresent, GivenBack, ScreenGivenBack, choice
<1>9. CASE Dies \/ UNCHANGED dvars
  BY <1>1, <1>9 DEF Dies, GivenBack, ScreenGivenBack, DHeld, choice, kernel, dvars
<1>10. CASE CardFlips
  <2>1. scanout' # NoBuffer /\ dstage # "restored" /\ UNCHANGED dstage
    BY <1>1, <1>10 DEF CardFlips, Vblank, SlotsAgree
  <2> QED BY <2>1 DEF GivenBack, ScreenGivenBack
<1> QED BY <1>2, <1>3, <1>4, <1>5, <1>6, <1>7, <1>8, <1>9, <1>10, DrmSteps, DrmEvents

LEMMA SentBusyNext == ASSUME ToyInv, [Next]_vars PROVE SentBusy'
<1>1. SentBusy /\ XTypeOK /\ Free /\ current \in Buffers
  BY DEF ToyInv, TypeOK
<1>2. CASE CreateXcb \/ FallBack
  BY <1>1, <1>2 DEF CreateXcb, FallBack, XConnect, XHasDri3, XHasPresent, XCreateFails,
     SentBusy, server
<1>3. CASE ImportBuffer
  BY <1>1, <1>3 DEF ImportBuffer, XImport, SentBusy, server, xvars
<1>4. CASE WaitIdle \/ Drain
  BY <1>1, <1>4 DEF WaitIdle, Drain, HandleEvent, XHandleEvent, SentBusy, xvars
<1>5. CASE PresentXcb
  <2>1. current \notin busy
    BY <1>1, <1>5 DEF PresentXcb, Goto, Free, InUse
  <2>2. CASE broken
    BY <1>1, <1>5, <2>2 DEF PresentXcb, XPresent, SentBusy
  <2>3. CASE ~broken
    <3>1. /\ \A k \in DOMAIN queue' : queue'[k] = current \/ k \in DOMAIN queue
          /\ \A k \in DOMAIN queue' : k \notin DOMAIN queue => k = Len(queue) + 1
          /\ \A k \in DOMAIN queue : queue'[k] = queue[k]
      BY <1>1, <1>5, <2>3, Sent DEF PresentXcb
    <3>2. busy' = busy \cup {current} /\ UNCHANGED <<front, idle, broken>>
      BY <1>5 DEF PresentXcb, XPresent
    <3>3. \A k \in DOMAIN queue' : /\ queue'[k] \in busy'
                                  /\ queue'[k] \notin idle' /\ queue'[k] # front'
      BY <1>1, <2>1, <3>1, <3>2, BufferNumbers DEF SentBusy
    <3>4. \A k, m \in DOMAIN queue' : queue'[k] = queue'[m] => k = m
      BY <1>1, <2>1, <3>1 DEF SentBusy
    <3> QED BY <1>1, <2>1, <2>3, <3>2, <3>3, <3>4 DEF SentBusy
  <2> QED BY <2>2, <2>3
<1>6. CASE CloseXcb \/ ServerBreaks
  <2>1. queue' = <<>> /\ front' = NoBuffer /\ idle' \subseteq idle /\ busy' = busy
    BY <1>6 DEF CloseXcb, ServerBreaks, XDestroy, XBreak, window
  <2> QED BY <1>1, <2>1 DEF SentBusy
<1>7. CASE ServerShows
  <2>1. PICK i \in DOMAIN queue : XShow(i)
    BY <1>7 DEF ServerShows
  <2>2. busy' = busy /\ broken' = broken /\ ~broken
    BY <1>1, <2>1 DEF XShow, window, SentBusy
  <2> DEFINE Gone(b) == b \in idle \/ b = front \/ b = queue[i]
                        \/ \E k \in 1..(i - 1) : b = queue[k]
  <2>3. \A k \in DOMAIN queue' : k + i \in DOMAIN queue /\ queue'[k] = queue[k + i]
                                 /\ k + i # i /\ k \in Int
    BY <1>1, <2>1, Shown
  <2>4. \A b \in idle' : Gone(b)
    BY <1>1, <2>1, Shown
  <2>5. \A k \in DOMAIN queue' : ~Gone(queue'[k]) /\ queue'[k] # front'
    <3> SUFFICES ASSUME NEW k \in DOMAIN queue' PROVE ~Gone(queue'[k]) /\ queue'[k] # front'
      OBVIOUS
    <3>1. k \in 1..(Len(queue) - i) /\ DOMAIN queue = 1..Len(queue) /\ i \in 1..Len(queue)
          /\ Len(queue) \in Nat
      BY <1>1, <2>1, Shown
    <3>2. \A m \in 1..(i - 1) : m \in DOMAIN queue /\ m # k + i
      BY <3>1
    <3>3. queue[k + i] \in busy /\ queue[k + i] \notin idle /\ queue[k + i] # front
          /\ queue[k + i] # queue[i] /\ queue[k + i] \in Buffers
      BY <1>1, <2>1, <2>3 DEF SentBusy, XTypeOK
    <3>4. front' \in {queue[i], NoBuffer}
      BY <1>1, <2>1, Shown
    <3> QED BY <1>1, <2>3, <3>2, <3>3, <3>4, BufferNumbers DEF SentBusy
  <2>6. idle' \subseteq busy'
    <3>1. \A m \in 1..(i - 1) : m \in DOMAIN queue
      BY <1>1, <2>1, Shown
    <3>2. idle' \subseteq Buffers
      BY <1>1, <2>1, Shown
    <3> QED BY <1>1, <2>1, <2>2, <2>4, <3>1, <3>2, BufferNumbers DEF SentBusy
  <2>7. front' # NoBuffer => front' \in busy' /\ front' \notin idle'
    <3> SUFFICES ASSUME front' # NoBuffer PROVE front' \in busy' /\ front' \notin idle'
      OBVIOUS
    <3>1. front' = queue[i]
          /\ \A b \in idle' : b \in idle \/ b = front \/ \E k \in 1..(i - 1) : b = queue[k]
      BY <1>1, <2>1, Shown
    <3>2. \A m \in 1..(i - 1) : m \in DOMAIN queue /\ m # i
      BY <1>1, <2>1, Shown
    <3> QED BY <1>1, <2>1, <2>2, <3>1, <3>2 DEF SentBusy
  <2>8. \A k, m \in DOMAIN queue' : queue'[k] = queue'[m] => k = m
    <3> SUFFICES ASSUME NEW k \in DOMAIN queue', NEW m \in DOMAIN queue', queue'[k] = queue'[m]
                 PROVE  k = m
      OBVIOUS
    <3>1. k + i = m + i
      BY <1>1, <2>3 DEF SentBusy
    <3>2. k \in Int /\ m \in Int /\ i \in Int
      BY <1>1, <2>1, <2>3, Shown
    <3>3. k = (k + i) - i /\ m = (m + i) - i
      BY <3>2
    <3> QED BY <3>1, <3>3
  <2>9. \A k \in DOMAIN queue' : queue'[k] \in busy'
    BY <1>1, <2>2, <2>3 DEF SentBusy
  <2> QED BY <2>2, <2>4, <2>5, <2>6, <2>7, <2>8, <2>9 DEF SentBusy
<1>8. CASE UNCHANGED xvars
  BY <1>1, <1>8 DEF SentBusy, xvars
<1> QED BY <1>2, <1>3, <1>4, <1>5, <1>6, <1>7, <1>8, XcbSteps

(* An event never locks a buffer that was free.                            *)
LEMMA EventsUnlock ==
  ASSUME HandleEvent, NoBuffer \notin Buffers, current \in Buffers, current' = current,
         backend' = backend
  PROVE  InUse' => InUse
<1>1. CASE Drm
  BY <1>1 DEF HandleEvent, DHandleEvent, ChainFlip, NoChain, InUse, Locked, Drm
<1>2. CASE ~Drm
  BY <1>2 DEF HandleEvent, XHandleEvent, InUse, Drm
<1> QED BY <1>1, <1>2

LEMMA FreeNext == ASSUME ToyInv, [Next]_vars PROVE Free'
<1>1. Free /\ SlotsAgree /\ current \in Buffers
  BY DEF ToyInv, TypeOK
<1>2. CASE WaitIdle \/ Drain
  <2>1. InUse' => InUse
    BY <1>1, <1>2, EventsUnlock, BufferNumbers DEF WaitIdle, Drain, app, main
  <2> QED BY <1>1, <1>2, <2>1 DEF WaitIdle, Drain, Free, Drm, app, main
<1>3. CASE QuietSteps
  <2>1. InUse' = InUse /\ Drm' = Drm /\ frame' = frame
    BY <1>3, QuietKeepsWindows DEF InUse, Locked, Drm, dvars, xvars
  <2>2. CASE UNCHANGED pc
    BY <1>1, <2>1, <2>2 DEF Free
  <2>3. CASE pc' # pc
    BY <1>1, <1>3, <2>1, <2>3 DEF QuietSteps, ReadFile, LookAtMtime, Poll, Quit, WaitedIdle,
       NoticeEdit, Reload, KeepKernel, Dispatch, GpuDone, DrainedFirst, Edit, Goto, Free,
       Loop, vars, app, main
  <2> QED BY <2>2, <2>3
<1>4. CASE CreateXcb \/ FallBack \/ CreateDrm \/ ImportBuffer
  BY <1>4 DEF CreateXcb, FallBack, CreateDrm, ImportBuffer, Free, Loop, app
<1>5. CASE PresentDrm \/ DrainedLast \/ CloseDrm \/ CloseXcb \/ Dies \/ Killed
  BY <1>5 DEF PresentDrm, DrainedLast, NextBuffer, CloseDrm, CloseXcb, Dies, Killed, Goto,
     Free, Loop
<1>6. CASE PresentXcb
  BY <1>1, <1>6 DEF PresentXcb, Goto, Free, Loop, Drm, main
<1>7. CASE CardFlips \/ ServerShows \/ ServerBreaks
  BY <1>1, <1>7 DEF CardFlips, ServerShows, ServerBreaks, Vblank, XShow, XBreak, Free, InUse,
     Locked, Drm, slots, window, dvars, xvars, app, main
<1> QED BY <1>2, <1>3, <1>4, <1>5, <1>6, <1>7, Steps

(* A card that refuses nothing chains the parked frame after the pending.  *)
LEMMA EventsKeepNewest ==
  ASSUME SlotsAgree, DTypeOK, DHandleEvent, refused' = 0
  PROVE  refused = 0 /\ Newest' = Newest
<1>1. flip = NoBuffer /\ pending # NoBuffer /\ refused \in Nat
  BY Bounds DEF DHandleEvent, SlotsAgree, DTypeOK
<1>2. CASE ChainFlip
  <2>1. ~Refuses
    BY <1>1 DEF Refuses
  <2> QED BY <1>1, <1>2, <2>1 DEF DHandleEvent, ChainFlip, Accepts, Newest
<1>3. CASE NoChain
  BY <1>1, <1>3 DEF DHandleEvent, NoChain, Newest
<1> QED BY <1>2, <1>3 DEF DHandleEvent

LEMMA PresentIsNewest ==
  ASSUME SlotsAgree, DTypeOK, NEW b \in Buffers, DPresent(b), refused' = 0
  PROVE  Newest' = b
<1>1. refused \in Nat /\ b # NoBuffer
  BY Bounds, BufferNumbers DEF DTypeOK
<1>2. CASE Park(b)
  BY <1>1, <1>2 DEF Park, Newest
<1>3. CASE SetMode(b) \/ PageFlip(b)
  <2>1. flip = NoBuffer /\ ready = NoBuffer
    BY <1>3 DEF SetMode, PageFlip, SlotsAgree
  <2>2. ~Refuses
    BY <1>1, <2>1 DEF Refuses
  <2> QED BY <1>1, <1>3, <2>1, <2>2 DEF SetMode, PageFlip, Newest
<1> QED BY <1>2, <1>3 DEF DPresent

LEMMA InTurnNext == ASSUME ToyInv, [Next]_vars PROVE InTurn'
<1>1. InTurn /\ SlotsAgree /\ Stages /\ DTypeOK /\ current \in Buffers
  BY DEF ToyInv, TypeOK
<1>2. CASE (WaitIdle \/ Drain) /\ Drm
  <2>1. DHandleEvent /\ UNCHANGED <<pc, backend, current, frame>>
    BY <1>2 DEF WaitIdle, Drain, HandleEvent, app, main
  <2> QED BY <1>1, <2>1, EventsKeepNewest DEF InTurn, Drm
<1>3. CASE PresentDrm
  <2>1. refused' = 0 => Newest' = current
    BY <1>1, <1>3, PresentIsNewest DEF PresentDrm
  <2>2. current' = (current + 1) % NumBuffers
    BY <1>3 DEF PresentDrm, NextBuffer
  <2> QED BY <1>1, <2>1, <2>2, BufferNumbers DEF InTurn
<1>4. CASE QuietSteps
  <2>1. Newest' = Newest /\ UNCHANGED <<refused, backend, current, frame>>
    BY <1>4, QuietKeepsWindows DEF Newest, dvars
  <2>2. pc \in Loop \/ frame = 0 \/ pc' \notin Loop
    BY <1>1, <1>4 DEF QuietSteps, ReadFile, LookAtMtime, Poll, Quit, WaitedIdle, NoticeEdit,
       Reload, KeepKernel, Dispatch, GpuDone, DrainedFirst, Edit, Goto, Loop, vars, app,
       Stages, Setup
  <2> QED BY <1>1, <2>1, <2>2 DEF InTurn, Drm
<1>5. CASE \/ CreateXcb \/ FallBack \/ CreateDrm \/ ImportBuffer \/ CloseDrm \/ CloseXcb
           \/ Dies \/ Killed
  BY <1>5 DEF CreateXcb, FallBack, CreateDrm, ImportBuffer, CloseDrm, CloseXcb, Dies, Killed,
     Goto, Loop, app, InTurn
<1>6. CASE ((WaitIdle \/ Drain) /\ ~Drm) \/ PresentXcb \/ DrainedLast
  BY <1>6 DEF WaitIdle, Drain, PresentXcb, DrainedLast, InTurn, Drm, app
<1>7. CASE CardFlips \/ ServerShows \/ ServerBreaks
  BY <1>1, <1>7 DEF CardFlips, ServerShows, ServerBreaks, Vblank, InTurn, Newest, Drm, slots,
     dvars, app, main
<1> QED BY <1>2, <1>3, <1>4, <1>5, <1>6, <1>7, Steps

LEMMA GuardedNext == ASSUME ToyInv, [Next]_vars PROVE Guarded'
<1>1. Guarded /\ Stages /\ console \in {"text", "graphics"} /\ guarded \in BOOLEAN
  BY DEF ToyInv, TypeOK, DTypeOK
<1>2. CASE CreateDrm
  BY <1>1, <1>2 DEF CreateDrm, OpenCard, ChooseOutput, LookupProps, CreateBlob,
     DCreateFails, HasNoTty, TakeConsole, InstallTtyGuard, DStep, console_state, Guarded,
     Early, app
<1>3. CASE ImportBuffer
  BY <1>1, <1>3 DEF ImportBuffer, DImport, dvars, console_state, Guarded, app
<1>4. CASE WaitIdle \/ Drain
  BY <1>1, <1>4 DEF WaitIdle, Drain, HandleEvent, DHandleEvent, dvars, console_state,
     Guarded, app
<1>5. CASE CloseDrm
  <2>1. pc' # "dead"
    BY <1>5 DEF CloseDrm
  <2>2. CASE DHandleEvent \/ DropReady \/ RestoreCrtc \/ RemoveFbs
    BY <1>1, <2>1, <2>2 DEF DHandleEvent, DropReady, RestoreCrtc, RemoveFbs, TakeFbs,
       DStep, console_state, Guarded, Early
  <2>3. CASE HadNoTty \/ ReleaseGuard \/ ReleaseConsole
    BY <1>1, <2>1, <2>3 DEF HadNoTty, ReleaseGuard, ReleaseConsole, DStep, console_state,
       Guarded, Early
  <2> QED BY <1>5, <2>2, <2>3 DEF CloseDrm
<1>6. CASE Dies
  BY <1>1, <1>6 DEF Dies, RestoreTty, Guarded
<1>7. CASE PresentDrm \/ CardFlips
  BY <1>1, <1>7 DEF PresentDrm, DPresent, NextBuffer, CardFlips, Vblank, console_state,
     Guarded
<1>8. CASE UNCHANGED dvars /\ (pc' = "dead" => pc = "dead")
  BY <1>1, <1>8 DEF Guarded, dvars
<1>9. CASE DrainedLast /\ UNCHANGED dvars
  BY <1>1, <1>9 DEF DrainedLast, NextBuffer, Guarded, dvars
<1> QED BY <1>2, <1>3, <1>4, <1>5, <1>6, <1>7, <1>8, <1>9, DrmSteps

LEMMA TimesNext == ASSUME ToyInv, [Next]_vars PROVE Times'
<1>1. Times /\ {file, elfMtime, loaded} \subseteq Nat /\ missed \in BOOLEAN
  BY Bounds DEF ToyInv, TypeOK
<1>2. CASE LookAtMtime \/ NoticeEdit \/ Reload \/ KeepKernel \/ Edit \/ ReadFile
  <2>1. CASE LookAtMtime
    <3>1. elfMtime' = file' /\ elfMtime' <= file'
      BY <1>1, <2>1 DEF LookAtMtime
    <3>2. loaded' = file' \/ missed'
      <4>1. CASE file = loaded
        BY <2>1, <4>1 DEF LookAtMtime
      <4>2. CASE file # loaded
        BY <2>1, <4>2 DEF LookAtMtime
      <4> QED BY <4>1, <4>2
    <3> QED BY <3>1, <3>2 DEF Times, EditsNoticed
  <2>2. CASE NoticeEdit \/ Reload \/ KeepKernel \/ ReadFile
    BY <1>1, <2>2 DEF NoticeEdit, Reload, KeepKernel, ReadFile, Goto, kernelFile, Times,
       EditsNoticed, Loop
  <2>3. CASE Edit
    <3>1. elfMtime' <= file' /\ elfMtime' # file'
      BY <1>1, <2>3 DEF Edit, Times
    <3> QED BY <3>1 DEF Times, EditsNoticed
  <2> QED BY <1>2, <2>1, <2>2, <2>3
<1>3. CASE Poll \/ Quit \/ WaitedIdle \/ Dispatch \/ GpuDone \/ DrainedFirst
           \/ UNCHANGED vars
  BY <1>1, <1>3 DEF Poll, Quit, WaitedIdle, Dispatch, GpuDone, DrainedFirst, Goto, vars, app,
     kernelFile, Times, EditsNoticed, Loop
<1>4. CASE CreateXcb \/ FallBack \/ CreateDrm \/ ImportBuffer \/ WaitIdle \/ Drain
           \/ PresentXcb \/ CloseDrm \/ CloseXcb \/ Dies \/ Killed \/ ServerBreaks
  BY <1>1, <1>4 DEF CreateXcb, FallBack, CreateDrm, ImportBuffer, WaitIdle, Drain, PresentXcb,
     CloseDrm, CloseXcb, Dies, Killed, ServerBreaks, Goto, app, kernelFile, Times,
     EditsNoticed, Loop
<1>5. CASE PresentDrm \/ DrainedLast \/ CardFlips \/ ServerShows
  BY <1>1, <1>5 DEF PresentDrm, DrainedLast, NextBuffer, CardFlips, ServerShows, kernelFile,
     Times, EditsNoticed, Loop
<1> QED BY <1>2, <1>3, <1>4, <1>5, Steps DEF QuietSteps

LEMMA StagesNext == ASSUME ToyInv, [Next]_vars PROVE Stages'
<1>1. Stages /\ TypeOK
  BY DEF ToyInv
<1>2. CASE QuietSteps
  <2>1. UNCHANGED <<dvars, xvars, backend, current, frame>>
    BY <1>2, QuietKeepsWindows
  <2>2. Untouched' = Untouched /\ Unsent' = Unsent /\ Drm' = Drm
    BY <2>1 DEF Untouched, Unsent, Drm, dvars, xvars
  <2>3. /\ pc' = pc \/ pc' \in {"window", "closing"} \cup Loop
        /\ pc' = "window" => pc \in {"window", "read"}
        /\ pc' \in Loop => pc \in Loop \/ (dstage = "live" /\ fbs = Buffers) \/ ~Drm
        /\ pc' = "closing" => pc \in Loop \/ pc = "closing"
    BY <1>2 DEF QuietSteps, ReadFile, LookAtMtime, Poll, Quit, WaitedIdle, NoticeEdit,
       Reload, KeepKernel, Dispatch, GpuDone, DrainedFirst, Edit, Goto, Loop, WindowLive,
       Imported, vars, app
  <2> QED BY <1>1, <2>1, <2>2, <2>3 DEF Stages, Setup, Loop, Late, dvars, xvars
<1>3. CASE CreateDrm
  BY <1>1, <1>3 DEF CreateDrm, OpenCard, ChooseOutput, LookupProps, CreateBlob,
     DCreateFails, HasNoTty, TakeConsole, InstallTtyGuard, DStep, Stages, Untouched, Unsent,
     Setup, Early, Late, Loop, Drm, app, main, xvars, slots, kernel
<1>4. CASE CreateXcb \/ FallBack
  BY <1>1, <1>4 DEF CreateXcb, FallBack, XConnect, XHasDri3, XHasPresent, XCreateFails,
     Stages, Untouched, Unsent, Setup, Early, Late, Loop, Drm, app, main, dvars, server
<1>5. CASE ImportBuffer
  BY <1>1, <1>5 DEF ImportBuffer, WindowLive, DImport, XImport, Stages, Untouched, Unsent,
     Setup, Early, Late, Loop, Drm, app, main, dvars, xvars, slots, kernel, server,
     console_state
<1>6. CASE WaitIdle \/ Drain
  BY <1>1, <1>6 DEF WaitIdle, Drain, HandleEvent, DHandleEvent, XHandleEvent, Stages,
     Untouched, Unsent, Setup, Early, Late, Loop, Drm, app, main, dvars, xvars, console_state
<1>7. CASE PresentDrm \/ DrainedLast
  BY <1>1, <1>7 DEF PresentDrm, DrainedLast, NextBuffer, DPresent, Stages, Untouched, Unsent,
     Setup, Early, Late, Loop, Drm, dvars, xvars, console_state
<1>8. CASE PresentXcb \/ CloseXcb
  BY <1>1, <1>8 DEF PresentXcb, CloseXcb, XPresent, XDestroy, Goto, Stages, Untouched, Unsent,
     Setup, Early, Late, Loop, Drm, main, dvars
<1>9. CASE CloseDrm
  BY <1>1, <1>9 DEF CloseDrm, DropReady, RestoreCrtc, RemoveFbs, TakeFbs, HadNoTty,
     ReleaseGuard, ReleaseConsole, DHandleEvent, DStep, Stages, Untouched, Unsent, Setup, Early, Late, Loop,
     Drm, main, xvars, slots, kernel, console_state
<1>10. CASE Dies
  BY <1>1, <1>10 DEF Dies, RestoreTty, Stages, Untouched, Unsent, Setup, Early, Late, Loop,
     Drm, main, xvars, slots, kernel
<1>11. CASE CardFlips \/ ServerShows \/ ServerBreaks
  BY <1>1, <1>11 DEF CardFlips, ServerShows, ServerBreaks, Vblank, XShow, XBreak, Stages,
     Untouched, Unsent, Setup, Early, Late, Loop, Drm, app, main, dvars, xvars, slots, window,
     console_state
<1>12. CASE Killed
  BY <1>1, <1>12 DEF Killed, Stages, Untouched, Unsent, Setup, Loop, Drm, main, dvars, xvars
<1> QED BY <1>2, <1>3, <1>4, <1>5, <1>6, <1>7, <1>8, <1>9, <1>10, <1>11, <1>12, Steps

(* What the order of the frames rests on.                                  *)
Order == <<stamp, shown, current, pending, ready, queue>>

LEMMA OrderKept ==
  ASSUME Stamps, UNCHANGED Order, Rendered' = Rendered, Ended => Ended',
         pc' \in {"drain", "present"} => pc \in {"drain", "present"} /\ frame' = frame
  PROVE  Stamps'
  BY DEF Stamps, Order

LEMMA StampsNext == ASSUME ToyInv, [Next]_vars PROVE Stamps'
<1>1. /\ Stamps /\ SlotsAgree /\ SentBusy /\ Free /\ Stages /\ current \in Buffers
      /\ frame \in Nat /\ shown \in Nat /\ stamp \in [Buffers -> Nat] /\ DTypeOK /\ XTypeOK
  BY Bounds DEF ToyInv, TypeOK
<1>2. Len(queue) \in Nat /\ DOMAIN queue = 1..Len(queue)
      /\ \A i \in DOMAIN queue : queue[i] \in Buffers
  BY <1>1 DEF XTypeOK
<1>3. CASE QuietSteps /\ ~GpuDone
  <2>1. UNCHANGED <<Order, frame>>
    BY <1>3 DEF QuietSteps, ReadFile, LookAtMtime, Poll, Quit, WaitedIdle, NoticeEdit, Reload,
       KeepKernel, Dispatch, DrainedFirst, Edit, Goto, WindowIdle, Order, vars, app, main,
       dvars, xvars
  <2>2. /\ Ended => Ended'
        /\ pc' \in {"drain", "present"} <=> pc \in {"drain", "present"}
    BY <1>3 DEF QuietSteps, ReadFile, LookAtMtime, Poll, Quit, WaitedIdle, NoticeEdit, Reload,
       KeepKernel, Dispatch, DrainedFirst, Edit, Goto, Ended, vars, app
  <2> QED BY <1>1, <2>1, <2>2, OrderKept DEF Rendered
<1>4. CASE GpuDone
  <2>1. /\ pc' \in {"drain", "present"} /\ UNCHANGED <<pending, ready, queue, shown, current>>
        /\ frame' = frame /\ pc = "gpu" /\ ~InUse
        /\ stamp' = [stamp EXCEPT ![current] = frame + 1]
    BY <1>1, <1>4 DEF GpuDone, Goto, WindowIdle, dvars, xvars, Free
  <2>2. current # pending /\ current # ready /\ \A i \in DOMAIN queue : queue[i] # current
    <3>1. CASE Drm
      BY <1>1, <2>1, <3>1 DEF InUse, Locked, Stages, Unsent
    <3>2. CASE ~Drm
      BY <1>1, <2>1, <3>2, BufferNumbers DEF InUse, Stages, Untouched, SentBusy
    <3> QED BY <3>1, <3>2
  <2>3. /\ stamp'[current] = frame + 1
        /\ \A b \in Buffers : b # current => stamp'[b] = stamp[b]
    BY <1>1, <2>1
  <2>4. shown <= frame /\ (\A b \in Buffers : stamp[b] <= frame) /\ ~Ended
        /\ Rendered' = frame + 1
    BY <1>1, <2>1 DEF Stamps, Rendered, Ended
  <2>5. shown' <= Rendered' /\ \A b \in Buffers : stamp'[b] <= Rendered'
    BY <1>1, <2>1, <2>3, <2>4
  <2>6. \A i \in DOMAIN queue : stamp'[queue[i]] = stamp[queue[i]]
    BY <1>2, <2>2, <2>3
  <2>7. /\ pending # NoBuffer => stamp'[pending] = stamp[pending]
        /\ ready # NoBuffer => stamp'[ready] = stamp[ready] /\ pending # NoBuffer
    BY <1>1, <2>2, <2>3 DEF DTypeOK, SlotsAgree
  <2>8. /\ pending' # NoBuffer => shown' <= stamp'[pending']
        /\ ready' # NoBuffer => stamp'[pending'] <= stamp'[ready']
    BY <1>1, <2>1, <2>4, <2>7 DEF Stamps
  <2>9. /\ \A i \in DOMAIN queue' : shown' <= stamp'[queue'[i]]
        /\ \A i, j \in DOMAIN queue' : i < j => stamp'[queue'[i]] <= stamp'[queue'[j]]
    BY <1>1, <2>1, <2>4, <2>6 DEF Stamps
  <2> QED BY <2>1, <2>3, <2>5, <2>8, <2>9 DEF Stamps
<1>5. CASE (WaitIdle \/ Drain \/ CloseDrm) /\ DHandleEvent
  <2>1. /\ UNCHANGED <<stamp, shown, current, frame, queue, backend>>
        /\ pc' = pc \/ (pc' \in {"closing", "closed"} /\ pc = "closing")
    BY <1>5 DEF WaitIdle, Drain, CloseDrm, HandleEvent, DHandleEvent, Drm, app, main, dvars,
       xvars
  <2>2. Rendered' = Rendered /\ (Ended => Ended')
        /\ (pc' \in {"drain", "present"} <=> pc \in {"drain", "present"})
    BY <2>1 DEF Rendered, Ended
  <2>3. ready' = NoBuffer /\ pending' \in {ready, NoBuffer} /\ pending # NoBuffer
    BY <1>1, <1>5 DEF DHandleEvent, ChainFlip, NoChain, SlotsAgree
  <2>4. ~Ended /\ pending' # NoBuffer => shown <= stamp[pending']
    BY <1>1, <2>3 DEF Stamps, DTypeOK
  <2> QED BY <1>1, <2>1, <2>2, <2>3, <2>4 DEF Stamps
<1>6. CASE (WaitIdle \/ Drain \/ CloseDrm) /\ ~DHandleEvent
  <2>1. /\ UNCHANGED <<stamp, shown, current, frame>>
        /\ pc' = pc \/ (pc' \in {"closing", "closed"} /\ pc = "closing")
    BY <1>6 DEF WaitIdle, Drain, CloseDrm, app, main
  <2>2. pending' = pending /\ ready' \in {ready, NoBuffer} /\ queue' = queue
    BY <1>6 DEF WaitIdle, Drain, CloseDrm, HandleEvent, XHandleEvent, DropReady, RestoreCrtc,
       RemoveFbs, TakeFbs, HadNoTty, ReleaseGuard, ReleaseConsole, slots, kernel, dvars, xvars
  <2>3. Rendered' = Rendered /\ (Ended => Ended')
        /\ (pc' \in {"drain", "present"} <=> pc \in {"drain", "present"})
    BY <2>1 DEF Rendered, Ended
  <2> QED BY <1>1, <2>1, <2>2, <2>3 DEF Stamps
<1>7. CASE PresentDrm
  <2>1. /\ pc = "present" /\ ~Ended /\ frame' = frame + 1 /\ pc' = "poll"
        /\ UNCHANGED <<stamp, shown, queue>> /\ Drm
    BY <1>7 DEF PresentDrm, NextBuffer, Ended, xvars
  <2>2. Rendered = frame + 1 /\ Rendered' = frame + 1 /\ stamp[current] = frame + 1
    BY <1>1, <2>1 DEF Rendered, Stamps
  <2>3. \/ pending' = current /\ ready' = NoBuffer
        \/ ready' = current /\ pending' = pending
        \/ UNCHANGED <<pending, ready>>
    BY <1>1, <1>7 DEF PresentDrm, DPresent, SetMode, PageFlip, Park, SlotsAgree
  <2>4. shown <= frame + 1 /\ \A b \in Buffers : stamp[b] <= frame + 1
    BY <1>1, <2>1, <2>2 DEF Stamps
  <2>5. queue = <<>>
    BY <1>1, <2>1 DEF Stages, Unsent
  <2>6. /\ pending' # NoBuffer => shown <= stamp[pending']
        /\ ready' # NoBuffer => stamp[pending'] <= stamp[ready']
    <3>1. ready' = current /\ pending' = pending => pending \in Buffers
      BY <1>1, <1>7, BufferNumbers DEF PresentDrm, DPresent, SetMode, PageFlip, Park,
         SlotsAgree, DTypeOK
    <3> QED BY <1>1, <2>1, <2>2, <2>3, <2>4, <3>1 DEF Stamps
  <2> QED BY <1>1, <2>1, <2>2, <2>4, <2>5, <2>6 DEF Stamps
<1>8. CASE PresentXcb
  <2>1. /\ pc = "present" /\ pc' = "drain" /\ ~Ended /\ XPresent(current)
        /\ UNCHANGED <<stamp, shown, pending, ready, current, frame>>
    BY <1>8 DEF PresentXcb, Goto, Ended, main, dvars
  <2>2. stamp[current] = frame + 1 /\ Rendered = frame + 1 /\ Rendered' = frame + 1
    BY <1>1, <2>1 DEF Rendered, Stamps
  <2>3. shown <= frame + 1 /\ \A b \in Buffers : stamp[b] <= frame + 1
    BY <1>1, <2>1, <2>2 DEF Stamps
  <2>4. CASE broken
    <3>1. queue' = queue
      BY <2>1, <2>4 DEF XPresent
    <3> QED BY <1>1, <2>1, <2>2, <3>1 DEF Stamps
  <2>5. CASE ~broken
    <3>1. /\ DOMAIN queue' = 1..(Len(queue) + 1) /\ queue'[Len(queue) + 1] = current
          /\ \A k \in DOMAIN queue : queue'[k] = queue[k]
      BY <1>1, <2>1, <2>5, Sent
    <3>2. \A k \in DOMAIN queue' : k \in DOMAIN queue \/ k = Len(queue) + 1
      BY <1>2, <3>1
    <3>3. \A k \in DOMAIN queue' : shown <= stamp[queue'[k]]
      BY <1>1, <2>1, <2>2, <2>3, <3>1, <3>2 DEF Stamps
    <3>4. \A k, m \in DOMAIN queue' : k < m => stamp[queue'[k]] <= stamp[queue'[m]]
      <4> SUFFICES ASSUME NEW k \in DOMAIN queue', NEW m \in DOMAIN queue', k < m
                   PROVE  stamp[queue'[k]] <= stamp[queue'[m]]
        OBVIOUS
      <4>1. k \in DOMAIN queue
        BY <1>2, <3>1
      <4>2. CASE m \in DOMAIN queue
        BY <1>1, <2>1, <3>1, <4>1, <4>2 DEF Stamps
      <4>3. CASE m = Len(queue) + 1
        BY <1>2, <2>2, <2>3, <3>1, <4>1, <4>3
      <4> QED BY <3>2, <4>2, <4>3
    <3> QED BY <1>1, <2>1, <2>2, <2>3, <3>3, <3>4 DEF Stamps
  <2> QED BY <2>4, <2>5
<1>9. CASE DrainedLast
  <2>1. pc = "drain" /\ pc' = "poll" /\ frame' = frame + 1
        /\ UNCHANGED <<stamp, shown, pending, ready, queue>>
    BY <1>9 DEF DrainedLast, NextBuffer, dvars, xvars
  <2> QED BY <1>1, <2>1 DEF Stamps, Rendered, Ended
<1>10. CASE CardFlips
  <2>1. shown' = stamp[flip] /\ flip = pending /\ pending # NoBuffer /\ ~Ended
        /\ UNCHANGED <<pc, frame, current, stamp, pending, ready, queue>>
    BY <1>1, <1>10 DEF CardFlips, Vblank, SlotsAgree, slots, main, xvars
  <2>2. pending \in Buffers
    BY <1>1, <2>1 DEF DTypeOK
  <2>3. shown' <= Rendered' /\ Rendered' = Rendered /\ shown' = stamp[pending]
        /\ shown' \in Nat
    BY <1>1, <2>1, <2>2 DEF Stamps, Rendered
  <2>4. queue = <<>>
    <3>1. Drm
      BY <1>1, <2>1 DEF Stages, Untouched
    <3> QED BY <1>1, <3>1 DEF Stages, Unsent
  <2> QED BY <1>1, <2>1, <2>3, <2>4 DEF Stamps
<1>11. CASE ServerShows
  <2>1. PICK i \in DOMAIN queue : XShow(i) /\ shown' = stamp[queue[i]]
    BY <1>11 DEF ServerShows
  <2>2. ~Ended /\ UNCHANGED <<pc, frame, current, stamp, pending, ready>>
    BY <1>11 DEF ServerShows, main, dvars
  <2>3. \A k \in DOMAIN queue' :
          k + i \in DOMAIN queue /\ queue'[k] = queue[k + i] /\ i < k + i /\ k \in Nat
    <3>1. /\ Len(queue) \in Nat /\ i \in 1..Len(queue)
          /\ DOMAIN queue' = 1..(Len(queue) - i)
          /\ \A k \in DOMAIN queue' : k + i \in DOMAIN queue /\ queue'[k] = queue[k + i]
      BY <1>1, <2>1, Shown
    <3> QED BY <3>1
  <2>4. i \in Nat
    BY <1>2, <2>1
  <2>5. pending = NoBuffer /\ ready = NoBuffer
    BY <1>1, <2>1 DEF Stages, Untouched, Unsent
  <2>6. shown' <= Rendered'
    BY <1>1, <1>2, <2>1, <2>2 DEF Stamps, Rendered
  <2>7. \A k \in DOMAIN queue' : shown' <= stamp[queue'[k]]
    BY <1>1, <2>1, <2>2, <2>3 DEF Stamps
  <2>8. \A k, m \in DOMAIN queue' : k < m => stamp[queue'[k]] <= stamp[queue'[m]]
    <3> SUFFICES ASSUME NEW k \in DOMAIN queue', NEW m \in DOMAIN queue', k < m
                 PROVE  stamp[queue'[k]] <= stamp[queue'[m]]
      OBVIOUS
    <3>1. k + i < m + i
      BY <2>3, <2>4
    <3> QED BY <1>1, <2>2, <2>3, <3>1 DEF Stamps
  <2> QED BY <1>1, <2>2, <2>5, <2>6, <2>7, <2>8 DEF Stamps, Rendered
<1>12. CASE CreateXcb \/ FallBack \/ CreateDrm \/ ImportBuffer
  <2>1. UNCHANGED <<pc, frame, stamp, shown, current>>
    BY <1>12 DEF CreateXcb, FallBack, CreateDrm, ImportBuffer, app, main
  <2>2. UNCHANGED <<pending, ready, queue>>
    BY <1>12 DEF CreateXcb, FallBack, CreateDrm, ImportBuffer, XConnect, XHasDri3,
       XHasPresent, XCreateFails, OpenCard, ChooseOutput, LookupProps, CreateBlob,
       DCreateFails, HasNoTty, TakeConsole, InstallTtyGuard, DImport, XImport, dvars, xvars,
       slots, server
  <2> QED BY <1>1, <2>1, <2>2, OrderKept DEF Order, Rendered, Ended
<1>13. CASE ServerBreaks
  <2>1. queue' = <<>> /\ UNCHANGED <<pc, frame, stamp, shown, current, pending, ready>>
    BY <1>13 DEF ServerBreaks, XBreak, app, main, dvars
  <2> QED BY <1>1, <2>1 DEF Stamps, Rendered, Ended
<1>14. CASE CloseXcb \/ Dies \/ Killed
  BY <1>14 DEF CloseXcb, Dies, Killed, Goto, Stamps, Ended
<1> QED BY <1>3, <1>4, <1>5, <1>6, <1>7, <1>8, <1>9, <1>10, <1>11, <1>12, <1>13, <1>14,
        Steps DEF QuietSteps

LEMMA InitToyInv == ASSUME Init PROVE ToyInv
<1> USE DEF Init, DInit, XInit
<1>1. TypeOK
  <2>1. {guarded, modeSet, flipEvent, broken, missed} \subseteq BOOLEAN
    OBVIOUS
  <2>2. 0 \in 0..MaxFrames /\ 0 \in 0..MaxEdits /\ 0 \in 0..MaxRefused
    BY Bounds
  <2>3. DTypeOK
    BY <2>1, <2>2 DEF DTypeOK
  <2>4. <<>> \in Seq(Buffers)
    OBVIOUS
  <2>5. XTypeOK
    BY <2>1, <2>4 DEF XTypeOK
  <2>6. stamp \in [Buffers -> 0..MaxFrames]
    BY <2>2
  <2> QED BY <2>1, <2>2, <2>3, <2>5, <2>6, BufferNumbers DEF TypeOK
<1>2. Chosen /\ Guarded
  BY DEF Chosen, Guarded, Early
<1>3. Stages
  BY DEF Stages, Untouched, Unsent, Setup, Early, Late, Loop, Drm
<1>4. SlotsAgree /\ GivenBack
  BY BufferNumbers DEF SlotsAgree, GivenBack, ScreenGivenBack
<1>5. SentBusy
  BY DEF SentBusy
<1>6. Free /\ InTurn
  BY DEF Free, InTurn, Loop
<1>7. Stamps
  <2>1. \A b \in Buffers : stamp[b] = 0
    OBVIOUS
  <2> QED BY <2>1, Bounds DEF Stamps, Rendered
<1>8. Times
  BY DEF Times, EditsNoticed, Loop
<1> QED BY <1>1, <1>2, <1>3, <1>4, <1>5, <1>6, <1>7, <1>8 DEF ToyInv

LEMMA ToyInvNext == ASSUME ToyInv, [Next]_vars PROVE ToyInv'
  BY TypesNext, ChosenNext, StagesNext, SlotsAgreeNext, GivenBackNext, SentBusyNext, FreeNext,
     InTurnNext, StampsNext, GuardedNext, TimesNext DEF ToyInv

(* What the program believes of the display agrees with the display in     *)
(* every state: the invariant the other theorems follow from               *)
(* (main.cpp:119-207 with the two window backends).                        *)
THEOREM ToyInvariant == Spec => []ToyInv
<1>1. Init => ToyInv
  BY InitToyInv
<1>2. ToyInv /\ [Next]_vars => ToyInv'
  BY ToyInvNext
<1> QED BY <1>1, <1>2, PTL DEF Spec

-----------------------------------------------------------------------------
(* The choice of an output.                                                *)
Modes == [size : Nat, preferred : BOOLEAN, interlaced : BOOLEAN]

(* pick_mode() takes a mode of the list, an interlaced one only if all are *)
(* (drm_window.cpp:110).                                                   *)
LEMMA PickedMode ==
  ASSUME NEW modes \in Seq(Modes), modes # <<>>, NEW want
  PROVE  \E i \in DOMAIN modes :
           /\ PickMode(modes, want) = modes[i]
           /\ modes[i].interlaced => \A j \in DOMAIN modes : modes[j].interlaced
<1> DEFINE P == {i \in 1..Len(modes) : ~modes[i].interlaced /\ modes[i].preferred}
           E == {i \in 1..Len(modes) : ~modes[i].interlaced /\ modes[i].size = want}
           F == {i \in 1..Len(modes) : ~modes[i].interlaced}
           first(S) == IF S # {} THEN Min(S) ELSE 0
<1>1. PickMode(modes, want) =
        modes[IF first(P) # 0 THEN first(P)
              ELSE IF first(E) # 0 THEN first(E) ELSE IF first(F) # 0 THEN first(F) ELSE 1]
  BY DEF PickMode, SelectInSeq
<1>2. Len(modes) \in Nat \ {0} /\ DOMAIN modes = 1..Len(modes)
  OBVIOUS
<1>3. P \subseteq F /\ E \subseteq F /\ F \subseteq 1..Len(modes) /\ 1..Len(modes) \subseteq Nat
  BY <1>2
<1> HIDE DEF P, E
<1>4. \A S : S \subseteq F /\ first(S) # 0 => first(S) \in F
  BY <1>3, MinIn
<1>5. first(P) # 0 \/ first(E) # 0 \/ first(F) # 0 =>
        \E i \in F : PickMode(modes, want) = modes[i]
  BY <1>1, <1>3, <1>4
<1>6. F # {} => first(F) # 0
  <2>1. F # {} => Min(F) \in F
    BY <1>3, MinIn
  <2> QED BY <2>1, <1>2
<1>7. CASE F # {}
  <2>1. PICK i \in F : PickMode(modes, want) = modes[i]
    BY <1>5, <1>6, <1>7
  <2> QED BY <1>2, <2>1
<1>8. CASE F = {} /\ first(P) = 0 /\ first(E) = 0
  <2>1. PickMode(modes, want) = modes[1]
    BY <1>1, <1>8
  <2>2. \A j \in DOMAIN modes : modes[j].interlaced
    BY <1>2, <1>8
  <2> QED BY <1>2, <2>1, <2>2
<1>9. F = {} => first(P) = 0 /\ first(E) = 0
  BY <1>3
<1> QED BY <1>7, <1>8, <1>9

(* The CRTC is the one in use, or one that an encoder allows               *)
(* (drm_window.cpp:153).                                                   *)
LEMMA PickedCrtc ==
  ASSUME NEW c, c.encoders \in Seq(SUBSET Crtcs), PickCrtc(c) # NoCrtc
  PROVE  /\ c.active # NoCrtc => PickCrtc(c) = c.active
         /\ c.active = NoCrtc => \E i \in DOMAIN c.encoders : PickCrtc(c) \in c.encoders[i]
<1> DEFINE es == c.encoders
           S == {i \in 1..Len(es) : es[i] # {}}
           e == IF S # {} THEN Min(S) ELSE 0
<1>1. CASE c.active # NoCrtc
  BY <1>1 DEF PickCrtc
<1>2. CASE c.active = NoCrtc
  <2>1. PickCrtc(c) = IF e = 0 THEN NoCrtc ELSE Min(es[e])
    BY <1>2 DEF PickCrtc, SelectInSeq
  <2>2. Len(es) \in Nat /\ DOMAIN es = 1..Len(es) /\ S \subseteq Nat
    OBVIOUS
  <2>3. e # 0
    BY <2>1
  <2>4. e \in S
    BY <2>2, <2>3, MinIn
  <2> HIDE DEF e
  <2>5. es[e] \in SUBSET Crtcs /\ es[e] # {} /\ e \in DOMAIN es
    BY <2>2, <2>4
  <2>6. Min(es[e]) \in es[e]
    BY <2>5, MinIn DEF Crtcs
  <2> QED BY <1>2, <2>1, <2>3, <2>5, <2>6
<1> QED BY <1>1, <1>2

LEMMA PickedPlane ==
  ASSUME NEW k, k.planes \in Seq([crtcs : SUBSET Crtcs, primary : BOOLEAN]), NEW crtc,
         FindPrimaryPlane(k, crtc) # 0
  PROVE  /\ k.planes[FindPrimaryPlane(k, crtc)].primary
         /\ crtc \in k.planes[FindPrimaryPlane(k, crtc)].crtcs
<1> DEFINE S == {i \in 1..Len(k.planes) : k.planes[i].primary /\ crtc \in k.planes[i].crtcs}
<1>1. FindPrimaryPlane(k, crtc) = IF S # {} THEN Min(S) ELSE 0
  BY DEF FindPrimaryPlane, SelectInSeq
<1>2. S \subseteq Nat
  OBVIOUS
<1>3. FindPrimaryPlane(k, crtc) \in S
  BY <1>1, <1>2, MinIn
<1> QED BY <1>3

LEMMA OutputIsUsable == ASSUME CardsAssumption, TypeOK, Chosen PROVE OutputUsable
<1> DEFINE fits(c) == /\ c.connected /\ c.modes # <<>>
                      /\ PickCrtc(c) # NoCrtc
                      /\ FindPrimaryPlane(card, PickCrtc(c)) # 0
           S == {i \in 1..Len(card.connectors) : fits(card.connectors[i])}
           i == IF S # {} THEN Min(S) ELSE 0
           c == card.connectors[i]
<1> SUFFICES ASSUME dstage \in {"found", "props", "blob", "graphics", "live"}
             PROVE  /\ c.connected
                    /\ c.active # NoCrtc => output.crtc = c.active
                    /\ c.active = NoCrtc =>
                         \E k \in DOMAIN c.encoders : output.crtc \in c.encoders[k]
                    /\ card.planes[output.plane].primary
                    /\ output.crtc \in card.planes[output.plane].crtcs
                    /\ \E k \in DOMAIN c.modes : c.modes[k] = output.mode
                    /\ output.mode.interlaced => \A k \in DOMAIN c.modes : c.modes[k].interlaced
                    /\ output.connector = i
  BY DEF OutputUsable
<1>1. output = FindOutput(card, Want) /\ output # NoOutput
  BY DEF Chosen
<1>2. FindOutput(card, Want) =
        IF i = 0 THEN NoOutput
        ELSE [connector |-> i, crtc |-> PickCrtc(c),
              plane |-> FindPrimaryPlane(card, PickCrtc(c)),
              mode |-> PickMode(c.modes, Want)]
  BY DEF FindOutput, SelectInSeq
<1>3. card \in Card
  BY DEF TypeOK, DTypeOK, CardsAssumption
<1>4. card.connectors \in Seq([connected : BOOLEAN, active : Crtcs \cup {NoCrtc},
                              modes : Seq(Modes), encoders : Seq(SUBSET Crtcs)])
      /\ card.planes \in Seq([crtcs : SUBSET Crtcs, primary : BOOLEAN])
  BY <1>3 DEF Card, Modes
<1> HIDE DEF fits
<1>5. S \subseteq DOMAIN card.connectors /\ S \subseteq Nat
  BY <1>4
<1>6. i # 0
  <2> HIDE DEF S
  <2> QED BY <1>1, <1>2
<1>7. i \in S
  <2> HIDE DEF S
  <2> QED BY <1>5, <1>6, MinIn
<1>8. i \in DOMAIN card.connectors /\ fits(c)
  BY <1>5, <1>7
<1>9. output.connector = i /\ output.crtc = PickCrtc(c)
      /\ output.plane = FindPrimaryPlane(card, PickCrtc(c))
      /\ output.mode = PickMode(c.modes, Want)
  <2> HIDE DEF i, S
  <2> QED BY <1>1, <1>2, <1>6
<1> HIDE DEF i
<1>10. c.modes \in Seq(Modes) /\ c.encoders \in Seq(SUBSET Crtcs)
  <2>1. c \in [connected : BOOLEAN, active : Crtcs \cup {NoCrtc},
               modes : Seq(Modes), encoders : Seq(SUBSET Crtcs)]
    <3>1. \A T, list : list \in Seq(T) => \A m \in DOMAIN list : list[m] \in T
      OBVIOUS
    <3> QED BY <1>4, <1>8, <3>1
  <2> HIDE DEF c
  <2> QED BY <2>1
<1> HIDE DEF c
<1> USE DEF fits
<1>11. PICK k \in DOMAIN c.modes :
         /\ output.mode = c.modes[k]
         /\ c.modes[k].interlaced => \A j \in DOMAIN c.modes : c.modes[j].interlaced
  BY <1>8, <1>9, <1>10, PickedMode
<1>12. /\ c.active # NoCrtc => output.crtc = c.active
       /\ c.active = NoCrtc => \E m \in DOMAIN c.encoders : output.crtc \in c.encoders[m]
  BY <1>8, <1>9, <1>10, PickedCrtc
<1>13. card.planes[output.plane].primary /\ output.crtc \in card.planes[output.plane].crtcs
  BY <1>4, <1>8, <1>9, PickedPlane
<1> QED BY <1>8, <1>9, <1>11, <1>12, <1>13

-----------------------------------------------------------------------------
LEMMA SlotsKnowTheCard == ASSUME SlotsAgree PROVE \A b \in DHeld : Locked(b)
  BY BufferNumbers DEF SlotsAgree, DHeld, Locked

LEMMA BusyKnowsTheServer == ASSUME SentBusy PROVE XHeld \subseteq busy
  BY BufferNumbers DEF SentBusy, XHeld, ToSet

LEMMA StarvedAfterRefusal == ASSUME ToyInv PROVE StarvedOnlyByRefusals
<1> SUFFICES ASSUME Starved, refused = 0 PROVE FALSE
  BY Bounds DEF StarvedOnlyByRefusals, ToyInv, TypeOK, DTypeOK
<1>1. /\ InTurn /\ SlotsAgree /\ frame \in Nat /\ displaying = current /\ current \in Buffers
      /\ current # NoBuffer
  BY BufferNumbers, Bounds DEF ToyInv, TypeOK, Starved
<1>2. frame # 0
  BY <1>1 DEF SlotsAgree
<1>3. Newest = displaying
  BY DEF Newest, Starved
<1>4. current = (displaying + 1) % NumBuffers
  BY <1>1, <1>2, <1>3 DEF InTurn, Starved, Loop
<1> QED BY <1>1, <1>4, BufferNumbers

(* In every state of the program the output chosen has a monitor and is    *)
(* driven by a CRTC and a plane that can drive it, the screen goes dark    *)
(* only when the card refused to show what it showed before or that could  *)
(* not be read, the wait for a buffer hangs only when the card has refused *)
(* a commit, and no edit of the kernel's file is missed for good           *)
(* (main.cpp:119-207, drm_window.cpp:153-227, 330-372, 441-469).           *)
THEOREM ToyCorrect == Spec => []Inv
<1>1. ToyInv => Inv
  BY OutputIsUsable, StarvedAfterRefusal, CardsAssumption DEF ToyInv, GivenBack, Times, Inv
<1> QED BY <1>1, ToyInvariant, PTL

(* When the program ends by return, by exit() or by one of the five        *)
(* signals with a handler, the console is back in text mode, unless it     *)
(* dies at one of the two moments when the console is in graphics mode and *)
(* the guard is not there (drm_window.cpp:259-295, 363-368).               *)
THEOREM ConsoleComesBack == Spec => []ConsoleRestored
<1>1. ToyInv => ConsoleRestored
  <2> SUFFICES ASSUME ToyInv, Ended, console = "graphics", pc # "killed"
               PROVE  dstage \in {"graphics", "unguarded"}
    BY DEF ConsoleRestored
  <2>1. Stages /\ Guarded /\ DTypeOK
    BY DEF ToyInv, TypeOK
  <2>2. Drm
    BY <2>1 DEF Stages
  <2>3. pc = "dead" \/ dstage = "closed"
    BY <2>1, <2>2 DEF Stages, Ended
  <2>4. dstage \notin Early \cup {"closed"}
    BY <2>1 DEF Guarded
  <2>5. dstage \notin {"live", "settled", "restored", "removed"}
    BY <2>1, <2>3 DEF Guarded
  <2> QED BY <2>1, <2>4, <2>5 DEF DTypeOK, Early
<1> QED BY <1>1, ToyInvariant, PTL

-----------------------------------------------------------------------------
(* The display of DisplaySpec: what the GPU writes, what the display reads.*)
Writing == IF pc = "gpu" THEN current ELSE NoBuffer
Reading == IF Drm THEN DHeld ELSE XHeld

LEMMA InitShowsNothing == ASSUME Init PROVE Display0!Init
<1>1. XHeld = {}
  BY BufferNumbers DEF Init, XInit, XHeld, ToSet
<1> QED BY <1>1 DEF Init, Display0!Init, Drm

(* The steps of DisplaySpec, in the terms of the two backends.             *)
LEMMA Stutters ==
  ASSUME Writing' = Writing, Reading' = Reading, shown' = shown
  PROVE  [Display0!Next]_(Display0!vars)
  BY DEF Writing, Reading, Display0!vars

LEMMA Ends ==
  ASSUME Writing' = NoBuffer, Reading' = Reading, shown' = shown
  PROVE  [Display0!Next]_(Display0!vars)
  BY DEF Writing, Reading, Display0!Next, Display0!EndFrame

LEMMA Begins ==
  ASSUME NEW b \in Buffers, Writing = NoBuffer, b \notin Reading, Writing' = b,
         Reading' = Reading, shown' = shown
  PROVE  [Display0!Next]_(Display0!vars)
<1>1. Display0!BeginFrame(b)
  BY DEF Writing, Reading, Display0!BeginFrame
<1>2. Display0!Next
  BY <1>1 DEF Display0!Next, Buffers
<1> QED BY <1>2

LEMMA Presents ==
  ASSUME NEW b \in Buffers, Writing = NoBuffer, Writing' = NoBuffer,
         Reading' = Reading \cup {b}, shown' = shown
  PROVE  [Display0!Next]_(Display0!vars)
<1>1. Display0!Present(b)
  BY BufferNumbers DEF Writing, Reading, Display0!Present
<1>2. Display0!Next
  BY <1>1 DEF Display0!Next, Buffers
<1> QED BY <1>2

LEMMA Refreshes ==
  ASSUME Writing' = Writing, Reading' \subseteq Reading, shown' >= shown
  PROVE  [Display0!Next]_(Display0!vars)
  BY DEF Writing, Reading, Display0!Next, Display0!Refresh

(* Events hand the card at most the parked frame.                          *)
LEMMA EventsHeld ==
  ASSUME SlotsAgree, DTypeOK, DHandleEvent
  PROVE  DHeld' = DHeld \/ (ready \in Buffers /\ DHeld' = DHeld \cup {ready})
<1>1. scanout' = scanout /\ flip = NoBuffer
  BY DEF DHandleEvent, SlotsAgree
<1>2. flip' = flip \/ (ready \in Buffers /\ flip' = ready)
  BY DEF DHandleEvent, ChainFlip, NoChain, Accepts, Refuses, DTypeOK
<1> QED BY <1>1, <1>2, BufferNumbers DEF DHeld

LEMMA PresentHeld ==
  ASSUME NEW b \in Buffers, DPresent(b)
  PROVE  DHeld' = DHeld \/ DHeld' = DHeld \cup {b}
<1>1. scanout' = scanout /\ (flip' = flip \/ (flip = NoBuffer /\ flip' = b))
  BY DEF DPresent, SetMode, PageFlip, Park, Accepts, Refuses
<1> QED BY <1>1, BufferNumbers DEF DHeld

LEMMA SentHeld ==
  ASSUME XTypeOK, NEW b \in Buffers, XPresent(b)
  PROVE  XHeld' = XHeld \/ XHeld' = XHeld \cup {b}
<1>1. front' = front
  BY DEF XPresent
<1>2. CASE broken
  BY <1>1, <1>2 DEF XPresent, XHeld
<1>3. CASE ~broken
  <2>1. /\ Len(queue) \in Nat /\ DOMAIN queue = 1..Len(queue)
        /\ DOMAIN queue' = 1..(Len(queue) + 1) /\ queue'[Len(queue) + 1] = b
        /\ \A k \in DOMAIN queue : queue'[k] = queue[k]
    BY <1>3, Sent
  <2>2. /\ \A k \in DOMAIN queue' : k \in DOMAIN queue \/ k = Len(queue) + 1
        /\ \A k \in DOMAIN queue : k \in DOMAIN queue'
        /\ Len(queue) + 1 \in DOMAIN queue'
    BY <2>1
  <2>3. ToSet(queue)' = ToSet(queue) \cup {b}
    BY <2>1, <2>2 DEF ToSet
  <2> QED BY <1>1, <2>3 DEF XHeld
<1> QED BY <1>2, <1>3

LEMMA ShownHeld ==
  ASSUME XTypeOK, NEW i \in DOMAIN queue, XShow(i)
  PROVE  XHeld' \subseteq XHeld
<1>1. \A k \in DOMAIN queue' : k + i \in DOMAIN queue /\ queue'[k] = queue[k + i]
  BY Shown
<1>2. front' = queue[i] \/ front' = NoBuffer
  BY Shown
<1>3. ToSet(queue)' \subseteq ToSet(queue)
  BY <1>1 DEF ToSet
<1>4. queue[i] \in ToSet(queue)
  BY DEF ToSet
<1> QED BY <1>2, <1>3, <1>4, BufferNumbers DEF XHeld

LEMMA FramesGoOn ==
  ASSUME ToyInv, NEW b \in DHeld \cup XHeld, ~Ended,
         (Drm /\ b = flip) \/ (~Drm /\ \E i \in DOMAIN queue : b = queue[i])
  PROVE  stamp[b] >= shown
<1>1. Stamps /\ SlotsAgree /\ TypeOK
  BY DEF ToyInv
<1>2. b \in Buffers /\ stamp[b] \in Nat /\ shown \in Nat
  BY <1>1, Bounds DEF DHeld, XHeld, ToSet, TypeOK, XTypeOK
<1>3. shown <= stamp[b]
  BY <1>1, <1>2, BufferNumbers DEF Stamps, SlotsAgree
<1> QED BY <1>2, <1>3

LEMMA StepDisplays ==
  ASSUME ToyInv, [Next]_vars
  PROVE  [Display0!Next]_(Display0!vars)
<1>1. /\ TypeOK /\ DTypeOK /\ XTypeOK /\ Stages /\ SlotsAgree /\ SentBusy /\ Free
      /\ current \in Buffers /\ shown >= shown
  BY Bounds DEF ToyInv, TypeOK
<1>2. CASE QuietSteps
  <2>1. Reading' = Reading /\ shown' = shown
    BY <1>2, QuietKeepsWindows DEF Reading, Drm, DHeld, XHeld, dvars, xvars
  <2>2. CASE Dispatch
    <3>1. Writing = NoBuffer /\ Writing' = current
      BY <2>2 DEF Dispatch, Goto, main, Writing
    <3>2. current \notin Reading
      BY <1>1, <2>2, SlotsKnowTheCard, BusyKnowsTheServer DEF Dispatch, Goto, Free, InUse,
         Reading
    <3> QED BY <1>1, <2>1, <3>1, <3>2, Begins
  <2>3. CASE GpuDone
    <3>1. Writing' = NoBuffer
      BY <2>3 DEF GpuDone, Goto, Writing
    <3> QED BY <2>1, <3>1, Ends
  <2>4. CASE ~Dispatch /\ ~GpuDone
    <3>1. Writing' = Writing
      BY <1>2, <2>4 DEF QuietSteps, ReadFile, LookAtMtime, Poll, Quit, WaitedIdle, NoticeEdit,
         Reload, KeepKernel, DrainedFirst, Edit, Goto, vars, app, main, Writing
    <3> QED BY <2>1, <3>1, Stutters
  <2> QED BY <2>2, <2>3, <2>4
<1>3. CASE CreateXcb \/ CreateDrm \/ ImportBuffer
  <2>1. UNCHANGED <<pc, current, shown, backend, scanout, flip, queue, front>>
    BY <1>3 DEF CreateXcb, CreateDrm, ImportBuffer, XConnect, XHasDri3, XHasPresent, OpenCard,
       ChooseOutput, LookupProps, CreateBlob, DCreateFails, HasNoTty, TakeConsole,
       InstallTtyGuard, DImport, XImport, app, main, dvars, xvars, slots, kernel, server
  <2> QED BY <2>1, Stutters DEF Writing, Reading, Drm, DHeld, XHeld
<1>4. CASE FallBack
  <2>1. UNCHANGED <<pc, current, shown, scanout, flip, queue, front>> /\ pc = "window"
    BY <1>4 DEF FallBack, XCreateFails, main, dvars, server
  <2>2. scanout = Saved /\ flip = NoBuffer /\ queue = <<>> /\ front = NoBuffer
    BY <1>1, <2>1 DEF Stages, Setup, Untouched, Unsent
  <2>3. DHeld = {} /\ XHeld = {} /\ DHeld' = {} /\ XHeld' = {}
    BY <2>1, <2>2, BufferNumbers DEF DHeld, XHeld, ToSet
  <2> QED BY <2>1, <2>3, Stutters DEF Writing, Reading
<1>5. CASE WaitIdle \/ Drain \/ CloseDrm
  <2>1. Writing = NoBuffer /\ Writing' = NoBuffer /\ shown' = shown /\ backend' = backend
    BY <1>5 DEF WaitIdle, Drain, CloseDrm, app, main, Writing
  <2>2. CASE Drm /\ DHandleEvent
    <3>1. Reading' = Reading \/ (ready \in Buffers /\ Reading' = Reading \cup {ready})
      BY <1>1, <2>1, <2>2, EventsHeld DEF Reading, Drm
    <3> QED BY <2>1, <3>1, Stutters, Presents
  <2>3. CASE Drm /\ ~DHandleEvent
    <3>1. DHeld' \subseteq DHeld
      BY <1>5, <2>3, BufferNumbers DEF WaitIdle, Drain, CloseDrm, HandleEvent, DropReady,
         RestoreCrtc, RemoveFbs, TakeFbs, HadNoTty, ReleaseGuard, ReleaseConsole, kernel,
         DHeld, Saved
    <3> QED BY <1>1, <2>1, <2>3, <3>1, Refreshes DEF Reading, Drm
  <2>4. CASE ~Drm
    <3>1. XHeld' = XHeld
      BY <1>5, <2>4 DEF WaitIdle, Drain, CloseDrm, HandleEvent, XHandleEvent, XHeld
    <3> QED BY <2>1, <2>4, <3>1, Stutters DEF Reading, Drm
  <2> QED BY <2>2, <2>3, <2>4
<1>6. CASE PresentDrm
  <2>1. Writing = NoBuffer /\ Writing' = NoBuffer /\ shown' = shown /\ Drm /\ Drm'
    BY <1>6 DEF PresentDrm, NextBuffer, Writing, Drm
  <2>2. DHeld' = DHeld \/ DHeld' = DHeld \cup {current}
    BY <1>1, <1>6, PresentHeld DEF PresentDrm
  <2> QED BY <1>1, <2>1, <2>2, Stutters, Presents DEF Reading
<1>7. CASE PresentXcb
  <2>1. Writing = NoBuffer /\ Writing' = NoBuffer /\ shown' = shown /\ ~Drm /\ ~Drm'
    BY <1>7 DEF PresentXcb, Goto, Writing, Drm
  <2>2. XHeld' = XHeld \/ XHeld' = XHeld \cup {current}
    BY <1>1, <1>7, SentHeld DEF PresentXcb
  <2> QED BY <1>1, <2>1, <2>2, Stutters, Presents DEF Reading
<1>8. CASE DrainedLast
  <2>1. Writing = NoBuffer /\ Writing' = NoBuffer /\ shown' = shown /\ Reading' = Reading
    BY <1>8 DEF DrainedLast, NextBuffer, Writing, Reading, Drm, DHeld, XHeld, dvars, xvars
  <2> QED BY <2>1, Stutters
<1>9. CASE CloseXcb
  <2>1. Writing = NoBuffer /\ Writing' = NoBuffer /\ shown' = shown /\ ~Drm'
    BY <1>9 DEF CloseXcb, Goto, Writing, Drm
  <2>2. XHeld' = {}
    BY <1>9, BufferNumbers DEF CloseXcb, XDestroy, XHeld, ToSet
  <2> QED BY <1>1, <2>1, <2>2, Refreshes DEF Reading
<1>10. CASE Dies \/ Killed
  <2>1. Writing' = NoBuffer /\ shown' = shown /\ Reading' = Reading
    BY <1>10 DEF Dies, Killed, Writing, Reading, Drm, DHeld, XHeld, kernel, dvars, xvars
  <2> QED BY <2>1, Ends
<1>11. CASE CardFlips
  <2>1. /\ UNCHANGED <<pc, current, backend>> /\ flip # NoBuffer /\ ~Ended
        /\ scanout' = flip /\ flip' = NoBuffer /\ shown' = stamp[flip]
    BY <1>11 DEF CardFlips, Vblank, main
  <2>2. Drm /\ flip \in Buffers
    BY <1>1, <2>1 DEF Stages, Untouched, DTypeOK
  <2>3. flip \in DHeld
    BY <2>2 DEF DHeld
  <2>4. DHeld' \subseteq DHeld
    BY <2>1, <2>2, BufferNumbers DEF DHeld
  <2>5. shown' >= shown
    BY <2>1, <2>2, <2>3, FramesGoOn
  <2> QED BY <2>1, <2>2, <2>4, <2>5, Refreshes DEF Writing, Reading, Drm
<1>12. CASE ServerShows
  <2>1. PICK i \in DOMAIN queue : XShow(i) /\ shown' = stamp[queue[i]]
    BY <1>12 DEF ServerShows
  <2>2. UNCHANGED <<pc, current, backend>> /\ ~Ended
    BY <1>12 DEF ServerShows, main
  <2>3. ~Drm
    BY <1>1, <2>1 DEF Stages, Unsent
  <2>4. XHeld' \subseteq XHeld
    BY <1>1, <2>1, ShownHeld
  <2>5. queue[i] \in XHeld
    BY <2>1 DEF XHeld, ToSet
  <2>6. shown' >= shown
    BY <2>1, <2>2, <2>3, <2>5, FramesGoOn
  <2> QED BY <2>2, <2>3, <2>4, <2>6, Refreshes DEF Writing, Reading, Drm
<1>13. CASE ServerBreaks
  <2>1. UNCHANGED <<pc, current, backend, shown, dvars>> /\ queue' = <<>> /\ front' = NoBuffer
    BY <1>13 DEF ServerBreaks, XBreak, app, main
  <2>2. XHeld' = {} /\ DHeld' = DHeld
    BY <2>1, BufferNumbers DEF XHeld, DHeld, ToSet, dvars
  <2> QED BY <1>1, <2>1, <2>2, Refreshes DEF Writing, Reading, Drm
<1> QED BY <1>2, <1>3, <1>4, <1>5, <1>6, <1>7, <1>8, <1>9, <1>10, <1>11, <1>12, <1>13, Steps

(* Either window keeps what a window promises: the GPU never writes a      *)
(* buffer the display may read, and the screen never goes back to an       *)
(* earlier frame (window.h:20-36, drm_window.cpp:441-469,                  *)
(* xcb_window.cpp:189-236).                                                *)
THEOREM ToyDisplays == Spec => ImplementsDisplay
<1>1. Init => Display0!Init
  BY InitShowsNothing
<1>2. ToyInv /\ [Next]_vars => [Display0!Next]_(Display0!vars)
  BY StepDisplays
<1> QED BY <1>1, <1>2, ToyInvariant, PTL DEF Spec, ImplementsDisplay, Display0!Spec
=============================================================================
