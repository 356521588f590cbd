----------------------------- MODULE DrmWindow -------------------------------
(***************************************************************************)
(* The DRM/KMS backend of computetoy (tools/computetoy/drm_window.cpp):    *)
(* its creation and destruction, the console it takes over, and the three  *)
(* slots displaying, pending and ready that say which buffers are in use.  *)
(*                                                                         *)
(* External: the card accepts one commit at a time, turns to it at the     *)
(* next vblank and then reports the flip; a commit may also be refused,    *)
(* and so may the request to have the former framebuffer back.  When one   *)
(* that it shows is removed, the screen goes dark.  A console left in      *)
(* graphics mode stays so after the process has died.                      *)
(***************************************************************************)
EXTENDS Window, DrmOutput

CONSTANTS Cards,       \* the cards the program may find
          Want,        \* the size of the window it asks for
          MaxRefused   \* bound: commits the card refuses

ASSUME CardsAssumption == Cards \subseteq Card

Saved == NumBuffers  \* what the screen showed before, be it nothing

VARIABLES
  dstage,      \* where create() or the destructor is
  card,        \* the card found
  output,      \* the output chosen
  saved,       \* saved_crtc: its CRTC was "on" or "off", or could not be read
  console,     \* the mode of the console
  guarded,     \* g_tty_fd >= 0: a dying process restores the console
  fbs,         \* the buffers imported as framebuffers
  displaying, pending, ready,  \* the slots
  modeSet,
  scanout,     \* card: the framebuffer on the screen
  flip,        \* card: the one it turns to at the next vblank
  flipEvent,   \* card: a flip is done and its event not read
  refused,     \* commits refused, against the bound
  kept         \* history: the card refused to have its CRTC restored

choice == <<card, output, saved>>
console_state == <<console, guarded>>
slots == <<displaying, pending, ready, modeSet>>
kernel == <<scanout, flip, flipEvent, refused, kept>>
dvars == <<dstage, card, output, saved, console, guarded, fbs, displaying, pending,
           ready, modeSet, scanout, flip, flipEvent, refused, kept>>

DTypeOK ==
  /\ dstage \in {"none", "opened", "found", "props", "blob", "graphics", "live",
                 "settled", "restored", "removed", "unguarded", "closed"}
  /\ card \in Cards /\ saved \in {"none", "off", "on"}
  /\ console \in {"text", "graphics"} /\ guarded \in BOOLEAN
  /\ fbs \subseteq Buffers
  /\ {displaying, pending, ready, flip} \subseteq Buffers \cup {NoBuffer}
  /\ scanout \in Buffers \cup {Saved, NoBuffer}
  /\ modeSet \in BOOLEAN /\ flipEvent \in BOOLEAN
  /\ refused \in 0..MaxRefused /\ kept \in BOOLEAN

DInit ==
  /\ dstage = "none" /\ card \in Cards /\ output = NoOutput /\ saved = "none"
  /\ console = "text" /\ guarded = FALSE
  /\ fbs = {}
  /\ displaying = NoBuffer /\ pending = NoBuffer /\ ready = NoBuffer
  /\ modeSet = FALSE
  /\ scanout = Saved /\ flip = NoBuffer /\ flipEvent = FALSE
  /\ refused = 0 /\ kept = FALSE

DHeld == {scanout, flip} \cap Buffers
Locked(b) == b \in {displaying, pending, ready}

-----------------------------------------------------------------------------
(* create(): open the card, choose an output, look up its properties, make *)
(* the mode's blob, and turn the console to graphics mode before the guard *)
(* is installed that turns it back.  Each failure closes what is open.     *)
DStep(from, to) == dstage = from /\ dstage' = to

OpenCard ==
  /\ DStep("none", "opened")
  /\ UNCHANGED <<choice, console_state, fbs, slots, kernel>>

ChooseOutput ==
  /\ output' = FindOutput(card, Want)
  /\ DStep("opened", IF output' = NoOutput THEN "closed" ELSE "found")
  /\ UNCHANGED <<card, saved, console_state, fbs, slots, kernel>>

LookupProps ==
  /\ DStep("found", "props")
  /\ UNCHANGED <<choice, console_state, fbs, slots, kernel>>

(* The state of the CRTC is read, or is not; then the blob is made.        *)
CrtcState ==
  IF \E i \in DOMAIN card.connectors : card.connectors[i].active = output.crtc
  THEN "on" ELSE "off"

CreateBlob ==
  /\ DStep("props", "blob")
  /\ saved' \in {"none", CrtcState}
  /\ UNCHANGED <<card, output, console_state, fbs, slots, kernel>>

DCreateFails ==
  /\ dstage \in {"none", "found", "props"} /\ dstage' = "closed"
  /\ UNCHANGED <<choice, console_state, fbs, slots, kernel>>

(* Without /dev/tty there is no console to take; KDSETMODE may fail.       *)
HasNoTty ==
  /\ DStep("blob", "live")
  /\ UNCHANGED <<choice, console_state, fbs, slots, kernel>>

TakeConsole ==
  /\ DStep("blob", "graphics")
  /\ console' \in {"graphics", "text"}
  /\ UNCHANGED <<choice, guarded, fbs, slots, kernel>>

\* Mutant of InstallTtyGuard: the descriptor is not stored.
InstallTtyGuardEmpty ==
  /\ DStep("graphics", "live")
  /\ UNCHANGED <<choice, console_state, fbs, slots, kernel>>

InstallTtyGuard ==
  /\ DStep("graphics", "live")
  /\ guarded' = TRUE
  /\ UNCHANGED <<choice, console, fbs, slots, kernel>>

(* restore_tty(), at exit() or by the handler of one of the five signals   *)
(* that have it.                                                           *)
RestoreTty ==
  /\ console' = IF guarded THEN "text" ELSE console
  /\ guarded' = FALSE

DImport(b) ==
  /\ fbs' = fbs \cup {b}
  /\ UNCHANGED <<dstage, choice, console_state, slots, kernel>>

-----------------------------------------------------------------------------
(* atomic_commit(): the card takes the buffer, or refuses it.              *)
Accepts(b) == flip = NoBuffer /\ flip' = b /\ UNCHANGED refused
Refuses == /\ flip # NoBuffer \/ refused < MaxRefused
           /\ refused' = IF flip # NoBuffer THEN refused ELSE refused + 1
           /\ UNCHANGED flip

(* present(), once the events are drained: the first frame sets the mode,  *)
(* later ones are committed or, behind a pending one, parked.              *)
SetMode(b) ==
  /\ ~modeSet
  /\ \/ Accepts(b) /\ pending' = b /\ modeSet' = TRUE
     \/ Refuses /\ UNCHANGED <<pending, modeSet>>
  /\ UNCHANGED <<displaying, ready>>

\* Mutant of PageFlip: every frame is parked for the next flip's event.
PageFlipParks(b) ==
  /\ modeSet /\ pending = NoBuffer
  /\ ready' = b
  /\ UNCHANGED <<displaying, pending, modeSet, flip, refused>>

PageFlip(b) ==
  /\ modeSet /\ pending = NoBuffer
  /\ \/ Accepts(b) /\ pending' = b
     \/ Refuses /\ UNCHANGED pending
  /\ UNCHANGED <<displaying, ready, modeSet>>

Park(b) ==
  /\ modeSet /\ pending # NoBuffer
  /\ ready' = b
  /\ UNCHANGED <<displaying, pending, modeSet, flip, refused>>

DPresent(b) ==
  /\ SetMode(b) \/ PageFlip(b) \/ Park(b)
  /\ UNCHANGED <<dstage, choice, console_state, fbs, scanout, flipEvent, kept>>

(* handle_events(): on_page_flip() moves the slots up and commits the      *)
(* parked buffer.                                                          *)
ChainFlip ==
  /\ ready # NoBuffer
  /\ \/ Accepts(ready) /\ pending' = ready
     \/ Refuses /\ pending' = NoBuffer
NoChain == ready = NoBuffer /\ pending' = NoBuffer /\ UNCHANGED <<flip, refused>>

DHandleEvent ==
  /\ flipEvent
  /\ flipEvent' = FALSE
  /\ displaying' = pending
  /\ ready' = NoBuffer
  /\ ChainFlip \/ NoChain
  /\ UNCHANGED <<dstage, choice, console_state, fbs, modeSet, scanout, kept>>

DNoEvent == ~flipEvent

(* External: the next vblank.                                              *)
Vblank ==
  /\ flip # NoBuffer /\ ~flipEvent
  /\ scanout' = flip /\ flip' = NoBuffer /\ flipEvent' = TRUE
  /\ UNCHANGED <<dstage, choice, console_state, fbs, slots, refused, kept>>

-----------------------------------------------------------------------------
(* ~DRMWindow(): drop the parked buffer, wait for the pending flip, give   *)
(* the screen back before the framebuffers go, and then the console, whose *)
(* guard ends first.                                                       *)
DropReady ==
  /\ DStep("live", "settled")
  /\ ready' = NoBuffer
  /\ UNCHANGED <<choice, console_state, fbs, displaying, pending, modeSet, kernel>>

(* drmModeSetCrtc(), whose result is not looked at: the card shows what it *)
(* did before, or refuses, as it always does when that was nothing (a mode *)
(* without a framebuffer); without a saved state it is not asked.          *)
RestoreCrtc ==
  /\ DStep("settled", "restored") /\ pending = NoBuffer
  /\ \/ saved = "on" /\ scanout' = Saved /\ UNCHANGED kept
     \/ saved # "none" /\ kept' = TRUE /\ UNCHANGED scanout
     \/ saved = "none" /\ UNCHANGED <<kept, scanout>>
  /\ UNCHANGED <<choice, console_state, fbs, slots, flip, flipEvent, refused>>

TakeFbs ==
  /\ fbs' = {}
  /\ scanout' = IF DHeld = {} THEN scanout ELSE NoBuffer
  /\ flip' = NoBuffer
  /\ UNCHANGED <<choice, console_state, slots, flipEvent, refused, kept>>

\* Mutant of RemoveFbs: the framebuffers go before the screen is given back.
RemoveFbsFirst == DStep("settled", "removed") /\ TakeFbs

RemoveFbs == DStep("restored", "removed") /\ TakeFbs

HadNoTty ==
  /\ DStep("removed", "closed") /\ ~guarded
  /\ UNCHANGED <<choice, console_state, fbs, slots, kernel>>

ReleaseGuard ==
  /\ DStep("removed", "unguarded") /\ guarded
  /\ guarded' = FALSE
  /\ UNCHANGED <<choice, console, fbs, slots, kernel>>

ReleaseConsole ==
  /\ DStep("unguarded", "closed")
  /\ console' = "text"
  /\ UNCHANGED <<choice, guarded, fbs, slots, kernel>>
=============================================================================
