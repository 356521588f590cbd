----------------------------- MODULE ComputeToy ------------------------------
(***************************************************************************)
(* The render loop of tools/computetoy/main.cpp over either of its window  *)
(* backends (window.h, window.cpp): three buffers used in turn, each       *)
(* rendered by the GPU when the display has let go of it and then          *)
(* presented; the kernel is loaded again when its file has changed.        *)
(*                                                                         *)
(* An error of any call that KFD_EXPECT wraps and a signal with a handler  *)
(* end the process (Dies), and so does any other signal (Killed).          *)
(* External: the GPU ends a dispatch, the user edits the file and quits.   *)
(***************************************************************************)
EXTENDS DrmWindow, XcbWindow

CONSTANTS MaxFrames,  \* bound: frames rendered
          MaxEdits    \* bound: edits of the kernel's file

ASSUME ToyAssumption ==
  /\ MaxFrames \in Nat /\ MaxEdits \in Nat /\ MaxRefused \in Nat

VARIABLES
  pc,       \* where main() is
  backend,  \* "xcb", or "drm" when create_xcb_window() failed
  current, frame,
  stamp,    \* the frame each buffer holds
  shown,    \* history: the frame on the screen
  file,     \* the version of the kernel's file
  loaded,   \* the version main() has loaded
  elfMtime, \* the version whose modification time main() knows
  missed    \* history: edited between the first read and the first look at the time

main == <<current, frame, stamp>>
kernelFile == <<file, loaded, elfMtime, missed>>
app == <<pc, backend, current, frame, stamp, shown, file, loaded, elfMtime, missed>>
vars == <<dvars, xvars, app>>

Drm == backend = "drm"
Loop == {"poll", "wait", "reload", "reread", "dispatch", "gpu", "drain", "present"}
Ended == pc \in {"closed", "dead", "killed"}

TypeOK ==
  /\ DTypeOK /\ XTypeOK
  /\ pc \in Loop \cup {"read", "window", "closing", "closed", "dead", "killed"}
  /\ backend \in {"xcb", "drm"}
  /\ current \in Buffers /\ frame \in 0..MaxFrames
  /\ stamp \in [Buffers -> 0..MaxFrames] /\ shown \in 0..MaxFrames
  /\ {file, loaded, elfMtime} \subseteq 0..MaxEdits /\ missed \in BOOLEAN

Init ==
  /\ DInit /\ XInit
  /\ pc = "read" /\ backend = "xcb"
  /\ current = 0 /\ frame = 0 /\ stamp = [b \in Buffers |-> 0] /\ shown = 0
  /\ file = 0 /\ loaded = 0 /\ elfMtime = 0 /\ missed = FALSE

-----------------------------------------------------------------------------
(* Setup: read the file, create the window (X11 first), import buffers.    *)
ReadFile ==
  /\ pc = "read" /\ pc' = "window"
  /\ loaded' = file
  /\ UNCHANGED <<dvars, xvars, backend, main, shown, file, elfMtime, missed>>

CreateXcb ==
  /\ pc = "window" /\ ~Drm
  /\ XConnect \/ XHasDri3 \/ XHasPresent
  /\ UNCHANGED <<dvars, app>>

FallBack ==
  /\ pc = "window" /\ ~Drm /\ XCreateFails
  /\ backend' = "drm"
  /\ UNCHANGED <<dvars, pc, main, shown, kernelFile>>

CreateDrm ==
  /\ pc = "window" /\ Drm
  /\ \/ OpenCard \/ ChooseOutput \/ LookupProps \/ CreateBlob \/ DCreateFails
     \/ HasNoTty \/ TakeConsole \/ InstallTtyGuard
  /\ UNCHANGED <<xvars, app>>

WindowLive == IF Drm THEN dstage = "live" ELSE xstage = "live"
Imported == IF Drm THEN fbs ELSE pixmaps

ImportBuffer ==
  /\ pc = "window" /\ WindowLive
  /\ Imported # Buffers
  /\ LET b == Min(Buffers \ Imported)
     IN  IF Drm THEN DImport(b) /\ UNCHANGED xvars ELSE XImport(b) /\ UNCHANGED dvars
  /\ UNCHANGED app

LookAtMtime ==
  /\ pc = "window" /\ WindowLive /\ Imported = Buffers
  /\ pc' = "poll"
  /\ elfMtime' = file
  /\ missed' = (file # loaded)
  /\ UNCHANGED <<dvars, xvars, backend, main, shown, file, loaded>>

-----------------------------------------------------------------------------
Goto(from, to) == pc = from /\ pc' = to
WindowIdle == UNCHANGED <<dvars, xvars, backend>>

(* poll(): the user quits at any time, or the X connection has an error.   *)
Poll ==
  /\ Goto("poll", "wait") /\ frame < MaxFrames /\ ~broken
  /\ WindowIdle /\ UNCHANGED <<main, shown, kernelFile>>

Quit ==
  /\ Goto("poll", "closing")
  /\ WindowIdle /\ UNCHANGED <<main, shown, kernelFile>>

\* Mutant of InUse: a parked buffer counts as free.
InUseOnScreen == IF Drm THEN current = displaying ELSE current \in busy

(* Window::wait_idle(): what it waits for to end.                          *)
InUse == IF Drm THEN Locked(current) ELSE current \in busy

HandleEvent == IF Drm THEN DHandleEvent /\ UNCHANGED xvars
                      ELSE XHandleEvent /\ UNCHANGED dvars
NoEvent == IF Drm THEN DNoEvent ELSE XNoEvent

(* wait_idle(): handle events until the buffer is free.                    *)
WaitIdle ==
  /\ pc = "wait" /\ InUse
  /\ HandleEvent
  /\ UNCHANGED app

WaitedIdle ==
  /\ Goto("wait", "reload") /\ ~InUse
  /\ WindowIdle /\ UNCHANGED <<main, shown, kernelFile>>

(* The file's time has changed: remember it, then load the file.           *)
NoticeEdit ==
  /\ Goto("reload", "reread") /\ elfMtime # file
  /\ elfMtime' = file
  /\ WindowIdle /\ UNCHANGED <<main, shown, file, loaded, missed>>

Reload ==
  /\ Goto("reread", "dispatch")
  /\ loaded' = file /\ missed' = FALSE
  /\ WindowIdle /\ UNCHANGED <<main, shown, file, elfMtime>>

KeepKernel ==
  /\ Goto("reload", "dispatch") /\ elfMtime = file
  /\ WindowIdle /\ UNCHANGED <<main, shown, kernelFile>>

(* Fill the arguments, reset the signal, dispatch, and wait for the signal *)
(* that the end of the kernel decrements.                                  *)
Dispatch ==
  /\ Goto("dispatch", "gpu")
  /\ WindowIdle /\ UNCHANGED <<main, shown, kernelFile>>

GpuDone ==
  /\ Goto("gpu", IF Drm THEN "drain" ELSE "present")
  /\ stamp' = [stamp EXCEPT ![current] = frame + 1]
  /\ WindowIdle /\ UNCHANGED <<current, frame, shown, kernelFile>>

NextBuffer == /\ current' = (current + 1) % NumBuffers
              /\ frame' = frame + 1
              /\ pc' = "poll"

(* DRM's present() drains the events first, X11's last.                    *)
Drain ==
  /\ pc = "drain" /\ HandleEvent
  /\ UNCHANGED app

DrainedFirst ==
  /\ Goto("drain", "present") /\ NoEvent /\ Drm
  /\ WindowIdle /\ UNCHANGED <<main, shown, kernelFile>>

PresentDrm ==
  /\ pc = "present" /\ Drm /\ DPresent(current)
  /\ NextBuffer
  /\ UNCHANGED <<xvars, backend, stamp, shown, kernelFile>>

PresentXcb ==
  /\ Goto("present", "drain") /\ ~Drm /\ XPresent(current)
  /\ UNCHANGED <<dvars, backend, main, shown, kernelFile>>

DrainedLast ==
  /\ pc = "drain" /\ NoEvent /\ ~Drm
  /\ NextBuffer
  /\ UNCHANGED <<dvars, xvars, backend, stamp, shown, kernelFile>>

-----------------------------------------------------------------------------
(* main() returns and destroys the window.                                 *)
CloseDrm ==
  /\ pc = "closing" /\ Drm
  /\ \/ DropReady \/ RestoreCrtc \/ RemoveFbs
     \/ HadNoTty \/ ReleaseGuard \/ ReleaseConsole
     \/ dstage = "settled" /\ pending # NoBuffer /\ DHandleEvent
  /\ pc' = IF dstage' = "closed" THEN "closed" ELSE "closing"
  /\ UNCHANGED <<xvars, backend, main, shown, kernelFile>>

CloseXcb ==
  /\ Goto("closing", "closed") /\ ~Drm /\ XDestroy
  /\ UNCHANGED <<dvars, backend, main, shown, kernelFile>>

(* exit() after an error, or a signal that has a handler (SIGINT, SIGTERM, *)
(* SIGSEGV, SIGABRT, SIGHUP); the card's and the server's resources end    *)
(* with the process.                                                       *)
Dies ==
  /\ ~Ended /\ pc' = "dead"
  /\ RestoreTty
  /\ UNCHANGED <<xvars, backend, main, shown, kernelFile,
                 dstage, choice, fbs, slots, kernel>>

(* Any other signal (SIGQUIT, SIGBUS, SIGFPE, SIGILL, SIGKILL): nothing of *)
(* the program runs.                                                       *)
Killed ==
  /\ ~Ended /\ pc' = "killed"
  /\ UNCHANGED <<dvars, xvars, backend, main, shown, kernelFile>>

(* External: the display.                                                  *)
CardFlips ==
  /\ ~Ended /\ Vblank
  /\ shown' = stamp[flip]
  /\ UNCHANGED <<xvars, pc, backend, main, kernelFile>>

ServerShows ==
  /\ ~Ended
  /\ \E i \in DOMAIN queue : XShow(i) /\ shown' = stamp[queue[i]]
  /\ UNCHANGED <<dvars, pc, backend, main, kernelFile>>

ServerBreaks ==
  /\ ~Ended /\ XBreak
  /\ UNCHANGED <<dvars, app>>

Edit ==
  /\ ~Ended /\ file < MaxEdits
  /\ file' = file + 1
  /\ WindowIdle /\ UNCHANGED <<pc, main, shown, loaded, elfMtime, missed>>

MainStep ==
  \/ ReadFile \/ CreateXcb \/ FallBack \/ CreateDrm \/ ImportBuffer \/ LookAtMtime
  \/ Poll \/ WaitIdle \/ WaitedIdle \/ NoticeEdit \/ Reload \/ KeepKernel
  \/ Dispatch \/ GpuDone \/ Drain \/ DrainedFirst \/ PresentDrm
  \/ PresentXcb \/ DrainedLast \/ CloseDrm \/ CloseXcb

Display == CardFlips \/ ServerShows

Next == MainStep \/ Quit \/ Dies \/ Killed \/ Display \/ ServerBreaks \/ Edit

Spec == Init /\ [][Next]_vars

(* main() is scheduled, the GPU ends its kernels, and the display goes on. *)
FairSpec == Spec /\ WF_vars(MainStep) /\ WF_vars(Display)

-----------------------------------------------------------------------------
(* find_output(): the output has a monitor and a CRTC that can drive it,   *)
(* the one that does so already if there is one, with its primary plane;   *)
(* an interlaced mode is taken only if there is no other.                  *)
OutputUsable ==
  dstage \in {"found", "props", "blob", "graphics", "live"} =>
    LET c == card.connectors[output.connector]
    IN  /\ c.connected
        /\ c.active # NoCrtc => output.crtc = c.active
        /\ c.active = NoCrtc => \E i \in DOMAIN c.encoders : output.crtc \in c.encoders[i]
        /\ card.planes[output.plane].primary
        /\ output.crtc \in card.planes[output.plane].crtcs
        /\ \E i \in DOMAIN c.modes : c.modes[i] = output.mode
        /\ output.mode.interlaced => \A i \in DOMAIN c.modes : c.modes[i].interlaced

(* The screen goes dark only when the card refused to show what it showed  *)
(* before, or that could not be read (drm_window.cpp:346): our frame has   *)
(* left the screen before its framebuffer is removed, and no flip brings   *)
(* it back.                                                                *)
ScreenGivenBack == scanout = NoBuffer => saved = "none" \/ kept

(* The wait for a buffer that is on the screen while no flip is to come    *)
(* hangs.  A card that accepts every commit never leaves the loop there;   *)
(* one refusal, of the parked buffer, is enough.                           *)
Starved == /\ pc = "wait" /\ Drm /\ displaying = current
           /\ pending = NoBuffer /\ ready = NoBuffer
StarvedOnlyByRefusals == Starved => refused > 0

(* An edit of the file is noticed at the next turn, even one made while    *)
(* the file is loaded again; main() misses those between its first read    *)
(* and its first look at the time (missed).                                *)
EditsNoticed ==
  pc \in Loop \ {"reread"} => loaded = file \/ elfMtime # file \/ missed

(* What holds in every state of the program.                               *)
Inv == TypeOK /\ OutputUsable /\ ScreenGivenBack /\ StarvedOnlyByRefusals /\ EditsNoticed

(* When the program ends, by return, exit() or one of the signals with a   *)
(* handler, the console is in text mode again (drm_window.cpp:260), unless *)
(* it dies between taking the console and installing the guard, or between *)
(* releasing the guard and the console.                                    *)
ConsoleRestored ==
  Ended /\ console = "graphics" => pc = "killed" \/ dstage \in {"graphics", "unguarded"}

(* The GPU never writes a buffer that is on the screen or on its way, and  *)
(* the screen never goes back to an earlier frame.                         *)
Display0 == INSTANCE DisplaySpec WITH
  writing <- IF pc = "gpu" THEN current ELSE NoBuffer,
  reading <- IF Drm THEN DHeld ELSE XHeld
ImplementsDisplay == Display0!Spec

(* wait_idle() and the destructor come to an end: each wait for an event   *)
(* that will come.  A card that refused commits (Starved) and a broken X   *)
(* connection make wait_idle() wait for ever.                              *)
WaitsEnd == []<>(pc \notin {"wait", "drain", "closing"} \/ Starved \/ broken)
=============================================================================
