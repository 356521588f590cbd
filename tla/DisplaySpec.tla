---------------------------- MODULE DisplaySpec ------------------------------
(***************************************************************************)
(* What a window promises to a program that renders frames into a few      *)
(* buffers and presents them: the GPU never writes a buffer that the       *)
(* display may read, and frames appear on the screen in the order in which *)
(* they were rendered, some of them perhaps not at all.                    *)
(***************************************************************************)
EXTENDS Integers

CONSTANTS Buffers, NoBuffer

VARIABLES
  writing,  \* the buffer the GPU renders into, or NoBuffer
  reading,  \* the buffers the display shows or has been told to show
  shown     \* the number of the frame on the screen

vars == <<writing, reading, shown>>

Init == writing = NoBuffer /\ reading = {} /\ shown = 0

BeginFrame(b) ==
  /\ writing = NoBuffer /\ b \notin reading
  /\ writing' = b
  /\ UNCHANGED <<reading, shown>>

EndFrame ==
  /\ writing' = NoBuffer
  /\ UNCHANGED <<reading, shown>>

Present(b) ==
  /\ b # writing
  /\ reading' = reading \cup {b}
  /\ UNCHANGED <<writing, shown>>

(* The display turns to a later frame and is done with some buffers.       *)
Refresh ==
  /\ reading' \subseteq reading
  /\ shown' >= shown
  /\ UNCHANGED writing

Next ==
  \/ \E b \in Buffers : BeginFrame(b) \/ Present(b)
  \/ EndFrame
  \/ Refresh

Spec == Init /\ [][Next]_vars
=============================================================================
