----------------------------- MODULE XcbWindow -------------------------------
(***************************************************************************)
(* The X11 backend of computetoy (tools/computetoy/xcb_window.cpp): a      *)
(* pixmap for each buffer, sent to the server with PresentPixmap and free  *)
(* again when the server says so with IdleNotify.                          *)
(*                                                                         *)
(* External: the server shows the pixmaps it was sent in order, may skip   *)
(* one that a later one supersedes, either shows a pixmap directly (and    *)
(* holds it until the next is shown) or copies it (and is done with it at  *)
(* once), and reports each pixmap it is done with.  The connection may     *)
(* break, after which no event arrives.                                    *)
(***************************************************************************)
EXTENDS Window, SequencesExt

VARIABLES
  xstage,   \* where create() or the destructor is
  pixmaps,  \* the buffers imported as pixmaps
  busy,     \* the buffers presented and not reported idle
  queue,    \* server: pixmaps sent and not shown yet
  front,    \* server: the pixmap it shows directly, or NoBuffer
  idle,     \* IdleNotify events not read yet
  broken    \* the connection has an error

window == <<xstage, pixmaps, busy>>
server == <<queue, front, idle, broken>>
xvars == <<xstage, pixmaps, busy, queue, front, idle, broken>>

XTypeOK ==
  /\ xstage \in {"none", "connected", "dri3", "live", "closed"}
  /\ pixmaps \subseteq Buffers /\ busy \subseteq Buffers /\ idle \subseteq Buffers
  /\ queue \in Seq(Buffers) /\ front \in Buffers \cup {NoBuffer}
  /\ broken \in BOOLEAN

XInit ==
  /\ xstage = "none" /\ pixmaps = {} /\ busy = {}
  /\ queue = <<>> /\ front = NoBuffer /\ idle = {} /\ broken = FALSE

XHeld == ToSet(queue) \cup ({front} \cap Buffers)

(* create(): connect and make the window, then ask for DRI3 and Present;   *)
(* a missing extension closes the connection.                              *)
XConnect == xstage = "none" /\ xstage' = "connected" /\ UNCHANGED <<pixmaps, busy, server>>
XHasDri3 == xstage = "connected" /\ xstage' = "dri3" /\ UNCHANGED <<pixmaps, busy, server>>
XHasPresent == xstage = "dri3" /\ xstage' = "live" /\ UNCHANGED <<pixmaps, busy, server>>
XCreateFails == /\ xstage \in {"none", "connected", "dri3"}
                /\ xstage' = "closed"
                /\ UNCHANGED <<pixmaps, busy, server>>

XImport(b) ==
  /\ pixmaps' = pixmaps \cup {b}
  /\ UNCHANGED <<xstage, busy, server>>

XPresent(b) ==
  /\ busy' = busy \cup {b}
  /\ queue' = IF broken THEN queue ELSE Append(queue, b)
  /\ UNCHANGED <<xstage, pixmaps, front, idle, broken>>

(* drain_present_events() reads one event.                                 *)
XHandleEvent ==
  \E b \in idle :
    /\ idle' = idle \ {b}
    /\ busy' = busy \ {b}
    /\ UNCHANGED <<xstage, pixmaps, queue, front, broken>>

XNoEvent == idle = {}

XDestroy ==
  /\ xstage' = "closed" /\ pixmaps' = {}
  /\ queue' = <<>> /\ front' = NoBuffer /\ idle' = {}
  /\ UNCHANGED <<busy, broken>>

(* External: the server turns to the i-th pixmap of its queue and is done  *)
(* with the earlier ones and with the one it showed.                       *)
XShow(i) ==
  LET done == ToSet(SubSeq(queue, 1, i - 1)) \cup ({front} \cap Buffers)
  IN  /\ queue' = SubSeq(queue, i + 1, Len(queue))
      /\ \/ front' = queue[i] /\ idle' = idle \cup done
         \/ front' = NoBuffer /\ idle' = idle \cup done \cup {queue[i]}
      /\ UNCHANGED <<window, broken>>

(* The server is gone, with all it held and the events it has not sent.    *)
XBreak ==
  /\ ~broken /\ xstage = "live"
  /\ broken' = TRUE /\ queue' = <<>> /\ front' = NoBuffer
  /\ idle' \in SUBSET idle
  /\ UNCHANGED window
=============================================================================
