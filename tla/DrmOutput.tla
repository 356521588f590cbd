----------------------------- MODULE DrmOutput -------------------------------
(***************************************************************************)
(* The choice of an output by computetoy's DRM backend                     *)
(* (tools/computetoy/drm_window.cpp: pick_mode(), find_primary_plane(),    *)
(* find_output()).  A card is a record                                     *)
(*   connectors  a sequence of [connected, modes, active, encoders]        *)
(*   planes      a sequence of [crtcs, primary]                            *)
(* where a mode is [size, preferred, interlaced], active is the CRTC that  *)
(* drives the connector now (NoCrtc if none or unknown), and encoders is a *)
(* sequence of the sets of CRTCs each encoder may use.  CRTCs are numbered *)
(* as the card lists them.                                                 *)
(***************************************************************************)
EXTENDS Integers, SequencesExt

NoCrtc == 0
Crtcs == Nat \ {NoCrtc}
Card == [connectors : Seq([connected : BOOLEAN, active : Crtcs \cup {NoCrtc},
                           modes : Seq([size : Nat, preferred : BOOLEAN,
                                        interlaced : BOOLEAN]),
                           encoders : Seq(SUBSET Crtcs)]),
         planes : Seq([crtcs : SUBSET Crtcs, primary : BOOLEAN])]
NoMode == [size |-> 0, preferred |-> FALSE, interlaced |-> FALSE]
NoOutput == [connector |-> 0, crtc |-> NoCrtc, plane |-> 0, mode |-> NoMode]

(* pick_mode(): the preferred mode before one of the wanted size before    *)
(* any other; interlaced modes only when there is nothing else.            *)
PickMode(modes, want) ==
  LET preferred == SelectInSeq(modes, LAMBDA m : ~m.interlaced /\ m.preferred)
      exact == SelectInSeq(modes, LAMBDA m : ~m.interlaced /\ m.size = want)
      first == SelectInSeq(modes, LAMBDA m : ~m.interlaced)
  IN  modes[IF preferred # 0 THEN preferred
            ELSE IF exact # 0 THEN exact ELSE IF first # 0 THEN first ELSE 1]

(* The CRTC that drives the connector now, or the first one that the first *)
(* encoder with any can use.                                               *)
PickCrtc(connector) ==
  IF connector.active # NoCrtc
  THEN connector.active
  ELSE LET e == SelectInSeq(connector.encoders, LAMBDA crtcs : crtcs # {})
       IN  IF e = 0 THEN NoCrtc ELSE Min(connector.encoders[e])

(* find_primary_plane()                                                    *)
FindPrimaryPlane(card, crtc) ==
  SelectInSeq(card.planes, LAMBDA p : p.primary /\ crtc \in p.crtcs)

(* find_output(): the first connector with a monitor, a CRTC and a plane.  *)
FindOutput(card, want) ==
  LET usable(c) == /\ c.connected /\ c.modes # <<>>
                   /\ PickCrtc(c) # NoCrtc
                   /\ FindPrimaryPlane(card, PickCrtc(c)) # 0
      i == SelectInSeq(card.connectors, usable)
      c == card.connectors[i]
  IN  IF i = 0 THEN NoOutput
      ELSE [connector |-> i, crtc |-> PickCrtc(c),
            plane |-> FindPrimaryPlane(card, PickCrtc(c)),
            mode |-> PickMode(c.modes, want)]
=============================================================================
