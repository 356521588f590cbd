---------------------------- MODULE MCComputeToy -----------------------------
(* Three buffers; cards on which the wanted mode, the preferred mode, the  *)
(* active CRTC and the primary plane are not the first of their lists.     *)
EXTENDS ComputeToy

Mode(size, preferred, interlaced) ==
  [size |-> size, preferred |-> preferred, interlaced |-> interlaced]
Monitor(modes, active, encoders) ==
  [connected |-> TRUE, modes |-> modes, active |-> active, encoders |-> encoders]
Unplugged == [connected |-> FALSE, modes |-> <<>>, active |-> NoCrtc, encoders |-> <<{1}>>]
Plane(crtcs, primary) == [crtcs |-> crtcs, primary |-> primary]

MCNoBuffer == -1

MCCards ==
  {[connectors |-> <<Unplugged, Monitor(<<Mode(2, FALSE, TRUE), Mode(1, FALSE, FALSE)>>, 2, <<{1, 2}>>)>>,
    planes |-> <<Plane({1, 2}, FALSE), Plane({1}, TRUE), Plane({2}, TRUE)>>],
   [connectors |-> <<Monitor(<<Mode(1, FALSE, TRUE)>>, NoCrtc, <<{}, {2}>>),
                     Monitor(<<Mode(1, FALSE, FALSE), Mode(3, TRUE, FALSE)>>, NoCrtc, <<{1}>>)>>,
    planes |-> <<Plane({1}, TRUE)>>],
   [connectors |-> <<Unplugged>>, planes |-> <<Plane({1}, TRUE)>>]}
=============================================================================
