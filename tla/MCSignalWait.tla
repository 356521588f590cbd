--------------------------- MODULE MCSignalWait -----------------------------
(* Two signals, A decremented twice and B once per use.                    *)
EXTENDS SignalWait, TLC
CONSTANTS w1, A, B

Wait(all, sigs, cond, value) ==
  [all |-> all, sigs |-> sigs, cond |-> cond, value |-> value]

MCInitial == (A :> 2) @@ (B :> 1)

(* One thread waits for one signal, for either of two, for both, or for   *)
(* none at all.                                                            *)
MCRequests ==
  w1 :> {Wait(TRUE, <<A>>, "EQ", 0), Wait(TRUE, <<A>>, "LT", 2),
         Wait(FALSE, <<A, B>>, "EQ", 0), Wait(FALSE, <<B, A>>, "LTE", 1),
         Wait(TRUE, <<A, B>>, "EQ", 0),
         Wait(TRUE, <<>>, "EQ", 0), Wait(FALSE, <<>>, "EQ", 0)}

(* One thread waits for both signals.                                      *)
MCBoth == w1 :> {Wait(TRUE, <<A, B>>, "EQ", 0)}
=============================================================================
