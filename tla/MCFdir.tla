------------------------------- MODULE MCFdir -------------------------------
(* Small instances of Fdir. Both anomalies can confirm: a rejected          *)
(* telecommand the second time (debounce), a receive overflow at once.      *)
EXTENDS Fdir
MCThresholds == [TC_REJECTED |-> 2, RX_OVERFLOW |-> 1]
============================================================================
