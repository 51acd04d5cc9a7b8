-------------------------------- MODULE Uart --------------------------------
(* The serial output of a chip: what the applications print and the        *)
(* emulator's runner reads.  A line is one that somebody looks for, or     *)
(* "other".                                                                *)
EXTENDS Naturals, Sequences

VARIABLE uart      \* what has been printed, over all boots

Lines == {"statistics", "iterations", "complete", "crash", "other"}

log(line) == uart' = Append(uart, line)
Quiet     == UNCHANGED uart
=============================================================================
