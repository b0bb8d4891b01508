------------------------------- MODULE MCTimer -------------------------------
(* Small instances of Timer: repeats for ever, none and a few. *)
EXTENDS Timer

MCRepeats == {-1, 0, 2}

=============================================================================
