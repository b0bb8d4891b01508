---------------------------- MODULE MCInterrupts ----------------------------
(* A small instance of Interrupts: each set of keys has those that may be  *)
(* taken for one another.                                                  *)
EXTENDS Interrupts

MCKeySets ==
    { {"ctrl_l", "ctrl_r", "q"},
      {"alt_l", "alt_r", "1"},
      {"shift_l", "shift_r", "caps", "n"},
      {"esc", "ctrl_l", "n"},
      {"alt_l", "numlock", "pad7"},
      {"ctrl_l", "padminus", "equal"} }

=============================================================================
