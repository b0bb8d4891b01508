----------------------------- MODULE MCDisplay ------------------------------
(* A small instance of Display: the process list has one row of two        *)
(* columns, or clears all rows below the first.                            *)
EXTENDS Display

MCListings == {4 .. 5, Width .. Width * Height - 1}

=============================================================================
