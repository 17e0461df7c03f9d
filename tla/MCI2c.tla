------------------------------- MODULE MCI2c -------------------------------
(***************************************************************************)
(* Model checking of Tlc59116.                                             *)
(***************************************************************************)
EXTENDS Tlc59116

\* MODE1 is 0x11; the registers nobody reads are taken as 0.
PowerUp == [r \in Registers |-> IF r = Mode1 THEN {0, 4} ELSE {}]
SomeModes == {{}, {1}, {0, 1}}
SomeBytes == {{1, 6}, 0 .. 7}
\* Two values wrap from the last led to the first; seventeen come around to
\* the led they began with.
SomeArrays == {<<>>, << {3}, {0, 5} >>, << 0 .. 7 >>,
               << {3}, {3}, {3}, {3}, {3}, {3}, {3}, {3}, {3},
                  {3}, {3}, {3}, {3}, {3}, {3}, {3}, {2} >>}
SomeGarbage == {{}, {0, 2, 4, 7}}
Chip0 == {5, 6, 7}
=============================================================================
