-------------------------------- MODULE TdmMap --------------------------------
(* The circuits of -tdmmap {x-x'}{h}{y-y'}{z-z'} and their names (tdm.rs);    *)
(* CallPool models which call holds which.                                    *)
EXTENDS Naturals

CONSTANT Width      \* the bits of a count: u32 in the code

Map(x, a, y, b, z, c) == [x |-> x, a |-> a, y |-> y, b |-> b, z |-> z, c |-> c]
Times(m, n) == (m * n) % 2 ^ Width

Circuits(m) == Times(Times(m.a + 1, m.b + 1), m.c + 1)

Circuit(m, number) ==
    <<m.x + ((number \div Times(m.b + 1, m.c + 1)) % (m.a + 1)),
      m.y + ((number \div (m.c + 1)) % (m.b + 1)),
      m.z + (number % (m.c + 1))>>

\* Where the count does not overflow, two circuits never have one name, and the map's
\* names are all used.
CircuitsHaveTheirOwnNames(m) ==
    (m.a + 1) * (m.b + 1) * (m.c + 1) < 2 ^ Width =>
        /\ \A i, j \in 0 .. Circuits(m) - 1 : Circuit(m, i) = Circuit(m, j) => i = j
        /\ {Circuit(m, i) : i \in 0 .. Circuits(m) - 1}
               = (m.x .. m.x + m.a) \X (m.y .. m.y + m.b) \X (m.z .. m.z + m.c)
=============================================================================
