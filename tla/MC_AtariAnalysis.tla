--------------------------- MODULE MC_AtariAnalysis ---------------------------
(* Two sectors, five memory writes, a window inside of the memory and one   *)
(* that ends with it, and limits that are reached.                          *)
EXTENDS AtariAnalysis

Put(a, s) == [address |-> a, size |-> s]

MC_Sectors == {1, 2}
MC_Accesses == {Put(2, 4), Put(4, 4), Put(6, 1), Put(6, 2), Put(14, 2)}

Windows == {<<4, 6>>, <<3, 15>>}

MC_Settings ==
  {[start |-> w[1], end |-> w[2], memoryLimit |-> 1, mediaLimit |-> l,
    controlled |-> c, opens |-> o] :
      w \in Windows, l \in {1, 3}, c \in BOOLEAN, o \in BOOLEAN}
=============================================================================
