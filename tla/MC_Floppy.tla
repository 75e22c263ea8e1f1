----------------------------- MODULE MC_Floppy -----------------------------
(* Small instances of Floppy: two or three images and what they are like. *)
EXTENDS Floppy

CONSTANTS p, q, zip

TwoImages == {p, q}
AllThree == {p, q, zip}
OnlyZip == {zip}
Nobody == {}
NoPartner == [i \in Images |-> None]
QAfterP == [i \in Images |-> IF i = p THEN q ELSE None]
OneSector == {0}
Bits == {0, 1}
OneValue == {0}
ThreeValues == {0, 1, 2}
Two == {2}

Dialog == {"dialog"}
ShortcutOrRetro == {"shortcut", "retro"}
DialogOrShortcut == {"dialog", "shortcut"}
============================================================================
