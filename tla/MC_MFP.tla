------------------------------- MODULE MC_MFP -------------------------------
(* Small instances of MFP: which channels there are and what is written. *)
EXTENDS MFP

TwoChannels == {4, 13}
OneChannel == {4}

AllOrNone == {{}, Channels}
AnyKeep == SUBSET Channels
Always == {Channels}

NoKeep == {{}}

JustBefore == {0}
=============================================================================
