----------------------------- MODULE MC_Gemdos -----------------------------
(* Small instances of Gemdos. *)
EXTENDS Gemdos, TLC

CONSTANTS b1, b2, b3, f1, f2, a1, a2

OneBase == {b1}
ThreeBases == {b1, b2, b3}
TwoFiles == {f1, f2}
TwoDTAs == {a1, a2}
ReadWrite == {"rb+"}
BothModes == {"rb", "rb+"}

Symm == Permutations(Basepages) \cup Permutations(Files) \cup Permutations(DTAs)

(* Programs use handles or searches, not both: nothing is common to them   *)
(* but the steps of the machine.  Of a cache that was started over only    *)
(* the first state is looked at.                                           *)
NoHandlesUsed ==
  /\ FileHandles = NoHandles /\ ForcedHandles = Unforced /\ holds = NoHandles
  /\ Len(chain) <= 1 /\ \A f \in Files : host[f] # "gone"

NoSearches ==
  /\ dta = [a \in DTAs |-> Nil]
  /\ \A i \in DOMAIN InternalDTAs : InternalDTAs[i] = Zero

OneKind == NoSearches \/ (NoHandlesUsed /\ intact)

(* What a restore does depends on the snapshot and on the host's files:    *)
(* what programs do to the tables between a snapshot and its restore is    *)
(* left out.                                                               *)
Near ==
  saved # None =>
    /\ chain = saved.chain /\ ForcedHandles = saved.ForcedHandles
    /\ \/ FileHandles = saved.FileHandles
       \/ FileHandles = [i \in Slots |-> restore_file_handle_info(saved.FileHandles[i])]
    /\ savedDTA = dta

(* The contents of the files and the modes of the handles decide what is   *)
(* in the files, which no invariant speaks of.                             *)
Owners(table) == [i \in Slots |->
  IF table[i] = None THEN None ELSE <<table[i].Basepage, table[i].szActualName>>]

Tables ==
  <<mounted, chain, Owners(FileHandles), ForcedHandles, {f \in Files : host[f] = "gone"},
    IF saved = None THEN None
      ELSE [saved EXCEPT !.FileHandles = Owners(saved.FileHandles)],
    holds, aim, searchVars>>
============================================================================
