------------------------- MODULE MC_ClassLinkerRoots -------------------------
EXTENDS ClassLinkerRoots

(* Two classes of one dex file.                                            *)
MCDexOf == [c \in Classes |-> "d1"]

=============================================================================
