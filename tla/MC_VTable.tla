------------------------------- MODULE MC_VTable -------------------------------
(* An instance of VTable for TLC: Object <- A <- B <- C in two packages.  *)
(* A implements the marker interface I3; B adds no interface, so it      *)
(* shares A's iftable; C implements I2, I1 and I3, where I1 extends I2.  *)
(* I1.m and I2.n have dex method indices 0 and 2 and share IMT slot 0.   *)
EXTENDS VTable

CONSTANTS p, q   \* packages

MCChain == <<"O", "A", "B", "C">>
MCNames == <<"m", "n">>

Pub == [access |-> "public", final |-> FALSE]
(* m may be absent, public, package-private or public final in each      *)
(* class; n absent or public.                                            *)
MCDeclsOf == [x \in {"m", "n"} |->
                IF x = "m"
                  THEN {None, Pub, [access |-> "package", final |-> FALSE],
                        [access |-> "public", final |-> TRUE]}
                  ELSE {None, Pub}]

MCIfaces == {"I1", "I2", "I3"}
MCIfaceMethods == [i \in MCIfaces |->
                     CASE i = "I1" -> <<"m">> [] i = "I2" -> <<"n">>
                       [] OTHER -> <<>>]
MCIfaceSupers == [i \in MCIfaces |-> IF i = "I1" THEN <<"I2">> ELSE <<>>]
MCImplements == [c \in ToSet(MCChain) |->
                   CASE c = "A" -> <<"I3">> [] c = "C" -> <<"I2", "I1", "I3">>
                     [] OTHER -> <<>>]
MCDexIdx == [i \in MCIfaces |-> [x \in {"m", "n"} |-> IF x = "m" THEN 0 ELSE 2]]

(* Packages are interchangeable.                                         *)
MCSymmetry == Permutations({p, q})
=============================================================================
