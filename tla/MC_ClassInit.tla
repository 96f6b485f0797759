---------------------------- MODULE MC_ClassInit ----------------------------
(* Instances of ClassInit for TLC.                                        *)
EXTENDS ClassInit, TLC

(* B extends A; C is independent; B's <clinit> uses C.  Acyclic.          *)
MCSuperPair == [c \in {"A", "B", "C"} |-> IF c = "B" THEN "A" ELSE None]
MCUsesOther == [c \in {"A", "B", "C"} |-> IF c = "B" THEN <<"C">> ELSE <<>>]
(* The runtime's mode and the compiler's most restrictive one.            *)
MCModesStrict == {<<TRUE, TRUE>>, <<FALSE, FALSE>>}
(* C extends B extends A; D and E stand alone.  A's <clinit> uses B.     *)
MCSuper == [c \in {"A", "B", "C", "D", "E"} |-> CASE c = "B" -> "A"
                                                   [] c = "C" -> "B"
                                                   [] OTHER -> None]
MCUsesSub == [c \in {"A", "B", "C", "D", "E"} |-> IF c = "A" THEN <<"B">> ELSE <<>>]
(* Every mode of the runtime and the compiler.                            *)
MCModesAll == BOOLEAN \X BOOLEAN
(* Pair run: both classes verify without failure from an oat file that   *)
(* could not determine their status.                                      *)
MCVerdictClean == [c \in {"A", "B", "C"} |-> <<"kStatusNotReady", "kNoFailure">>]
(* Chain run: A soft-fails MethodVerifier, B is preverified by the oat     *)
(* file, C verifies without failure, D fails MethodVerifier hard, and the *)
(* oat file rejects E.                                                     *)
MCVerdictMixed == ("A" :> <<"kStatusRetryVerificationAtRuntime", "kSoftFailure">>)
               @@ ("B" :> <<"kStatusVerified", "kNoFailure">>)
               @@ ("C" :> <<"kStatusNotReady", "kNoFailure">>)
               @@ ("D" :> <<"kStatusNotReady", "kHardFailure">>)
               @@ ("E" :> <<"kStatusError", "kNoFailure">>)
=============================================================================
