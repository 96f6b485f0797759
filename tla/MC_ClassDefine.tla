--------------------------- MODULE MC_ClassDefine ---------------------------
(* Instances of ClassDefine for TLC.  Descriptors are strings; "O" is      *)
(* java.lang.Object, "[A" the array class of "A", "M" a class on no path.  *)
EXTENDS ClassDefine

MCSuperChain == [d \in {"A", "B"} |-> IF d = "A" THEN "O" ELSE "A"]
MCSuperErrors == [d \in {"A", "B", "C", "D"} |-> CASE d \in {"A", "D"} -> "O" [] d = "B" -> "A" [] d = "C" -> "C"]
MCSuperCycle == [d \in {"A", "B"} |-> IF d = "A" THEN "B" ELSE "A"]
MCSuperShared == [d \in {"A", "B", "C"} |-> IF d = "A" THEN "O" ELSE "A"]
MCComponent == [d \in {"[A"} |-> "A"]
MCNoArrays == [d \in {} |-> "A"]
=============================================================================
