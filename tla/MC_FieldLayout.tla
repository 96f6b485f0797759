----------------------------- MODULE MC_FieldLayout -----------------------------
(* An instance of FieldLayout for TLC: java.lang.Object <- A.  Object may  *)
(* declare two instance fields and A three, of any type; A may declare     *)
(* three static fields.  sizeof(mirror::Class) is 4 mod 8, so whether the *)
(* 64-bit fields need a pad depends on the number of references.  The     *)
(* reference bitmap is scaled down to one word: a reference at byte 4 or  *)
(* beyond, and every static reference, has no bit.                        *)
EXTENDS FieldLayout

MCChain == <<"O", "A">>
MCFieldNames == <<"a", "b", "c">>
MCIFieldsOf == [c \in {"O", "A"} |-> IF c = "O" THEN {"a", "b"} ELSE {"a", "b", "c"}]
MCSFieldsOf == [c \in {"O", "A"} |-> IF c = "O" THEN {} ELSE {"a", "b", "c"}]
=============================================================================
