---------------------------- MODULE MC_Resolution ----------------------------
(* Resolution for two threads.  O is java.lang.Object, A extends O and     *)
(* implements interface I, B extends A, and the referring code is in B.   *)
(* One literal occurs in two dex files.  The method is referenced through *)
(* B by invoke-virtual and invoke-super (one index, as javac emits for     *)
(* b.m() and super.m()), through A by invoke-static and invoke-direct, and *)
(* through I by invoke-interface; a fifth reference names a missing class. *)
(* The field is referenced through B by a static and a JLS access and     *)
(* through A by an instance access.  Init ranges over every declaration   *)
(* of the method and the field these classes can make.                    *)
EXTENDS Resolution, TLC

MCSuper == ("O" :> None) @@ ("A" :> "O") @@ ("B" :> "A") @@ ("I" :> "O")
MCImplements == ("O" :> {}) @@ ("A" :> {"I"}) @@ ("B" :> {})
MCStrContent == [k \in {"d1", "d2"} \X {0} |-> "hello"]
MCMRef == ("m1" :> [cls |-> "B", kinds |-> {"kVirtual", "kSuper"}])
       @@ ("m2" :> [cls |-> "A", kinds |-> {"kStatic"}])
       @@ ("m3" :> [cls |-> "A", kinds |-> {"kDirect"}])
       @@ ("m4" :> [cls |-> "I", kinds |-> {"kInterface"}])
       @@ ("m5" :> [cls |-> "X", kinds |-> {"kStatic"}])
MCFRef == ("f1" :> [cls |-> "B", op |-> "static"])
       @@ ("f2" :> [cls |-> "B", op |-> "jls"])
       @@ ("f3" :> [cls |-> "A", op |-> "instance"])
MCMDecls == ("O" :> {None, "virtual"}) @@ ("A" :> MKind) @@ ("B" :> {None})
         @@ ("I" :> {None, "virtual"})
MCFDecls == ("O" :> {None}) @@ ("A" :> FKind) @@ ("B" :> {None, "instance"})
         @@ ("I" :> {None, "static"})
==============================================================================
