--------------------------- MODULE ClassInitAbstract ---------------------------
(***************************************************************************)
(* What class initialization promises (JLS 12.4.2), with no monitors,     *)
(* wait sets, verification steps or call stacks: a class is taken from    *)
(* uninitialized to being initialized by one thread, its <clinit> runs    *)
(* once, after its superclass is initialized (or while the same thread    *)
(* initializes the superclass further up its stack), and the class ends   *)
(* initialized or erroneous.  A class can also become erroneous before    *)
(* anyone initializes it, when it fails verification.  ClassInit is shown *)
(* to implement this specification.                                        *)
(***************************************************************************)
CONSTANTS
  Threads,   \* mutator threads
  Classes,   \* the classes
  Super,     \* Classes -> Classes \cup {None}
  None

(* "Uninit", "Done", "Error", or the thread that initializes the class.   *)
States == {"Uninit", "Done", "Error"} \cup Threads

VARIABLES
  state,     \* Classes -> States
  ran        \* Classes -> BOOLEAN: <clinit> has been invoked

avars == <<state, ran>>

TypeOK == state \in [Classes -> States] /\ ran \in [Classes -> BOOLEAN]

(* The superclass is initialized, or t is initializing it.                *)
SuperReady(t, c) == Super[c] = None \/ state[Super[c]] \in {"Done", t}

Init ==
  /\ state = [c \in Classes |-> "Uninit"]
  /\ ran = [c \in Classes |-> FALSE]

Begin(t, c) ==
  /\ state[c] = "Uninit"
  /\ state' = [state EXCEPT ![c] = t]
  /\ UNCHANGED ran

RunClinit(t, c) ==
  /\ state[c] = t /\ ~ran[c]
  /\ SuperReady(t, c)
  /\ ran' = [ran EXCEPT ![c] = TRUE]
  /\ UNCHANGED state

Succeed(t, c) ==
  /\ state[c] = t /\ ran[c]
  /\ state' = [state EXCEPT ![c] = "Done"]
  /\ UNCHANGED ran

Fail(t, c) ==
  /\ state[c] = t
  /\ state' = [state EXCEPT ![c] = "Error"]
  /\ UNCHANGED ran

VerifyFail(c) ==
  /\ state[c] = "Uninit"
  /\ state' = [state EXCEPT ![c] = "Error"]
  /\ UNCHANGED ran

Next ==
  \/ \E t \in Threads, c \in Classes :
       Begin(t, c) \/ RunClinit(t, c) \/ Succeed(t, c) \/ Fail(t, c)
  \/ \E c \in Classes : VerifyFail(c)

Spec == Init /\ [][Next]_avars

=============================================================================
