--------------------------- MODULE ManagedObject ---------------------------
(***************************************************************************)
(* What the operator promises about one Kubernetes object it manages       *)
(* together with other writers (a user, another controller, the garbage    *)
(* collector): every call of CreateOrUpdate either takes effect in one     *)
(* indivisible step on the object as it is at that moment, or changes      *)
(* nothing.  No writer's change is ever lost under a call that read the    *)
(* object before it.                                                       *)
(*                                                                         *)
(* CreateOrUpdate.tla shows that the code, which reads a cache that lags   *)
(* and writes some time later, implements this specification.              *)
(***************************************************************************)
CONSTANTS
  Calls,           \* the argument lists CreateOrUpdate is called with
  Content,         \* what an existing object may contain
  Absent,          \* the content of an object that does not exist
  MutateF(_, _),   \* MutateF(call, c): the contents the callback may make of c
  NoCall           \* the author of a change made by no call

VARIABLES
  object,          \* the object: in Content, or Absent
  author           \* the call that changed it last, or NoCall

vars == <<object, author>>

Init == object = Absent /\ author = NoCall

(* A call applies its callback to the object as it is now. *)
Apply(call) ==
  /\ object' \in MutateF(call, object)
  /\ author' = call

(* The object is deleted, by the operator or by someone else. *)
Delete ==
  /\ object' = Absent
  /\ author' = NoCall

(* Another writer creates or changes the object. *)
Foreign ==
  /\ object' \in Content
  /\ author' = NoCall

Next == Delete \/ Foreign \/ \E call \in Calls : Apply(call)

Spec == Init /\ [][Next]_vars
=============================================================================
