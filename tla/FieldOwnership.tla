--------------------------- MODULE FieldOwnership ---------------------------
(***************************************************************************)
(* What the merge of specs is for: an object whose fields and annotations  *)
(* several writers share.  The operator owns the items it has asked for.   *)
(* With every call it sets those it asks for now, takes away those it      *)
(* owned and no longer asks for, and leaves the items of others alone.     *)
(*                                                                         *)
(* ServerConfig.tla shows that the code, which remembers what it owns in   *)
(* an annotation that others may change too, implements this.              *)
(***************************************************************************)
CONSTANTS
  Items,           \* the fields and annotations of the object
  Kept,            \* those nobody changes once the object exists
  Replaced,        \* those the operator shares with nobody
  None             \* the value of an item that is not there

VARIABLES
  exists,          \* whether there is such an object
  items,           \* the values of its items, None for all if there is not
  asked,           \* the values the operator has asked for last
  byOperator       \* whether the last change was the operator's

vars == <<exists, items, asked, byOperator>>

Owned == {i \in Items : asked[i] # None}

Forgotten == [i \in Items |-> None]

Init ==
  /\ asked = Forgotten
  /\ byOperator = FALSE

Create ==
  /\ ~exists
  /\ items' = asked'
  /\ exists' = TRUE /\ byOperator' = TRUE

Apply ==
  /\ exists
  /\ items' = [i \in Items |->
       IF i \in Kept THEN items[i]
       ELSE IF asked'[i] # None \/ i \in Replaced THEN asked'[i]
       ELSE IF i \in Owned THEN None ELSE items[i]]
  /\ exists' = TRUE /\ byOperator' = TRUE

(* Another writer may change, create and delete the object, and make the   *)
(* operator forget what it owns, but not believe that it owns more.        *)
Other ==
  /\ asked' \in {asked, Forgotten}
  /\ exists /\ exists' => \A i \in Kept : items'[i] = items[i]
  /\ byOperator' = FALSE

Next == Create \/ Apply \/ Other

Spec == Init /\ [][Next]_vars
=============================================================================
