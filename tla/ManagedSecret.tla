--------------------------- MODULE ManagedSecret ---------------------------
(***************************************************************************)
(* CorootReconciler.CreateOrUpdateSecret on one Secret: the ClickHouse     *)
(* password, or the API keys of the projects (several projects, and        *)
(* several Coroot resources of the namespace, may name the same Secret).   *)
(* Each key that has no value gets a random string; a key that has one,    *)
(* the operator's or the user's, is left alone: the agents and the         *)
(* database pods that already use it would be locked out otherwise.        *)
(*                                                                         *)
(* It is CreateOrUpdate, with Secrets as contents and the callback below.  *)
(***************************************************************************)
EXTENDS CreateOrUpdate

CONSTANTS
  Keys,            \* the keys of the Secret's data
  Strings,         \* the values a key may have, random or set by a user
  NoValue          \* the value of a key that is not in the data

SecretContent ==
  [data : [Keys -> Strings \cup {NoValue}], owned : BOOLEAN]

(* keys is not empty: the function returns before any request when it is. *)
SecretCalls == [keys : SUBSET Keys \ {{}}, retain : BOOLEAN]

DataOf(c) == IF c = Absent THEN [k \in Keys |-> NoValue] ELSE c.data

(* RandomString is drawn for the missing keys only; retain decides whether *)
(* the Secret has the Coroot resource as its controller.                   *)
FillKeys(call, c) ==
  LET Fills(k) == k \in call.keys /\ DataOf(c)[k] = NoValue
  IN  {[data |-> [k \in Keys |-> IF Fills(k) THEN drawn[k] ELSE DataOf(c)[k]],
        owned |-> ~call.retain] : drawn \in [Keys -> Strings]}

ASSUME NoValueAssumption == NoValue \notin Strings
ASSUME SecretAssumption ==
  /\ Content = SecretContent
  /\ Calls = SecretCalls
  /\ \A call \in Calls, c \in Content \cup {Absent} : MutateF(call, c) = FillKeys(call, c)

-----------------------------------------------------------------------------
(* Once a key has a value, no call of the operator changes or removes it,  *)
(* even when two goroutines found it missing, or when a user set it after  *)
(* the call had looked (CreateOrUpdateSecret tests the key of a copy that  *)
(* may be stale by the time it is written).                                *)
KeyStability ==
  [][ author' \in Calls /\ Exists(live) /\ live' # live
        => \A k \in Keys :
             DataOf(live.content)[k] # NoValue
               => DataOf(live'.content)[k] = DataOf(live.content)[k] ]_vars
=============================================================================
