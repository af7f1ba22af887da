----------------------------- MODULE MergedSpec -----------------------------
(***************************************************************************)
(* MergeSpecs, the three-way merge by which the operator updates the       *)
(* Deployments, DaemonSets, StatefulSets, volume claims, Services and      *)
(* Ingresses that exist already, and the callbacks around it.              *)
(*                                                                         *)
(* A spec is a function from fields to values, None for a field that is    *)
(* not there.  A field is a path of the strategic merge: a list that has a *)
(* merge key (containers, variables, ports, volumes) has one for each of   *)
(* its elements, a list without is one field.  Annotations have fields of  *)
(* their own, since the code merges them on its own.  What was applied     *)
(* last is on the object too, in one more annotation: the record.          *)
(***************************************************************************)
CONSTANTS
  Fields,          \* the fields of specs
  Annotations,     \* the annotations, without the record's
  None             \* the value of what is not there

(* What the annotation tells of the last call: the annotations and the     *)
(* spec it asked for; nothing when there is none.                          *)
NoRecord ==
  [readable |-> TRUE,
   annotations |-> [a \in Annotations |-> None], spec |-> [f \in Fields |-> None]]

(* The annotation is not JSON: MergeSpecs fails, and the call with it.     *)
Unreadable ==
  [readable |-> FALSE, annotations |-> NoRecord.annotations, spec |-> NoRecord.spec]

Mergeable(object) == object.record.readable

(* The patch that is applied to current: fields of the target with another *)
(* value, and (None is JSON's null) fields the target no longer has.       *)
PatchWithoutDeletions(original, target, current) ==   \* mutant: a two-way merge
  LET changed == {f \in Fields : target[f] # None /\ target[f] # current[f]}
  IN  [f \in changed |-> target[f]]

ThreeWayPatch(original, target, current) ==
  LET changed == {f \in Fields : target[f] # None /\ target[f] # current[f]}
      dropped == {f \in Fields : target[f] = None /\ original[f] # None}
  IN  [f \in changed \cup dropped |-> target[f]]

Patched(current, patch) ==
  [f \in Fields |-> IF f \in DOMAIN patch THEN patch[f] ELSE current[f]]

AnnotationsOnlyAdded(last, target, current) ==   \* mutant: old ones are not deleted
  [a \in Annotations |-> IF target[a] # None THEN target[a] ELSE current[a]]

MergedAnnotations(last, target, current) ==
  [a \in Annotations |-> IF target[a] # None THEN target[a]
                         ELSE IF last[a] # None THEN None ELSE current[a]]

(* An object that has a spec: that, its annotations and the record. *)
MergeSpecs(object, target, annotations) ==
  LET last == object.record
  IN  [spec |-> Patched(object.spec, ThreeWayPatch(last.spec, target, object.spec)),
       annotations |-> MergedAnnotations(last.annotations, annotations, object.annotations),
       record |-> [readable |-> TRUE, annotations |-> annotations, spec |-> target]]

(* The object the callback is given when the Get has found none: the one   *)
(* the operator has built, without a record.                               *)
Built(target, annotations) ==
  [spec |-> target, annotations |-> annotations, record |-> NoRecord]

-----------------------------------------------------------------------------
(* The callbacks.  CreateOrUpdateStatefulSet puts the claim templates back *)
(* as they were, which the API server allows nobody to change (kept), and  *)
(* CreateOrUpdateService takes its own list of ports as a whole (replaced).*)
Callback(object, target, annotations, kept, replaced) ==
  LET merged == MergeSpecs(object, target, annotations)
  IN  [spec |-> [f \in Fields |-> IF f \in kept THEN object.spec[f]
                                  ELSE IF f \in replaced THEN target[f] ELSE merged.spec[f]],
       annotations |-> merged.annotations, record |-> merged.record]
=============================================================================
