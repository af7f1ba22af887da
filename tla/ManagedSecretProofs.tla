------------------------ MODULE ManagedSecretProofs ------------------------
(***************************************************************************)
(* A value in a managed Secret is never changed by the operator: proved    *)
(* for any keys and strings, any number of goroutines and any interleaving *)
(* with users and with the cache, from the invariants of CreateOrUpdate.   *)
(***************************************************************************)
EXTENDS ManagedSecret, CreateOrUpdateProofs

(* What the callback makes of a Secret that exists keeps its values.       *)
LEMMA FillKeysKeeps ==
  ASSUME NEW call \in Calls, NEW c \in Content, NEW d \in FillKeys(call, c),
         NEW k \in Keys, DataOf(c)[k] # NoValue
  PROVE  DataOf(d)[k] = DataOf(c)[k]
<1>1. PICK drawn \in [Keys -> Strings] :
        d = [data |-> [j \in Keys |->
                         IF j \in call.keys /\ DataOf(c)[j] = NoValue
                         THEN drawn[j] ELSE DataOf(c)[j]],
             owned |-> ~call.retain]
  BY DEF FillKeys
<1>2. d.data[k] = DataOf(c)[k]
  BY <1>1
<1>3. d \in Content
  BY MutateContent, SecretAssumption
<1>4. d # Absent
  BY <1>3, AbsentAssumption
<1> QED BY <1>2, <1>4 DEF DataOf

(* A key that has a value keeps it, whatever the callback was shown by a   *)
(* stale cache: the only call that changes an existing Secret is an Update *)
(* whose copy is the Secret as the server has it.                          *)
THEOREM KeysAreStable == Spec => KeyStability
<1> DEFINE Stable ==
      author' \in Calls /\ Exists(live) /\ live' # live
        => \A k \in Keys :
             DataOf(live.content)[k] # NoValue
               => DataOf(live'.content)[k] = DataOf(live.content)[k]
<1>1. TypeOK /\ SnapshotsAgree /\ [Next]_vars => [Stable]_vars
  <2> SUFFICES ASSUME TypeOK, SnapshotsAgree, [Next]_vars,
                      author' \in Calls, Exists(live), live' # live,
                      NEW k \in Keys, DataOf(live.content)[k] # NoValue
               PROVE  DataOf(live'.content)[k] = DataOf(live.content)[k]
    OBVIOUS
  <2>1. live \in Version
    BY DEF TypeOK
  <2>2. ASSUME NEW t \in Threads, Update(t)
        PROVE  DataOf(live'.content)[k] = DataOf(live.content)[k]
    <3>1. PICK c \in MutateF(args[t], obj[t].content) : Accept(c, args[t])
      BY <2>2 DEF Update
    <3>2. args[t] \in Calls /\ obj[t].content = live.content
      BY <2>2 DEF Update, TypeOK, SnapshotsAgree
    <3>3. live.content \in Content
      BY <2>1, VersionRevision DEF Exists
    <3>4. live'.content = c
      BY <2>1, <3>1, <3>2, <3>3, MutateContent, AcceptVersion
    <3>5. c \in FillKeys(args[t], live.content)
      BY <3>1, <3>2, <3>3, SecretAssumption
    <3> QED BY <3>2, <3>3, <3>4, <3>5, FillKeysKeeps
  <2>3. ASSUME NEW t \in Threads, Create(t) PROVE FALSE
    BY <2>3 DEF Create
  <2>4. CASE ForeignWrite \/ ForeignDelete \/ \E t \in Threads : DeleteObject(t)
    <3>1. author' = NoCall
      BY <2>4 DEF ForeignWrite, ForeignDelete, DeleteObject, Accept
    <3> QED BY <3>1, NoCallAssumption
  <2>5. ASSUME NEW t \in Threads,
               Unchanged(t) \/ Fail(t) \/ \E call \in Calls : Get(t, call)
        PROVE  FALSE
    BY <2>5 DEF Unchanged, Fail, Get
  <2>6. CASE InformerSync \/ UNCHANGED vars
    BY <2>6 DEF InformerSync, vars
  <2> QED BY <2>2, <2>3, <2>4, <2>5, <2>6 DEF Next
<1> QED BY <1>1, TypeCorrect, SnapshotsCorrect, PTL DEF Spec, KeyStability
=============================================================================
