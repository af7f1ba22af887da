-------------------------- MODULE AppVersionsProofs --------------------------
(***************************************************************************)
(* Whatever tags there are: the map of versions is well-formed, and every  *)
(* image getAppImage returns is whole.  The invariant follows the passes   *)
(* of fetchAppVersions: it says, for each entry, how far the pass has come *)
(* with it.                                                                *)
(***************************************************************************)
EXTENDS AppVersions, TLAPS

(* The lock is held during the passes. *)
LockInv == versionsLock = IF pc \in {"assign", "prefix"} THEN "held" ELSE "free"

AssignInv ==
  pc = "assign" => /\ todo \subseteq FetchedApps
                   /\ \A app \in FetchedApps \ todo : versions[app] \in ImagesOf(app, 0)

PrefixInv ==
  pc = "prefix" => \A app \in Apps : versions[app] \in ImagesOf(app, IF app \in todo THEN 0 ELSE 1)

NextInv == pc \in {"fetch", "done"} => next \in 1 .. 4

Inv == TypeOK /\ LockInv /\ AssignInv /\ PrefixInv /\ NextInv /\ MapIsWhole /\ WholeImages

LEMMA ImageIsOf ==
  ASSUME NEW app \in Apps, NEW tag \in TagsOf(app), NEW n
  PROVE  Image(app, tag, n) \in ImagesOf(app, n)
BY DEF ImagesOf

(* An entry with the registry put in front of it. *)
LEMMA AddRegistryToImage ==
  ASSUME NEW app \in Apps, NEW i \in ImagesOf(app, 0)
  PROVE  [i EXCEPT !.registries = @ + 1] \in ImagesOf(app, 1)
BY DEF ImagesOf, Image

(* The images are all among those TypeOK allows. *)
LEMMA ImagesAreTyped ==
  ASSUME NEW app \in Apps, NEW n \in {0, 1}
  PROVE  ImagesOf(app, n) \subseteq AnyImage
<1>1. RepositoryOf(app) \in Apps
  BY DEF RepositoryOf, Apps, FetchedApps, BundledApps
<1>2. TagsOf(app) \subseteq Tags \cup {"latest", "built in"}
  BY DEF TagsOf
<1>3. ASSUME NEW tag \in TagsOf(app) PROVE Image(app, tag, n) \in AnyImage
  BY <1>1, <1>2 DEF Image, AnyImage
<1> QED BY <1>3 DEF ImagesOf

LEMMA InitInv == Init => Inv
<1> SUFFICES ASSUME Init PROVE Inv
  OBVIOUS
<1>1. TypeOK
  <2>1. versions \in [Apps -> AnyImage \cup {NoImage}]
    BY DEF Init
  <2>2. fetched \in [FetchedApps -> Tags \cup {"latest"}]
    BY DEF Init
  <2>3. image \in [Threads -> [app : Apps, image : AnyImage \cup {Custom}] \cup {NoImage}]
    BY DEF Init
  <2>4. next \in 1 .. 5 /\ todo \subseteq Apps
    BY DEF Init
  <2>5. started \in BOOLEAN /\ pc \in {"fetch"} /\ versionsLock \in {"free"}
    BY DEF Init
  <2> QED BY <2>1, <2>2, <2>3, <2>4, <2>5 DEF TypeOK
<1>2. LockInv /\ AssignInv /\ PrefixInv /\ NextInv
  BY DEF Init, LockInv, AssignInv, PrefixInv, NextInv
<1>3. MapIsWhole /\ WholeImages
  BY DEF Init, MapIsWhole, WholeImages
<1> QED BY <1>1, <1>2, <1>3 DEF Inv

LEMMA NextInvPreserved == Inv /\ [Next]_vars => Inv'
<1> SUFFICES ASSUME Inv, [Next]_vars PROVE Inv'
  OBVIOUS
<1> USE DEF Inv
<1>1. CASE FetchAppVersion
  <2>1. PICK tag \in Tags \cup {"latest"} : fetched' = [fetched EXCEPT ![FetchOrder[next]] = tag]
    BY <1>1 DEF FetchAppVersion
  <2>2. next \in 1 .. 4 /\ pc = "fetch"
    BY <1>1 DEF FetchAppVersion, NextInv
  <2>3. Len(FetchOrder) = 4
    BY DEF FetchOrder
  <2>4. TypeOK'
    <3>1. fetched' \in [FetchedApps -> Tags \cup {"latest"}]
      BY <2>1 DEF TypeOK
    <3>2. next' \in 1 .. 5
      BY <1>1, <2>2 DEF FetchAppVersion
    <3> QED BY <1>1, <3>1, <3>2 DEF FetchAppVersion, TypeOK
  <2>5. LockInv' /\ AssignInv' /\ PrefixInv' /\ NextInv'
    BY <1>1, <2>2, <2>3 DEF FetchAppVersion, LockInv, AssignInv, PrefixInv, NextInv
  <2>6. MapIsWhole' /\ WholeImages'
    BY <1>1 DEF FetchAppVersion, MapIsWhole, WholeImages
  <2> QED BY <2>4, <2>5, <2>6
<1>2. CASE Lock
  <2>1. TypeOK'
    BY <1>2 DEF Lock, TypeOK, Apps
  <2>2. LockInv' /\ AssignInv' /\ PrefixInv' /\ NextInv'
    BY <1>2 DEF Lock, LockInv, AssignInv, PrefixInv, NextInv
  <2>3. MapIsWhole' /\ WholeImages'
    BY <1>2 DEF Lock, MapIsWhole, WholeImages
  <2> QED BY <2>1, <2>2, <2>3
<1>3. ASSUME NEW app \in Apps, Assign(app) PROVE Inv'
  <2>1. app \in FetchedApps /\ app \in todo /\ pc = "assign" /\ versionsLock = "held"
    BY <1>3 DEF Assign, AssignInv, LockInv
  <2>2. fetched[app] \in TagsOf(app)
    BY <2>1 DEF TypeOK, TagsOf, FetchedApps, BundledApps
  <2>3. Image(app, fetched[app], 0) \in ImagesOf(app, 0)
    BY <2>2, ImageIsOf
  <2>4. /\ versions' = [versions EXCEPT ![app] = Image(app, fetched[app], 0)]
        /\ todo' = todo \ {app}
        /\ UNCHANGED <<versionsLock, fetched, next, pc, started, image>>
    BY <1>3 DEF Assign
  <2>5. TypeOK'
    BY <2>3, <2>4, ImagesAreTyped DEF TypeOK
  <2>6. AssignInv'
    BY <2>1, <2>3, <2>4 DEF AssignInv, TypeOK, Apps
  <2>7. LockInv' /\ PrefixInv' /\ NextInv'
    BY <2>1, <2>4 DEF LockInv, PrefixInv, NextInv
  <2>8. MapIsWhole' /\ WholeImages'
    BY <2>1, <2>4 DEF MapIsWhole, WholeImages
  <2> QED BY <2>5, <2>6, <2>7, <2>8
<1>4. CASE AssignBundled
  <2>1. pc = "assign" /\ todo = {} /\ versionsLock = "held"
    BY <1>4 DEF AssignBundled, LockInv
  <2>2. \A app \in Apps : versions'[app] \in ImagesOf(app, 0)
    <3>1. ASSUME NEW app \in BundledApps PROVE versions'[app] \in ImagesOf(app, 0)
      <4>1. "built in" \in TagsOf(app) /\ app \in Apps
        BY <3>1 DEF TagsOf, Apps
      <4>2. versions'[app] = Image(app, "built in", 0)
        BY <1>4, <4>1 DEF AssignBundled
      <4> QED BY <4>1, <4>2, ImageIsOf
    <3>2. ASSUME NEW app \in FetchedApps PROVE versions'[app] \in ImagesOf(app, 0)
      <4>1. versions'[app] = versions[app]
        BY <1>4 DEF AssignBundled, Apps, FetchedApps, BundledApps
      <4> QED BY <4>1, <2>1 DEF AssignInv
    <3> QED BY <3>1, <3>2 DEF Apps
  <2>3. DOMAIN versions' = Apps /\ versions' = [app \in Apps |-> versions'[app]]
    BY <1>4 DEF AssignBundled
  <2>4. TypeOK'
    <3>1. versions' \in [Apps -> AnyImage \cup {NoImage}]
      BY <2>2, <2>3, ImagesAreTyped
    <3> QED BY <1>4, <3>1 DEF AssignBundled, TypeOK
  <2>5. LockInv' /\ AssignInv' /\ NextInv'
    BY <1>4, <2>1 DEF AssignBundled, LockInv, AssignInv, NextInv
  <2>6. PrefixInv'
    BY <1>4, <2>2 DEF AssignBundled, PrefixInv
  <2>7. MapIsWhole' /\ WholeImages'
    BY <1>4, <2>1 DEF AssignBundled, MapIsWhole, WholeImages
  <2> QED BY <2>4, <2>5, <2>6, <2>7
<1>5. ASSUME NEW app \in Apps, AddRegistry(app) PROVE Inv'
  <2>1. app \in todo /\ pc = "prefix" /\ versionsLock = "held"
    BY <1>5 DEF AddRegistry, LockInv
  <2>2. versions[app] \in ImagesOf(app, 0)
    BY <2>1 DEF PrefixInv
  <2>3. [versions[app] EXCEPT !.registries = @ + 1] \in ImagesOf(app, 1)
    BY <2>2, AddRegistryToImage
  <2>4. /\ versions' = [versions EXCEPT ![app] = [versions[app] EXCEPT !.registries = @ + 1]]
        /\ todo' = todo \ {app}
        /\ UNCHANGED <<versionsLock, fetched, next, pc, started, image>>
    BY <1>5 DEF AddRegistry
  <2>5. TypeOK'
    BY <2>3, <2>4, ImagesAreTyped DEF TypeOK
  <2>6. PrefixInv'
    <3> SUFFICES ASSUME NEW a \in Apps
                 PROVE  versions'[a] \in ImagesOf(a, IF a \in todo' THEN 0 ELSE 1)
      BY DEF PrefixInv
    <3>1. CASE a = app
      BY <3>1, <2>3, <2>4 DEF TypeOK
    <3>2. CASE a # app
      BY <3>2, <2>1, <2>4 DEF TypeOK, PrefixInv
    <3> QED BY <3>1, <3>2
  <2>7. LockInv' /\ AssignInv' /\ NextInv'
    BY <2>1, <2>4 DEF LockInv, AssignInv, NextInv
  <2>8. MapIsWhole' /\ WholeImages'
    BY <2>1, <2>4 DEF MapIsWhole, WholeImages
  <2> QED BY <2>5, <2>6, <2>7, <2>8
<1>6. CASE Unlock
  <2>1. \A app \in Apps : versions[app] \in ImagesOf(app, 1)
    BY <1>6 DEF Unlock, PrefixInv
  <2>2. TypeOK'
    BY <1>6 DEF Unlock, TypeOK
  <2>3. LockInv' /\ AssignInv' /\ PrefixInv' /\ NextInv'
    BY <1>6 DEF Unlock, LockInv, AssignInv, PrefixInv, NextInv
  <2>4. MapIsWhole' /\ WholeImages'
    BY <1>6, <2>1 DEF Unlock, MapIsWhole, WholeImages
  <2> QED BY <2>2, <2>3, <2>4
<1>7. CASE Tick
  <2>1. TypeOK'
    BY <1>7 DEF Tick, TypeOK
  <2>2. LockInv' /\ AssignInv' /\ PrefixInv' /\ NextInv'
    BY <1>7 DEF Tick, LockInv, AssignInv, PrefixInv, NextInv
  <2>3. MapIsWhole' /\ WholeImages'
    BY <1>7 DEF Tick, MapIsWhole, WholeImages
  <2> QED BY <2>1, <2>2, <2>3
<1>8. ASSUME NEW t \in Threads, NEW app \in Apps, GetAppImage(t, app) PROVE Inv'
  <2>1. versions[app] \in ImagesOf(app, 1)
    BY <1>8 DEF GetAppImage, Reconciles, MapIsWhole
  <2>2. [app |-> app, image |-> versions[app]] \in [app : Apps, image : AnyImage \cup {Custom}]
    BY <2>1, ImagesAreTyped
  <2>3. TypeOK'
    BY <1>8, <2>2 DEF GetAppImage, TypeOK
  <2>4. WholeImages'
    BY <1>8, <2>1 DEF GetAppImage, WholeImages, TypeOK
  <2> QED
    BY <1>8, <2>3, <2>4
    DEF GetAppImage, LockInv, AssignInv, PrefixInv, NextInv, MapIsWhole
<1>9. ASSUME NEW t \in Threads, NEW app \in Apps, GetCustomImage(t, app) PROVE Inv'
  <2>1. [app |-> app, image |-> Custom] \in [app : Apps, image : AnyImage \cup {Custom}]
    OBVIOUS
  <2>2. TypeOK'
    BY <1>9, <2>1 DEF GetCustomImage, TypeOK
  <2>3. WholeImages'
    BY <1>9 DEF GetCustomImage, WholeImages, TypeOK
  <2> QED
    BY <1>9, <2>2, <2>3
    DEF GetCustomImage, LockInv, AssignInv, PrefixInv, NextInv, MapIsWhole
<1>10. ASSUME NEW t \in Threads, UseImage(t) PROVE Inv'
  <2>1. TypeOK' /\ WholeImages'
    BY <1>10 DEF UseImage, TypeOK, WholeImages
  <2> QED
    BY <1>10, <2>1 DEF UseImage, LockInv, AssignInv, PrefixInv, NextInv, MapIsWhole
<1>11. CASE UNCHANGED vars
  BY <1>11 DEF vars, TypeOK, LockInv, AssignInv, PrefixInv, NextInv, MapIsWhole, WholeImages
<1> QED
  BY <1>1, <1>2, <1>3, <1>4, <1>5, <1>6, <1>7, <1>8, <1>9, <1>10, <1>11 DEF Next

LEMMA InvHolds == Spec => []Inv
BY InitInv, NextInvPreserved, PTL DEF Spec

(* The map, the lock and the images in use are always well-formed; no      *)
(* entry ever has the registry in front of it twice.                       *)
THEOREM VersionsTyped == Spec => []TypeOK
<1>1. Inv => TypeOK
  BY DEF Inv
<1> QED BY <1>1, InvHolds, PTL

(* Every image that getAppImage returns is whole, in whatever order the    *)
(* goroutines run, the lookups fail and the maps are iterated.             *)
THEOREM ImagesWhole == Spec => []WholeImages
<1>1. Inv => WholeImages
  BY DEF Inv
<1> QED BY <1>1, InvHolds, PTL
=============================================================================
