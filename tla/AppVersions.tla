----------------------------- MODULE AppVersions -----------------------------
(***************************************************************************)
(* The images of the components: fetchAppVersions, which the process runs  *)
(* before anything else and the ticker every hour, and getAppImage, which  *)
(* Reconcile calls for every workload, in the worker and in the ticker.    *)
(* They share the map versions, which fetchAppVersions fills in three      *)
(* passes under versionsLock: "app:tag" for the apps it has looked up, the *)
(* images the operator is built with for the others, and then the registry *)
(* in front of every entry there is.                                       *)
(*                                                                         *)
(* An image is its repository, its tag and how often the registry has been *)
(* put in front of it.                                                     *)
(***************************************************************************)
EXTENDS Naturals, Sequences

CONSTANTS
  Tags,            \* the tags GitHub may answer with
  NoImage,         \* no entry in the map; no image in the hands of a goroutine
  Custom           \* an image the user has put into the spec

Threads == {"worker", "ticker"}

(* Looked up at GitHub, in this order. *)
FetchOrder == <<"coroot", "coroot-ee", "coroot-node-agent", "coroot-cluster-agent">>

FetchedApps == {"coroot", "coroot-ee", "coroot-node-agent", "coroot-cluster-agent"}
BundledApps == {"clickhouse", "clickhouse-keeper", "prometheus", "kube-state-metrics"}
Apps        == FetchedApps \cup BundledApps

RepositoryOf(app) == IF app = "clickhouse-keeper" THEN "clickhouse" ELSE app

TagsOf(app) == IF app \in BundledApps THEN {"built in"} ELSE Tags \cup {"latest"}

Image(app, tag, registries) ==
  [repository |-> RepositoryOf(app), tag |-> tag, registries |-> registries]

ImagesOf(app, registries) == {Image(app, tag, registries) : tag \in TagsOf(app)}

VARIABLES
  versions,        \* the map
  versionsLock,
  fetched,         \* the local map of fetchAppVersions
  next,            \* the position in FetchOrder of its next lookup
  todo,            \* the entries the current pass has not done yet
  pc,              \* where fetchAppVersions is; "done" outside of it
  started,         \* whether the first fetchAppVersions has returned
  image            \* image[t]: what getAppImage has returned to t, and for what

vars == <<versions, versionsLock, fetched, next, todo, pc, started, image>>

(* The registry is put in front of an image at most once. *)
AnyImage ==
  [repository : Apps, tag : Tags \cup {"latest", "built in"}, registries : {0, 1}]

TypeOK ==
  /\ versions \in [Apps -> AnyImage \cup {NoImage}]
  /\ versionsLock \in {"free", "held"}
  /\ fetched \in [FetchedApps -> Tags \cup {"latest"}]
  /\ next \in 1 .. 5
  /\ todo \subseteq Apps
  /\ pc \in {"fetch", "lock", "assign", "prefix", "done"}
  /\ started \in BOOLEAN
  /\ image \in [Threads -> [app : Apps, image : AnyImage \cup {Custom}] \cup {NoImage}]

Init ==
  /\ versions = [app \in Apps |-> NoImage]
  /\ versionsLock = "free"
  /\ fetched = [app \in FetchedApps |-> "latest"]
  /\ next = 1
  /\ todo = {}
  /\ pc = "fetch"
  /\ started = FALSE
  /\ image = [t \in Threads |-> NoImage]

-----------------------------------------------------------------------------
(* One lookup.  When it fails, or the answer has no tag: "latest". *)
FetchAppVersion ==
  /\ pc = "fetch"
  /\ \E tag \in Tags \cup {"latest"} : fetched' = [fetched EXCEPT ![FetchOrder[next]] = tag]
  /\ next' = next + 1
  /\ pc' = IF next = Len(FetchOrder) THEN "lock" ELSE "fetch"
  /\ UNCHANGED <<versions, versionsLock, todo, started, image>>

Lock ==
  /\ pc = "lock" /\ versionsLock = "free"
  /\ versionsLock' = "held"
  /\ todo' = FetchedApps
  /\ pc' = "assign"
  /\ UNCHANGED <<versions, fetched, next, started, image>>

(* The loops over maps, in whatever order Go takes. *)
Assign(app) ==
  /\ pc = "assign" /\ app \in todo
  /\ versions' = [versions EXCEPT ![app] = Image(app, fetched[app], 0)]
  /\ todo' = todo \ {app}
  /\ UNCHANGED <<versionsLock, fetched, next, pc, started, image>>

(* Mutant: the images that never change are assigned only once. *)
AssignBundledOnce ==
  /\ pc = "assign" /\ todo = {}
  /\ versions' = [app \in Apps |->
       IF app \in BundledApps /\ ~started THEN Image(app, "built in", 0) ELSE versions[app]]
  /\ todo' = Apps
  /\ pc' = "prefix"
  /\ UNCHANGED <<versionsLock, fetched, next, started, image>>

AssignBundled ==
  /\ pc = "assign" /\ todo = {}
  /\ versions' = [app \in Apps |->
       IF app \in BundledApps THEN Image(app, "built in", 0) ELSE versions[app]]
  /\ todo' = Apps
  /\ pc' = "prefix"
  /\ UNCHANGED <<versionsLock, fetched, next, started, image>>

AddRegistry(app) ==
  /\ pc = "prefix" /\ app \in todo
  /\ versions' = [versions EXCEPT ![app].registries = @ + 1]
  /\ todo' = todo \ {app}
  /\ UNCHANGED <<versionsLock, fetched, next, pc, started, image>>

(* fetchAppVersions returns; its local map is gone. *)
Unlock ==
  /\ pc = "prefix" /\ todo = {}
  /\ versionsLock' = "free"
  /\ fetched' = [app \in FetchedApps |-> "latest"]
  /\ next' = 1
  /\ pc' = "done"
  /\ started' = TRUE
  /\ UNCHANGED <<versions, todo, image>>

(* The ticker starts over when the hour is over, unless it is in Reconcile.*)
Tick ==
  /\ pc = "done" /\ image["ticker"] = NoImage
  /\ pc' = "fetch"
  /\ UNCHANGED <<versions, versionsLock, fetched, next, todo, started, image>>

(* Whether goroutine t can be in Reconcile now: nobody before the          *)
(* constructor has returned, the ticker between two fetchAppVersions.      *)
Reconciles(t) == started /\ (t = "ticker" => pc = "done")

GetCustomImage(t, app) ==
  /\ Reconciles(t) /\ image[t] = NoImage
  /\ image' = [image EXCEPT ![t] = [app |-> app, image |-> Custom]]
  /\ UNCHANGED <<versions, versionsLock, fetched, next, todo, pc, started>>

GetAppImageUnlocked(t, app) ==   \* mutant
  /\ Reconciles(t) /\ image[t] = NoImage
  /\ image' = [image EXCEPT ![t] = [app |-> app, image |-> versions[app]]]
  /\ UNCHANGED <<versions, versionsLock, fetched, next, todo, pc, started>>

GetAppImage(t, app) ==
  /\ Reconciles(t) /\ image[t] = NoImage
  /\ versionsLock = "free"
  /\ image' = [image EXCEPT ![t] = [app |-> app, image |-> versions[app]]]
  /\ UNCHANGED <<versions, versionsLock, fetched, next, todo, pc, started>>

(* The image is put into the object, which the cluster gets. *)
UseImage(t) ==
  /\ image[t] # NoImage
  /\ image' = [image EXCEPT ![t] = NoImage]
  /\ UNCHANGED <<versions, versionsLock, fetched, next, todo, pc, started>>

Next ==
  \/ FetchAppVersion \/ Lock \/ AssignBundled \/ Unlock \/ Tick
  \/ \E app \in Apps : Assign(app) \/ AddRegistry(app)
  \/ \E t \in Threads : \/ UseImage(t)
                        \/ \E app \in Apps : GetCustomImage(t, app) \/ GetAppImage(t, app)

Spec == Init /\ [][Next]_vars

-----------------------------------------------------------------------------
(* Every image handed out, whenever and to whichever goroutine, is a whole *)
(* reference to the repository of the app that was asked for, with a tag   *)
(* and with the registry in front of it exactly once: never an entry that  *)
(* fetchAppVersions is at work on, nor one that a later round has prefixed *)
(* again.                                                                  *)
WholeImages ==
  \A t \in Threads :
    image[t] # NoImage /\ image[t].image # Custom
      => image[t].image \in ImagesOf(image[t].app, 1)

(* Outside of the critical section the map is complete and in its final    *)
(* form.                                                                   *)
MapIsWhole ==
  started /\ versionsLock = "free" => \A app \in Apps : versions[app] \in ImagesOf(app, 1)
=============================================================================
