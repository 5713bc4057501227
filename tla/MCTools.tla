------------------------------ MODULE MCTools ------------------------------
(***************************************************************************)
(* Small instances for TLC of the rate limiter and of three commands that  *)
(* work on files, buckets and forges: assets, release, and sync with       *)
(* repair.  They do not interact.  One of them runs, chosen at the start;  *)
(* the others stay in their initial state.                                 *)
(***************************************************************************)
EXTENDS RateLimiter

CONSTANTS
  None,
  Devs, Contents,             \* of AssetStore
  Operators, MaxMain, MaxPulls,       \* of Promotion
  Terminals, MaxOrigin        \* of WorkTree

ASSUME ToolsAssumption ==
  /\ None \notin Contents
  /\ MaxMain \in Nat \ {0}
  /\ MaxPulls \in Nat
  /\ MaxOrigin \in Nat

VARIABLES
  part,
  bucket, lost, file, index, task,
  main, demo, demoIsMain, pulls, open, release, merged, published,
  passed, recorded, job,
  tree, git, dirty, branch, ref, own, tracking, origin, cut, cmd

assetVars == <<bucket, lost, file, index, task>>
releaseVars == <<main, demo, demoIsMain, pulls, open, release, merged,
                 published, passed, recorded, job>>
treeVars == <<tree, git, dirty, branch, ref, own, tracking, origin, cut, cmd>>

(* Requests differ only in what happens to them: they arrive in order. *)
InOrder ==
  \A r \in Requests :
    phase'[r] = "new" => \A q \in Requests : q > r => phase'[q] = "new"

Assets == INSTANCE AssetStore WITH job <- task

Promote == INSTANCE Promotion

Tree == INSTANCE WorkTree WITH job <- cmd

-----------------------------------------------------------------------------
Init4 ==
  /\ part \in {"limiter", "assets", "release", "tree"}
  /\ Init
  /\ Assets!Init
  /\ Promote!Init
  /\ Tree!Init
  /\ part # "limiter" => persistent
  /\ part # "assets" => file = [d \in Devs |-> None]
  /\ part # "release" => demo = 0 /\ release = "none"
  /\ part # "tree" => tree = "absent"

Others(p) ==
  /\ UNCHANGED part
  /\ p # "limiter" => UNCHANGED vars
  /\ p # "assets" => UNCHANGED assetVars
  /\ p # "release" => UNCHANGED releaseVars
  /\ p # "tree" => UNCHANGED treeVars

On(p) == part = p /\ Others(p)

Next4 ==
  \/ On("limiter") /\ Next /\ InOrder
  \/ On("assets") /\ Assets!Next
  \/ On("release") /\ Promote!Next
  \/ On("tree") /\ Tree!Next

ToolsSpec ==
  Init4 /\ [][Next4]_<<part, vars, assetVars, releaseVars, treeVars>>

-----------------------------------------------------------------------------
(* Every part keeps its types. *)
ToolsTypeOK ==
  /\ TypeOK
  /\ Assets!TypeOK
  /\ Promote!TypeOK
  /\ Tree!TypeOK

(* What an index names is in the bucket (AssetStore), and a prod that says *)
(* it is done has published the release it found (Promotion).              *)
NamedIsThere == Assets!IndexedIsStored /\ Promote!SuccessIsPublished

(* Work is moved or replaced for a reason only: a file by a forced pull or *)
(* when it changed during the download (AssetStore), demo by commands that *)
(* saw checks pass or wrote their reason down (Promotion), branches in a   *)
(* clean sync or where there was nothing; and who says that a repository   *)
(* is there leaves a complete one (WorkTree).                              *)
MovesForAReason ==
  /\ Assets!UnforcedPullKeeps
  /\ Promote!DemoMovesVouched
  /\ Tree!BranchesMoveForAReason
  /\ Tree!SuccessIsWhole

=============================================================================
