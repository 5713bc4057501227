----------------------------- MODULE Delivery -----------------------------
(***************************************************************************)
(* orbit pr deliver (pr/application Deliver): push the branch, open a pull *)
(* request, merge it through the gate, check out the base, fast-forward it *)
(* and prune the branch.  The developer goes on editing, committing and    *)
(* switching branches meanwhile (the gate alone waits up to 20 minutes),   *)
(* any step may fail or be the last one before a kill, and the command is  *)
(* run again.  A branch is the number of commits on it since the base; the *)
(* gate is the one of MergeGate, of which only the answer matters here.    *)
(***************************************************************************)
EXTENDS Naturals

CONSTANTS
  MaxCommits        \* bound: commits that the feature branch may get

VARIABLES
  checkedOut,       \* "feature" or "base"
  dirty,            \* uncommitted changes in the working tree
  feature,          \* commits on the local branch; 0 when it is gone
  baseAhead,        \* the local base has commits of its own
  localBase,        \* commits of the feature that the local base contains
  pushed,           \* commits on origin's feature branch
  pr,               \* the pull request
  onBase,           \* commits of the feature that origin's base contains
  step              \* what the command does next

vars == <<checkedOut, dirty, feature, baseAhead, localBase, pushed, pr,
          onBase, step>>

Steps == {"idle", "IsClean", "Push", "CreatePR", "gate", "MergePR",
          "Checkout", "PullFFOnly", "DeleteBranch"}

local == <<checkedOut, dirty, feature, baseAhead, localBase>>
forge == <<pushed, pr, onBase>>

Init ==
  /\ checkedOut = "feature"
  /\ dirty \in BOOLEAN
  /\ feature = 1
  /\ baseAhead = FALSE
  /\ localBase = 0
  /\ pushed = 0
  /\ pr = "none"
  /\ onBase = 0
  /\ step = "idle"

(* Deliver refuses to run on the base branch. *)
Begin ==
  /\ step = "idle"
  /\ checkedOut = "feature"
  /\ step' = "IsClean"
  /\ UNCHANGED <<local, forge>>

IsClean ==
  /\ step = "IsClean"
  /\ step' = IF dirty THEN "idle" ELSE "Push"
  /\ UNCHANGED <<local, forge>>

(* The branch is pushed by name, with whatever it has by then. *)
Push ==
  /\ step = "Push"
  /\ feature # 0
  /\ pushed' = feature
  /\ step' = "CreatePR"
  /\ UNCHANGED <<local, pr, onBase>>

(* The forge opens no second pull request and no empty one. *)
CreatePR ==
  /\ step = "CreatePR"
  /\ pr # "open"
  /\ pushed > onBase
  /\ pr' = "open"
  /\ step' = "gate"
  /\ UNCHANGED <<local, pushed, onBase>>

Gate ==
  /\ step = "gate"
  /\ step' = "MergePR"
  /\ UNCHANGED <<local, forge>>

MergePR ==
  /\ step = "MergePR"
  /\ pr' = "merged"
  /\ onBase' = pushed
  /\ step' = "Checkout"
  /\ UNCHANGED <<local, pushed>>

(* Mutant: origin's base is checked out instead of the local branch. *)
CheckoutDetached ==
  /\ step = "Checkout"
  /\ checkedOut' = "detached"
  /\ step' = "PullFFOnly"
  /\ UNCHANGED <<dirty, feature, baseAhead, localBase, forge>>

(* Uncommitted changes come along, or git refuses (a failure). *)
Checkout ==
  /\ step = "Checkout"
  /\ checkedOut' = "base"
  /\ step' = "PullFFOnly"
  /\ UNCHANGED <<dirty, feature, baseAhead, localBase, forge>>

(* git pull acts on whatever is checked out; a base with commits of its    *)
(* own cannot be fast-forwarded.                                           *)
PullFFOnly ==
  /\ step = "PullFFOnly"
  /\ \/ /\ checkedOut = "base"
        /\ ~baseAhead
        /\ localBase' = onBase
     \/ /\ checkedOut = "feature"
        /\ UNCHANGED localBase
  /\ step' = "DeleteBranch"
  /\ UNCHANGED <<checkedOut, dirty, feature, baseAhead, forge>>

(* branch -d, or -D when git says that the branch is not fully merged; a   *)
(* branch that is checked out is not deleted.                              *)
DeleteBranch ==
  /\ step = "DeleteBranch"
  /\ checkedOut # "feature"
  /\ feature # 0
  /\ feature' = 0
  /\ step' = "idle"
  /\ UNCHANGED <<checkedOut, dirty, baseAhead, localBase, forge>>

(* Mutant: a merge that fails does not stop the delivery. *)
FailGoesOn ==
  /\ step # "idle"
  /\ step' = IF step = "MergePR" THEN "Checkout" ELSE "idle"
  /\ UNCHANGED <<local, forge>>

(* Any step may fail, and the command may be killed: nothing is undone. *)
Fail ==
  /\ step # "idle"
  /\ step' = "idle"
  /\ UNCHANGED <<local, forge>>

(* The developer. *)
Edit ==
  /\ ~dirty
  /\ dirty' = TRUE
  /\ UNCHANGED <<checkedOut, feature, baseAhead, localBase, forge, step>>

Commit ==
  /\ dirty
  /\ dirty' = FALSE
  /\ \/ /\ checkedOut = "feature"
        /\ feature \in 1..(MaxCommits - 1)
        /\ feature' = feature + 1
        /\ UNCHANGED baseAhead
     \/ /\ checkedOut = "base"
        /\ baseAhead' = TRUE
        /\ UNCHANGED feature
  /\ UNCHANGED <<checkedOut, localBase, forge, step>>

Switch ==
  /\ feature # 0
  /\ checkedOut' = IF checkedOut = "base" THEN "feature" ELSE "base"
  /\ UNCHANGED <<dirty, feature, baseAhead, localBase, forge, step>>

Next ==
  \/ Begin
  \/ IsClean
  \/ Push
  \/ CreatePR
  \/ Gate
  \/ MergePR
  \/ Checkout
  \/ PullFFOnly
  \/ DeleteBranch
  \/ Fail
  \/ Edit
  \/ Commit
  \/ Switch

Spec == Init /\ [][Next]_vars

-----------------------------------------------------------------------------
(* Counts stay within their bound and the steps are those of Deliver. *)
TypeOK ==
  /\ checkedOut \in {"feature", "base"}
  /\ dirty \in BOOLEAN
  /\ feature \in 0..MaxCommits
  /\ baseAhead \in BOOLEAN
  /\ localBase \in 0..MaxCommits
  /\ pushed \in 0..MaxCommits
  /\ pr \in {"none", "open", "merged"}
  /\ onBase \in 0..MaxCommits
  /\ step \in Steps

(* When the local branch is gone, whatever was ever pushed from it is on   *)
(* origin's base: through failed and repeated deliveries nothing is pruned *)
(* that the forge still holds unmerged.                                    *)
PrunedIsMerged == feature = 0 => pushed <= onBase

=============================================================================
