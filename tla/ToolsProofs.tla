----------------------------- MODULE ToolsProofs -----------------------------
(***************************************************************************)
(* Proofs about the components that MCTools runs side by side, for every   *)
(* set of developers, contents, operators and terminals and every bound.   *)
(***************************************************************************)
EXTENDS MCTools, FiniteSetTheorems, TLAPS

-----------------------------------------------------------------------------
(* AssetStore. *)

(* A command about to save the index knows a hash under which there is an  *)
(* object, or was: what Add saves last has been asked for or uploaded.     *)
SaveOK ==
  \A d \in Devs :
    Assets!At(d, "add.Save") =>
      bucket[task[d].sum] # None \/ task[d].sum = lost

(* A pull that was not forced began where there was no file, and there is  *)
(* none now unless the developer made one.                                 *)
PullOK ==
  \A d \in Devs :
    task[d].step \in {"pull.Get", "pull.Write"} =>
      file[d] = None \/ task[d].force \/ task[d].touched

AssetsInv == Assets!TypeOK /\ Assets!IndexedIsStored /\ SaveOK /\ PullOK

LEMMA AssetsInit == Assets!Init => AssetsInv
BY ToolsAssumption
   DEF Assets!Init, AssetsInv, Assets!TypeOK, Assets!IndexedIsStored, SaveOK, PullOK,
       Assets!Idle, Assets!At, Assets!Steps

LEMMA AssetsStep == AssetsInv /\ [Assets!Next]_(Assets!vars) => AssetsInv'
<1> SUFFICES ASSUME AssetsInv, [Assets!Next]_(Assets!vars)
             PROVE  AssetsInv'
  OBVIOUS
<1> USE ToolsAssumption
        DEF AssetsInv, Assets!TypeOK, Assets!IndexedIsStored, SaveOK, PullOK,
            Assets!At, Assets!Goto, Assets!End, Assets!Idle, Assets!Run, Assets!Steps
<1>1. ASSUME NEW d \in Devs, Assets!AddHash(d) PROVE AssetsInv'
  BY <1>1 DEF Assets!AddHash
<1>2. ASSUME NEW d \in Devs, Assets!AddExists(d) PROVE AssetsInv'
  BY <1>2 DEF Assets!AddExists
<1>3. ASSUME NEW d \in Devs, Assets!AddPut(d) PROVE AssetsInv'
  BY <1>3 DEF Assets!AddPut, Assets!Upload
<1>4. ASSUME NEW d \in Devs, Assets!AddSave(d) PROVE AssetsInv'
  BY <1>4 DEF Assets!AddSave
<1>5. ASSUME NEW d \in Devs, Assets!PullLocal(d) PROVE AssetsInv'
  BY <1>5 DEF Assets!PullLocal
<1>6. ASSUME NEW d \in Devs, Assets!PullGet(d) PROVE AssetsInv'
  BY <1>6 DEF Assets!PullGet
<1>7. ASSUME NEW d \in Devs, Assets!PullWrite(d) PROVE AssetsInv'
  BY <1>7 DEF Assets!PullWrite
<1>8. ASSUME NEW d \in Devs, Assets!PushExists(d) PROVE AssetsInv'
  BY <1>8 DEF Assets!PushExists
<1>9. ASSUME NEW d \in Devs, Assets!PushPut(d) PROVE AssetsInv'
  BY <1>9 DEF Assets!PushPut, Assets!Upload
<1>10. ASSUME NEW d \in Devs, Assets!Fail(d) PROVE AssetsInv'
  BY <1>10 DEF Assets!Fail
<1>11. ASSUME NEW d \in Devs, Assets!Edit(d) PROVE AssetsInv'
  <2>1. /\ file' \in [Devs -> Contents \union {None}]
        /\ \A e \in Devs \ {d} : file'[e] = file[e]
        /\ UNCHANGED <<bucket, lost, index>>
    BY <1>11 DEF Assets!Edit
  <2>2. task' = [task EXCEPT ![d].touched = (task[d].step # "idle")]
    BY <1>11 DEF Assets!Edit
  <2>3. CASE task[d].step = "idle"
    <3>1. task' = [task EXCEPT ![d].touched = FALSE]
      BY <2>2, <2>3
    <3>2. Assets!TypeOK'
      <4>1. task' \in [ Devs -> [ step : Assets!Steps, sum : Contents \union {None},
                                 force : BOOLEAN, touched : BOOLEAN ] ]
        BY <3>1, ZenonT(40)
      <4>2. \A e \in Devs : task'[e].step = task[e].step /\ task'[e].sum = task[e].sum
        BY <3>1
      <4>3. QED
        BY <2>1, <4>1, <4>2
    <3>3. Assets!IndexedIsStored' /\ SaveOK'
      BY <2>1, <3>1
    <3>4. PullOK'
      BY <2>1, <2>3, <3>1
    <3>5. QED
      BY <3>2, <3>3, <3>4
  <2>4. CASE task[d].step # "idle"
    <3>1. task' = [task EXCEPT ![d].touched = TRUE]
      BY <2>2, <2>4
    <3>2. Assets!TypeOK'
      <4>1. task' \in [ Devs -> [ step : Assets!Steps, sum : Contents \union {None},
                                 force : BOOLEAN, touched : BOOLEAN ] ]
        BY <3>1, ZenonT(40)
      <4>2. \A e \in Devs : task'[e].step = task[e].step /\ task'[e].sum = task[e].sum
        BY <3>1
      <4>3. QED
        BY <2>1, <4>1, <4>2
    <3>3. Assets!IndexedIsStored' /\ SaveOK'
      BY <2>1, <3>1
    <3>4. PullOK'
      BY <2>1, <2>4, <3>1
    <3>5. QED
      BY <3>2, <3>3, <3>4
  <2>5. QED
    BY <2>3, <2>4
<1>12. ASSUME NEW d \in Devs, NEW e \in Devs, Assets!Share(d, e) PROVE AssetsInv'
  BY <1>12 DEF Assets!Share
<1>13. ASSUME NEW k \in Contents, Assets!Lose(k) PROVE AssetsInv'
  BY <1>13 DEF Assets!Lose
<1>14. CASE UNCHANGED Assets!vars
  BY <1>14 DEF Assets!vars
<1>15. QED
  BY <1>1, <1>2, <1>3, <1>4, <1>5, <1>6, <1>7, <1>8, <1>9, <1>10, <1>11, <1>12,
     <1>13, <1>14
     DEF Assets!Next

(* The inductive invariant of AssetStore: its types, IndexedIsStored, and  *)
(* what commands under way know.                                           *)
THEOREM AssetsInvariance == Assets!Spec => []AssetsInv
BY AssetsInit, AssetsStep, PTL DEF Assets!Spec

(* Pull replaces a developer's file for a reason (AssetStore).             *)
THEOREM AssetsPullKeeps == Assets!Spec => Assets!UnforcedPullKeeps
<1> DEFINE PulledForAReason ==
      \A d \in Devs :
        /\ Assets!At(d, "pull.Write")
        /\ task'[d].step = "idle"
        /\ file[d] # None
        /\ file'[d] # file[d]
        => task[d].force \/ task[d].touched
<1>1. AssetsInv /\ [Assets!Next]_(Assets!vars) => [PulledForAReason]_(Assets!vars)
  BY DEF AssetsInv, PullOK, Assets!At
<1>2. QED
  BY <1>1, AssetsInvariance, PTL DEF Assets!Spec, Assets!UnforcedPullKeeps

-----------------------------------------------------------------------------
(* Promotion. *)

(* A release is merged with a commit of its own on main.                   *)
MergesOK == merged < main

(* What a command of demo has read and opened is there.                    *)
ReadOK ==
  \A o \in Operators :
    /\ job[o].step \in {"DemoSHA", "CreateBranch", "CommitChecks", "CreatePR",
                       "Comment", "MergeDemo"} => job[o].sha \in 1..main
    /\ job[o].step \in {"CommitChecks", "CreatePR", "Comment", "MergeDemo"}
         => demo # 0
    /\ job[o].step \in {"Comment", "MergeDemo"} => job[o].pr \in 1..pulls

(* An open pull request has something for demo.                            *)
OpenOK == open => demo # 0 /\ demo < main

(* A command of demo that goes on has seen the checks pass, or will have   *)
(* put its reason down before it merges.                                   *)
VouchOK ==
  \A o \in Operators :
    /\ job[o].step = "CreatePR" /\ job[o].allowed => job[o].sha \in passed
    /\ job[o].step = "MergeDemo"
         => job[o].sha \in passed \/ job[o].pr \in recorded

(* A prod about to dispatch has its release merged.                        *)
DispatchOK ==
  \A o \in Operators : Promote!At(o, "Dispatch") => merged >= job[o].pr

PromoteInv ==
  /\ Promote!TypeOK /\ Promote!SuccessIsPublished
  /\ MergesOK /\ ReadOK /\ OpenOK /\ VouchOK /\ DispatchOK

LEMMA PromoteInit == Promote!Init => PromoteInv
<1> SUFFICES ASSUME Promote!Init PROVE PromoteInv
  OBVIOUS
<1> USE ToolsAssumption DEF Promote!Init
<1>1. demoIsMain \in BOOLEAN
  OBVIOUS
<1>2. Promote!TypeOK
  <2>1. job \in [Operators -> [step : Promote!Steps, sha : 0..main, pr : Nat,
                              override : BOOLEAN, allowed : BOOLEAN]]
    BY DEF Promote!Idle, Promote!Steps
  <2>2. main \in 1..MaxMain /\ demo \in 0..main
    BY ToolsAssumption
  <2>3. /\ pulls \in 0..MaxPulls /\ open \in BOOLEAN
        /\ release \in {"none", "open", "merged"}
        /\ merged \in 0..MaxMain
    <3>1. open \in BOOLEAN
      OBVIOUS
    <3>2. pulls \in 0..MaxPulls /\ merged \in 0..MaxMain
      BY ToolsAssumption
    <3>3. QED
      BY <3>1, <3>2
  <2>4. /\ published \in 0..merged
        /\ passed \subseteq 1..main
        /\ recorded \subseteq 1..pulls
    BY ToolsAssumption
  <2>5. QED
    BY <1>1, <2>1, <2>2, <2>3, <2>4 DEF Promote!TypeOK
<1>3. Promote!SuccessIsPublished /\ DispatchOK /\ MergesOK /\ OpenOK
  BY DEF Promote!SuccessIsPublished, DispatchOK, MergesOK, OpenOK, Promote!Idle,
         Promote!At
<1>4. ReadOK /\ VouchOK
  BY DEF ReadOK, VouchOK, Promote!Idle
<1>5. QED
  BY <1>2, <1>3, <1>4 DEF PromoteInv

LEMMA PromoteTypes ==
  Promote!TypeOK /\ MergesOK /\ ReadOK /\ [Promote!Next]_(Promote!vars)
    => Promote!TypeOK'
<1> DEFINE JobSet == [step : Promote!Steps, sha : 0..main, pr : Nat,
                      override : BOOLEAN, allowed : BOOLEAN]
           Rest == /\ main \in 1..MaxMain /\ demo \in 0..main
                   /\ demoIsMain \in BOOLEAN
                   /\ pulls \in 0..MaxPulls /\ open \in BOOLEAN
                   /\ release \in {"none", "open", "merged"}
                   /\ merged \in 0..MaxMain /\ published \in 0..merged
                   /\ passed \subseteq 1..main /\ recorded \subseteq 1..pulls
<1> SUFFICES ASSUME Promote!TypeOK, MergesOK, ReadOK, [Promote!Next]_(Promote!vars)
             PROVE  Promote!TypeOK'
  OBVIOUS
<1> USE ToolsAssumption
        DEF Promote!TypeOK, MergesOK, ReadOK,
            Promote!Idle, Promote!At, Promote!Steps, Promote!Goto, Promote!End,
            Promote!branches, Promote!requests, Promote!releases, Promote!history
<1>0. Promote!Idle \in JobSet /\ main \in 0..main /\ job \in [Operators -> JobSet]
  <2>1. 0 \in 0..main /\ main \in 0..main /\ 0 \in Nat
    BY ToolsAssumption
  <2>2. QED
    BY <2>1 DEF Promote!TypeOK
<1>1. ASSUME NEW o \in Operators, Promote!MainSHA(o) PROVE Promote!TypeOK'
  <2>1. PICK override \in BOOLEAN :
          job' = [job EXCEPT ![o] = [Promote!Idle EXCEPT !.step = "DemoSHA", !.sha = main,
                                                 !.override = override]]
    BY <1>1 DEF Promote!MainSHA
  <2>2. [Promote!Idle EXCEPT !.step = "DemoSHA", !.sha = main,
                             !.override = override] \in JobSet
    BY ONLY <1>0 DEF Promote!Steps
  <2>3. job' \in [Operators -> JobSet]
    BY ONLY <2>1, <2>2, <1>0
  <2>4. main' = main /\ Rest'
    BY <1>1 DEF Promote!MainSHA
  <2>5. QED
    BY <2>3, <2>4
<1>2. ASSUME NEW o \in Operators, Promote!DemoSHA(o) PROVE Promote!TypeOK'
  <2>1. job' \in [Operators -> JobSet]
    <3>1. \/ job' = [job EXCEPT ![o].step = "CreateBranch"]
          \/ job' = [job EXCEPT ![o].step = "CommitChecks"]
          \/ job' = [job EXCEPT ![o] = Promote!Idle]
      BY <1>2 DEF Promote!DemoSHA
    <3>2. CASE job' = [job EXCEPT ![o] = Promote!Idle]
      BY ONLY <3>2, <1>0
    <3>3. QED
      BY ONLY <3>1, <3>2, <1>0 DEF Promote!Steps
  <2>2. main' = main /\ Rest'
    BY <1>2 DEF Promote!DemoSHA
  <2>3. QED
    BY <2>1, <2>2
<1>3. ASSUME NEW o \in Operators, Promote!CreateBranch(o) PROVE Promote!TypeOK'
  BY <1>3 DEF Promote!CreateBranch
<1>4. ASSUME NEW o \in Operators, Promote!CommitChecks(o) PROVE Promote!TypeOK'
  <2>1. job' \in [Operators -> JobSet]
    <3>1. PICK allowed \in BOOLEAN :
            job' = [job EXCEPT ![o].step = "CreatePR", ![o].allowed = allowed]
      BY <1>4 DEF Promote!CommitChecks
    <3>2. job \in [Operators -> JobSet]
      OBVIOUS
    <3>3. QED
      BY ONLY <3>1, <3>2 DEF Promote!Steps
  <2>2. main' = main /\ Rest'
    BY <1>4 DEF Promote!CommitChecks
  <2>3. QED
    BY <2>1, <2>2
<1>5. ASSUME NEW o \in Operators, Promote!CreatePR(o) PROVE Promote!TypeOK'
  BY <1>5 DEF Promote!CreatePR
<1>6. ASSUME NEW o \in Operators, Promote!Comment(o) PROVE Promote!TypeOK'
  BY <1>6 DEF Promote!Comment
<1>7. ASSUME NEW o \in Operators, Promote!MergeDemo(o) PROVE Promote!TypeOK'
  <2>1. job' \in [Operators -> JobSet]
    BY <1>7 DEF Promote!MergeDemo
  <2>2. /\ main' = main /\ demo' = main /\ demoIsMain' = FALSE /\ open' = FALSE
        /\ UNCHANGED <<pulls, release, merged, published, passed, recorded>>
    BY <1>7 DEF Promote!MergeDemo
  <2>3. Rest /\ main \in 0..main
    BY ToolsAssumption
  <2>4. Rest'
    BY ONLY <2>2, <2>3
  <2>5. QED
    BY <2>1, <2>2, <2>4
<1>8. ASSUME NEW o \in Operators, Promote!FindRelease(o) PROVE Promote!TypeOK'
  <2>1. job' \in [Operators -> JobSet]
    <3>1. job' = [job EXCEPT ![o].step = "MergeRelease", ![o].pr = merged + 1]
      BY <1>8 DEF Promote!FindRelease
    <3>2. job \in [Operators -> JobSet] /\ merged + 1 \in Nat
      BY ToolsAssumption
    <3>3. QED
      BY ONLY <3>1, <3>2 DEF Promote!Steps
  <2>2. main' = main /\ Rest'
    BY <1>8 DEF Promote!FindRelease
  <2>3. QED
    BY <2>1, <2>2
<1>9. ASSUME NEW o \in Operators, Promote!MergeRelease(o) PROVE Promote!TypeOK'
  BY <1>9 DEF Promote!MergeRelease
<1>10. ASSUME NEW o \in Operators, Promote!Dispatch(o) PROVE Promote!TypeOK'
  BY <1>10 DEF Promote!Dispatch
<1>11. ASSUME NEW o \in Operators, Promote!Done(o) PROVE Promote!TypeOK'
  BY <1>11 DEF Promote!Done
<1>12. ASSUME NEW o \in Operators, Promote!Fail(o) PROVE Promote!TypeOK'
  BY <1>12 DEF Promote!Fail
<1>13. CASE Promote!Push
  BY <1>13 DEF Promote!Push
<1>14. CASE Promote!BotOpens
  BY <1>14 DEF Promote!BotOpens
<1>15. CASE Promote!ClosePR
  BY <1>15 DEF Promote!ClosePR
<1>16. CASE UNCHANGED Promote!vars
  BY <1>16 DEF Promote!vars
<1>17. QED
  BY <1>1, <1>2, <1>3, <1>4, <1>5, <1>6, <1>7, <1>8, <1>9, <1>10, <1>11, <1>12,
     <1>13, <1>14, <1>15, <1>16
     DEF Promote!Next

LEMMA PromoteStep == PromoteInv /\ [Promote!Next]_(Promote!vars) => PromoteInv'
<1> DEFINE Rest == /\ Promote!SuccessIsPublished
                   /\ MergesOK /\ ReadOK /\ OpenOK /\ VouchOK /\ DispatchOK
<1> SUFFICES ASSUME PromoteInv, [Promote!Next]_(Promote!vars)
             PROVE  Rest'
  BY PromoteTypes DEF PromoteInv
<1> USE ToolsAssumption
        DEF PromoteInv, Promote!TypeOK, Promote!SuccessIsPublished,
            MergesOK, ReadOK, OpenOK, VouchOK, DispatchOK,
            Promote!Idle, Promote!At, Promote!Goto, Promote!End,
            Promote!branches, Promote!requests, Promote!releases, Promote!history
<1>1. ASSUME NEW o \in Operators, Promote!MainSHA(o) PROVE Rest'
  BY <1>1 DEF Promote!MainSHA
<1>2. ASSUME NEW o \in Operators, Promote!DemoSHA(o) PROVE Rest'
  BY <1>2 DEF Promote!DemoSHA
<1>3. ASSUME NEW o \in Operators, Promote!CreateBranch(o) PROVE Rest'
  BY <1>3 DEF Promote!CreateBranch
<1>4. ASSUME NEW o \in Operators, Promote!CommitChecks(o) PROVE Rest'
  BY <1>4 DEF Promote!CommitChecks
<1>5. ASSUME NEW o \in Operators, Promote!CreatePR(o) PROVE Rest'
  BY <1>5 DEF Promote!CreatePR
<1>6. ASSUME NEW o \in Operators, Promote!Comment(o) PROVE Rest'
  <2>1. /\ Promote!SuccessIsPublished' /\ MergesOK' /\ OpenOK' /\ DispatchOK'
        /\ ReadOK'
    BY <1>6 DEF Promote!Comment
  <2>2. /\ passed' = passed /\ recorded' = recorded \union {job[o].pr}
        /\ job' = [job EXCEPT ![o].step = "MergeDemo"]
    BY <1>6 DEF Promote!Comment
  <2>3. ASSUME NEW i \in Operators
        PROVE  /\ job'[i].step = "CreatePR" /\ job'[i].allowed
                    => job'[i].sha \in passed
               /\ job'[i].step = "MergeDemo"
                    => job'[i].sha \in passed
                         \/ job'[i].pr \in recorded \union {job[o].pr}
    <3>1. CASE i = o
      <4>1. job'[o] = [job[o] EXCEPT !.step = "MergeDemo"]
        BY ONLY <2>2, Promote!TypeOK DEF Promote!TypeOK
      <4>2. job[o].step = "Comment"
        BY <1>6 DEF Promote!Comment
      <4>3. QED
        BY ONLY <3>1, <2>2, <4>1, <4>2
    <3>2. CASE i # o
      BY <2>2, <3>2
    <3>3. QED
      BY <3>1, <3>2
  <2>4. QED
    BY <2>1, <2>2, <2>3
<1>7. ASSUME NEW o \in Operators, Promote!MergeDemo(o) PROVE Rest'
  BY <1>7 DEF Promote!MergeDemo
<1>8. ASSUME NEW o \in Operators, Promote!FindRelease(o) PROVE Rest'
  BY <1>8 DEF Promote!FindRelease
<1>9. ASSUME NEW o \in Operators, Promote!MergeRelease(o) PROVE Rest'
  BY <1>9 DEF Promote!MergeRelease
<1>10. ASSUME NEW o \in Operators, Promote!Dispatch(o) PROVE Rest'
  BY <1>10 DEF Promote!Dispatch
<1>11. ASSUME NEW o \in Operators, Promote!Done(o) PROVE Rest'
  BY <1>11 DEF Promote!Done
<1>12. ASSUME NEW o \in Operators, Promote!Fail(o) PROVE Rest'
  BY <1>12 DEF Promote!Fail
<1>13. CASE Promote!Push
  BY <1>13 DEF Promote!Push
<1>14. CASE Promote!BotOpens
  BY <1>14 DEF Promote!BotOpens
<1>15. CASE Promote!ClosePR
  BY <1>15 DEF Promote!ClosePR
<1>16. CASE UNCHANGED Promote!vars
  BY <1>16 DEF Promote!vars
<1>17. QED
  BY <1>1, <1>2, <1>3, <1>4, <1>5, <1>6, <1>7, <1>8, <1>9, <1>10, <1>11, <1>12,
     <1>13, <1>14, <1>15, <1>16
     DEF Promote!Next

(* What a prod that says it is done found is published, whoever merged it. *)
THEOREM PromoteInvariance == Promote!Spec => []PromoteInv
BY PromoteInit, PromoteStep, PTL DEF Promote!Spec

(* Demo moves forward only, in a command that read a commit whose checks   *)
(* it saw pass or put its reason on the pull request, and takes that       *)
(* commit along.                                                           *)
LEMMA PromoteMoves ==
  PromoteInv /\ [Promote!Next]_(Promote!vars)
    => [ demo' # demo /\ demo # 0 =>
           /\ demo' > demo
           /\ \E o \in Operators :
                /\ Promote!At(o, "MergeDemo")
                /\ job'[o].step = "idle"
                /\ job[o].sha <= demo'
                /\ job[o].sha \in passed \/ job[o].pr \in recorded ]_(Promote!vars)
<1> SUFFICES ASSUME PromoteInv, Promote!Next, demo' # demo, demo # 0
             PROVE  /\ demo' > demo
                    /\ \E o \in Operators :
                         /\ Promote!At(o, "MergeDemo")
                         /\ job'[o].step = "idle"
                         /\ job[o].sha <= demo'
                         /\ job[o].sha \in passed \/ job[o].pr \in recorded
  BY DEF Promote!vars
<1>1. PICK o \in Operators : Promote!MergeDemo(o)
  BY DEF Promote!Next, Promote!MainSHA, Promote!DemoSHA, Promote!CreateBranch,
         Promote!CommitChecks, Promote!CreatePR, Promote!Comment,
         Promote!FindRelease, Promote!MergeRelease, Promote!Dispatch,
         Promote!Done, Promote!Fail, Promote!Push, Promote!BotOpens,
         Promote!ClosePR, Promote!branches
<1>2. /\ Promote!At(o, "MergeDemo") /\ demo' = main /\ open
      /\ job' = [job EXCEPT ![o] = Promote!Idle]
  BY <1>1 DEF Promote!MergeDemo, Promote!End
<1>3. demo' > demo /\ job[o].sha <= demo'
  BY <1>2, ToolsAssumption
     DEF PromoteInv, OpenOK, ReadOK, Promote!TypeOK, Promote!At
<1>4. job[o].sha \in passed \/ job[o].pr \in recorded
  BY <1>2 DEF PromoteInv, VouchOK, Promote!At
<1>5. job'[o].step = "idle"
  BY <1>2 DEF PromoteInv, Promote!TypeOK, Promote!Idle
<1>6. QED
  BY <1>2, <1>3, <1>4, <1>5

(* demo moves only for somebody who saw its pull request allowed.          *)
THEOREM PromoteForAReason == Promote!Spec => Promote!DemoMovesVouched
BY PromoteInvariance, PromoteMoves, PTL DEF Promote!Spec, Promote!DemoMovesVouched

-----------------------------------------------------------------------------
(* WorkTree. *)

(* What a command cloned had a commit.                                     *)
AtOK ==
  \A t \in Terminals :
    cmd[t].step \in {"CopyTree", "copying", "cloning"} => cmd[t].at # 0

(* A .git with files missing is being written, or its writer was cut off.  *)
TornOK == git = "torn" => cut \/ Tree!Writers # {}

(* Where there was no .git, and since then nobody else did anything, main  *)
(* has no commits of its own.                                              *)
OwnOK ==
  /\ git = "none" => ~own["main"]
  /\ \A t \in Terminals :
       /\ cmd[t].step = "cloning" => ~own["main"]
       /\ cmd[t].step \in {"CloneStat", "Clone", "RepairDest", "TempClone",
                         "CopyTree", "copying"} /\ ~cmd[t].acted
            => ~own["main"]

(* A sync that goes on found the tree clean, then main checked out.        *)
SyncOK ==
  \A t \in Terminals :
    /\ cmd[t].step = "Branch" /\ ~cmd[t].acted => ~dirty
    /\ cmd[t].step = "MergeFFOnly" /\ ~cmd[t].acted => branch = "main" /\ ~dirty

TreeInv == Tree!TypeOK /\ AtOK /\ TornOK /\ OwnOK /\ SyncOK

LEMMA TreeInit == Tree!Init => TreeInv
<1> SUFFICES ASSUME Tree!Init PROVE TreeInv
  OBVIOUS
<1>1. cmd \in [Terminals -> [step : Tree!Steps, at : 0..origin, acted : BOOLEAN,
                             result : {"none", "ok", "skipped", "failed"}]]
  BY DEF Tree!Init, Tree!Idle, Tree!Steps
<1>2. \A t \in Terminals : cmd[t].step = "idle"
  BY DEF Tree!Init, Tree!Idle
<1>3. Tree!Writers = {}
  BY <1>2 DEF Tree!Writers
<1>4. Tree!TypeOK
  <2>1. /\ <<tree, git>> \in {<<"absent", "none">>} \union
                             ({"files"} \X {"none", "torn", "whole"})
        /\ branch \in Tree!Branches
        /\ ref \in [Tree!Branches -> 1..origin]
        /\ tracking \in 1..origin /\ origin \in Nat
    BY DEF Tree!Init, Tree!Branches
  <2>2. dirty \in BOOLEAN /\ cut \in BOOLEAN /\ own \in [Tree!Branches -> BOOLEAN]
    BY DEF Tree!Init
  <2>3. QED
    BY <1>1, <1>3, <2>1, <2>2 DEF Tree!TypeOK
<1>5. AtOK /\ TornOK /\ OwnOK /\ SyncOK
  BY <1>2 DEF Tree!Init, AtOK, TornOK, OwnOK, SyncOK, Tree!Branches
<1>6. QED
  BY <1>4, <1>5 DEF TreeInv

LEMMA TreeTypes ==
  Tree!TypeOK /\ AtOK /\ [Tree!Next]_(Tree!vars) => Tree!TypeOK' /\ AtOK'
<1> DEFINE JobSet == [step : Tree!Steps, at : 0..origin, acted : BOOLEAN,
                      result : {"none", "ok", "skipped", "failed"}]
           Jobs == cmd \in [Terminals -> JobSet]
           Disk == /\ <<tree, git>> \in {<<"absent", "none">>} \union
                                        ({"files"} \X {"none", "torn", "whole"})
                   /\ Tree!Writers # {} => git = "torn"
                   /\ dirty \in BOOLEAN
           Refs == /\ branch \in Tree!Branches
                   /\ ref \in [Tree!Branches -> 1..origin]
                   /\ own \in [Tree!Branches -> BOOLEAN]
                   /\ tracking \in 1..origin
                   /\ cut \in BOOLEAN
                   /\ origin \in Nat
<1> SUFFICES ASSUME Tree!TypeOK, AtOK, [Tree!Next]_(Tree!vars)
             PROVE  Tree!TypeOK' /\ AtOK'
  OBVIOUS
<1>0. Jobs /\ Disk /\ Refs
  BY DEF Tree!TypeOK
<1>Q. Jobs' /\ Disk' /\ Refs' => Tree!TypeOK'
  BY DEF Tree!TypeOK
<1>J. ASSUME NEW t \in Terminals
      PROVE  /\ \A s \in Tree!Steps :
                  /\ [cmd EXCEPT ![t].step = s] \in [Terminals -> JobSet]
                  /\ [cmd EXCEPT ![t] = [Tree!Idle EXCEPT !.step = s]]
                       \in [Terminals -> JobSet]
             /\ \A r \in {"none", "ok", "skipped", "failed"} :
                  [cmd EXCEPT ![t] = [Tree!Idle EXCEPT !.result = r]]
                    \in [Terminals -> JobSet]
  <2>1. cmd \in [Terminals -> JobSet]
    BY <1>0
  <2>2. 0 \in 0..origin
    BY <1>0
  <2>3. Tree!Idle \in JobSet
    BY <2>2 DEF Tree!Idle, Tree!Steps
  <2>4. QED
    BY ONLY <2>1, <2>3 DEF Tree!Steps
<1> USE DEF Tree!At, Tree!Steps, Tree!Goto, Tree!End, Tree!Branches,
            Tree!Writers, Tree!disk, Tree!refs, AtOK

<1>A. [t \in Terminals |-> [cmd[t] EXCEPT !.acted = ~(cmd[t].step = "idle")]]
        \in [Terminals -> JobSet]
  <2>1. ASSUME NEW t \in Terminals
        PROVE  [cmd[t] EXCEPT !.acted = ~(cmd[t].step = "idle")] \in JobSet
    <3>1. cmd[t] \in JobSet
      BY <1>0
    <3>2. \A b \in BOOLEAN : [cmd[t] EXCEPT !.acted = b] \in JobSet
      BY ONLY <3>1
    <3>3. CASE cmd[t].step = "idle"
      <4>1. [cmd[t] EXCEPT !.acted = ~(cmd[t].step = "idle")]
              = [cmd[t] EXCEPT !.acted = FALSE]
        BY <3>3
      <4>2. QED
        BY <4>1, <3>2
    <3>4. CASE cmd[t].step # "idle"
      <4>1. [cmd[t] EXCEPT !.acted = ~(cmd[t].step = "idle")]
              = [cmd[t] EXCEPT !.acted = TRUE]
        BY <3>4
      <4>2. QED
        BY <4>1, <3>2
    <3>5. QED
      BY <3>3, <3>4
  <2>2. QED
    BY <2>1
<1>1. ASSUME NEW t \in Terminals, Tree!SyncStat(t) PROVE Tree!TypeOK' /\ AtOK'
  <2>1. Jobs'
    <3>1. origin' = origin
      BY <1>1 DEF Tree!SyncStat
    <3>2. \/ cmd' = [cmd EXCEPT ![t] = [Tree!Idle EXCEPT !.result = "failed"]]
          \/ cmd' = [cmd EXCEPT ![t] = [Tree!Idle EXCEPT !.step = "IsWorkTree"]]
      BY <1>1 DEF Tree!SyncStat
    <3>3. [cmd EXCEPT ![t] = [Tree!Idle EXCEPT !.result = "failed"]] \in [Terminals -> JobSet]
      BY <1>J
    <3>4. [cmd EXCEPT ![t] = [Tree!Idle EXCEPT !.step = "IsWorkTree"]] \in [Terminals -> JobSet]
      BY <1>J
    <3>5. QED
      BY <3>1, <3>2, <3>3, <3>4
  <2>2. Disk'
    BY <1>0, <1>1 DEF Tree!SyncStat, Tree!Idle
  <2>3. Refs'
    BY <1>0, <1>1 DEF Tree!SyncStat
  <2>4. AtOK'
    BY <1>0, <1>1 DEF Tree!SyncStat, Tree!Idle
  <2>5. QED
    BY <2>1, <2>2, <2>3, <2>4, <1>Q
<1>2. ASSUME NEW t \in Terminals, Tree!IsWorkTree(t) PROVE Tree!TypeOK' /\ AtOK'
  <2>1. Jobs'
    <3>1. origin' = origin
      BY <1>2 DEF Tree!IsWorkTree
    <3>2. \/ cmd' = [cmd EXCEPT ![t] = [Tree!Idle EXCEPT !.result = "failed"]]
          \/ cmd' = [cmd EXCEPT ![t].step = "Fetch"]
      BY <1>2 DEF Tree!IsWorkTree
    <3>3. [cmd EXCEPT ![t] = [Tree!Idle EXCEPT !.result = "failed"]] \in [Terminals -> JobSet]
      BY <1>J
    <3>4. [cmd EXCEPT ![t].step = "Fetch"] \in [Terminals -> JobSet]
      BY <1>J
    <3>5. QED
      BY <3>1, <3>2, <3>3, <3>4
  <2>2. Disk'
    BY <1>0, <1>2 DEF Tree!IsWorkTree, Tree!Idle
  <2>3. Refs'
    BY <1>0, <1>2 DEF Tree!IsWorkTree
  <2>4. AtOK'
    BY <1>0, <1>2 DEF Tree!IsWorkTree, Tree!Idle
  <2>5. QED
    BY <2>1, <2>2, <2>3, <2>4, <1>Q
<1>3. ASSUME NEW t \in Terminals, Tree!Fetch(t) PROVE Tree!TypeOK' /\ AtOK'
  <2>1. Jobs'
    BY <1>0, <1>3 DEF Tree!Fetch
  <2>2. Disk'
    BY <1>0, <1>3 DEF Tree!Fetch, Tree!Idle
  <2>3. Refs'
    BY <1>0, <1>3 DEF Tree!Fetch
  <2>4. AtOK'
    BY <1>0, <1>3 DEF Tree!Fetch, Tree!Idle
  <2>5. QED
    BY <2>1, <2>2, <2>3, <2>4, <1>Q
<1>4. ASSUME NEW t \in Terminals, Tree!Status(t) PROVE Tree!TypeOK' /\ AtOK'
  <2>1. Jobs'
    <3>1. origin' = origin
      BY <1>4 DEF Tree!Status
    <3>2. \/ cmd' = [cmd EXCEPT ![t] = [Tree!Idle EXCEPT !.result = "skipped"]]
          \/ cmd' = [cmd EXCEPT ![t].step = "Branch", ![t].acted = FALSE]
      BY <1>4 DEF Tree!Status
    <3>3. origin \in 0..origin /\ cmd \in [Terminals -> JobSet]
      BY <1>0
    <3>4. [cmd EXCEPT ![t].step = "Branch", ![t].acted = FALSE] \in [Terminals -> JobSet]
      BY ONLY <3>3 DEF Tree!Steps
    <3>5. [cmd EXCEPT ![t] = [Tree!Idle EXCEPT !.result = "skipped"]] \in [Terminals -> JobSet]
      BY <1>J
    <3>6. QED
      BY <3>1, <3>2, <3>4, <3>5
  <2>2. Disk'
    BY <1>0, <1>4 DEF Tree!Status, Tree!Idle
  <2>3. Refs'
    BY <1>0, <1>4 DEF Tree!Status
  <2>4. AtOK'
    BY <1>0, <1>4 DEF Tree!Status, Tree!Idle
  <2>5. QED
    BY <2>1, <2>2, <2>3, <2>4, <1>Q
<1>5. ASSUME NEW t \in Terminals, Tree!Branch(t) PROVE Tree!TypeOK' /\ AtOK'
  <2>1. Jobs'
    <3>1. origin' = origin
      BY <1>5 DEF Tree!Branch
    <3>2. \/ cmd' = [cmd EXCEPT ![t] = [Tree!Idle EXCEPT !.result = "skipped"]]
          \/ cmd' = [cmd EXCEPT ![t].step = "MergeFFOnly"]
      BY <1>5 DEF Tree!Branch
    <3>3. [cmd EXCEPT ![t] = [Tree!Idle EXCEPT !.result = "skipped"]] \in [Terminals -> JobSet]
      BY <1>J
    <3>4. [cmd EXCEPT ![t].step = "MergeFFOnly"] \in [Terminals -> JobSet]
      BY <1>J
    <3>5. QED
      BY <3>1, <3>2, <3>3, <3>4
  <2>2. Disk'
    BY <1>0, <1>5 DEF Tree!Branch, Tree!Idle
  <2>3. Refs'
    BY <1>0, <1>5 DEF Tree!Branch
  <2>4. AtOK'
    BY <1>0, <1>5 DEF Tree!Branch, Tree!Idle
  <2>5. QED
    BY <2>1, <2>2, <2>3, <2>4, <1>Q
<1>6. ASSUME NEW t \in Terminals, Tree!MergeFFOnly(t) PROVE Tree!TypeOK' /\ AtOK'
  <2>1. Jobs'
    <3>1. origin' = origin
      BY <1>6 DEF Tree!MergeFFOnly
    <3>2. \/ cmd' = [cmd EXCEPT ![t] = [Tree!Idle EXCEPT !.result = "ok"]]
          \/ cmd' = [cmd EXCEPT ![t] = [Tree!Idle EXCEPT !.result = "skipped"]]
      BY <1>6 DEF Tree!MergeFFOnly
    <3>3. [cmd EXCEPT ![t] = [Tree!Idle EXCEPT !.result = "ok"]] \in [Terminals -> JobSet]
      BY <1>J
    <3>4. [cmd EXCEPT ![t] = [Tree!Idle EXCEPT !.result = "skipped"]] \in [Terminals -> JobSet]
      BY <1>J
    <3>5. QED
      BY <3>1, <3>2, <3>3, <3>4
  <2>2. Disk'
    BY <1>0, <1>6 DEF Tree!MergeFFOnly, Tree!Idle
  <2>3. Refs'
    BY <1>0, <1>6 DEF Tree!MergeFFOnly
  <2>4. AtOK'
    BY <1>0, <1>6 DEF Tree!MergeFFOnly, Tree!Idle
  <2>5. QED
    BY <2>1, <2>2, <2>3, <2>4, <1>Q
<1>7. ASSUME NEW t \in Terminals, Tree!CloneStat(t) PROVE Tree!TypeOK' /\ AtOK'
  <2>1. Jobs'
    <3>1. origin' = origin
      BY <1>7 DEF Tree!CloneStat
    <3>2. \/ cmd' = [cmd EXCEPT ![t] = [Tree!Idle EXCEPT !.step = "Clone"]]
          \/ cmd' = [cmd EXCEPT ![t] = [Tree!Idle EXCEPT !.result = "ok"]]
          \/ cmd' = [cmd EXCEPT ![t] = [Tree!Idle EXCEPT !.result = "failed"]]
      BY <1>7 DEF Tree!CloneStat
    <3>3. [cmd EXCEPT ![t] = [Tree!Idle EXCEPT !.step = "Clone"]] \in [Terminals -> JobSet]
      BY <1>J
    <3>4. [cmd EXCEPT ![t] = [Tree!Idle EXCEPT !.result = "ok"]] \in [Terminals -> JobSet]
      BY <1>J
    <3>5. [cmd EXCEPT ![t] = [Tree!Idle EXCEPT !.result = "failed"]] \in [Terminals -> JobSet]
      BY <1>J
    <3>6. QED
      BY <3>1, <3>2, <3>3, <3>4, <3>5
  <2>2. Disk'
    BY <1>0, <1>7 DEF Tree!CloneStat, Tree!Idle
  <2>3. Refs'
    BY <1>0, <1>7 DEF Tree!CloneStat
  <2>4. AtOK'
    BY <1>0, <1>7 DEF Tree!CloneStat, Tree!Idle
  <2>5. QED
    BY <2>1, <2>2, <2>3, <2>4, <1>Q
<1>8. ASSUME NEW t \in Terminals, Tree!Clone(t) PROVE Tree!TypeOK' /\ AtOK'
  <2>1. Jobs'
    <3>1. origin' = origin
      BY <1>8 DEF Tree!Clone
    <3>2. cmd' = [cmd EXCEPT ![t].step = "cloning", ![t].at = origin]
      BY <1>8 DEF Tree!Clone
    <3>3. origin \in 0..origin /\ cmd \in [Terminals -> JobSet]
      BY <1>0
    <3>4. [cmd EXCEPT ![t].step = "cloning", ![t].at = origin] \in [Terminals -> JobSet]
      BY ONLY <3>3 DEF Tree!Steps
    <3>5. QED
      BY <3>1, <3>2, <3>4
  <2>2. Disk'
    BY <1>0, <1>8 DEF Tree!Clone, Tree!Idle
  <2>3. Refs'
    BY <1>0, <1>8 DEF Tree!Clone
  <2>4. AtOK'
    BY <1>0, <1>8 DEF Tree!Clone, Tree!Idle
  <2>5. QED
    BY <2>1, <2>2, <2>3, <2>4, <1>Q
<1>9. ASSUME NEW t \in Terminals, Tree!CloneEnds(t) PROVE Tree!TypeOK' /\ AtOK'
  <2>1. Jobs'
    <3>1. /\ origin' = origin
          /\ cmd' = [u \in Terminals |-> IF u = t THEN [Tree!Idle EXCEPT !.result = "ok"]
                                          ELSE [cmd[u] EXCEPT !.acted = TRUE]]
      BY <1>9 DEF Tree!CloneEnds, Tree!Attach
    <3>2. Tree!Idle \in JobSet /\ cmd \in [Terminals -> JobSet]
      BY <1>0 DEF Tree!Idle
    <3>3. /\ [Tree!Idle EXCEPT !.result = "ok"] \in JobSet
          /\ \A u \in Terminals : [cmd[u] EXCEPT !.acted = TRUE] \in JobSet
      BY ONLY <3>2
    <3>4. QED
      BY ONLY <3>1, <3>3
  <2>2. Disk'
    BY <1>0, <1>9 DEF Tree!CloneEnds, Tree!Attach, Tree!Idle
  <2>3. Refs'
    BY <1>0, <1>9 DEF Tree!CloneEnds, Tree!Attach
  <2>4. AtOK'
    BY <1>0, <1>9 DEF Tree!CloneEnds, Tree!Attach, Tree!Idle
  <2>5. QED
    BY <2>1, <2>2, <2>3, <2>4, <1>Q
<1>10. ASSUME NEW t \in Terminals, Tree!CloneFails(t) PROVE Tree!TypeOK' /\ AtOK'
  <2>1. Jobs'
    <3>1. origin' = origin
      BY <1>10 DEF Tree!CloneFails
    <3>2. cmd' = [cmd EXCEPT ![t] = [Tree!Idle EXCEPT !.result = "failed"]]
      BY <1>10 DEF Tree!CloneFails
    <3>3. QED
      BY <1>J, <3>1, <3>2
  <2>2. Disk'
    BY <1>0, <1>10 DEF Tree!CloneFails, Tree!Idle
  <2>3. Refs'
    BY <1>0, <1>10 DEF Tree!CloneFails
  <2>4. AtOK'
    BY <1>0, <1>10 DEF Tree!CloneFails, Tree!Idle
  <2>5. QED
    BY <2>1, <2>2, <2>3, <2>4, <1>Q
<1>11. ASSUME NEW t \in Terminals, Tree!RepairStat(t) PROVE Tree!TypeOK' /\ AtOK'
  <2>1. Jobs'
    <3>1. origin' = origin
      BY <1>11 DEF Tree!RepairStat
    <3>2. \/ cmd' = [cmd EXCEPT ![t] = [Tree!Idle EXCEPT !.result = "ok"]]
          \/ cmd' = [cmd EXCEPT ![t] = [Tree!Idle EXCEPT !.step = "RepairDest"]]
      BY <1>11 DEF Tree!RepairStat
    <3>3. [cmd EXCEPT ![t] = [Tree!Idle EXCEPT !.result = "ok"]] \in [Terminals -> JobSet]
      BY <1>J
    <3>4. [cmd EXCEPT ![t] = [Tree!Idle EXCEPT !.step = "RepairDest"]] \in [Terminals -> JobSet]
      BY <1>J
    <3>5. QED
      BY <3>1, <3>2, <3>3, <3>4
  <2>2. Disk'
    BY <1>0, <1>11 DEF Tree!RepairStat, Tree!Idle
  <2>3. Refs'
    BY <1>0, <1>11 DEF Tree!RepairStat
  <2>4. AtOK'
    BY <1>0, <1>11 DEF Tree!RepairStat, Tree!Idle
  <2>5. QED
    BY <2>1, <2>2, <2>3, <2>4, <1>Q
<1>12. ASSUME NEW t \in Terminals, Tree!RepairDest(t) PROVE Tree!TypeOK' /\ AtOK'
  <2>1. Jobs'
    BY <1>0, <1>12 DEF Tree!RepairDest
  <2>2. Disk'
    BY <1>0, <1>12 DEF Tree!RepairDest, Tree!Idle
  <2>3. Refs'
    BY <1>0, <1>12 DEF Tree!RepairDest
  <2>4. AtOK'
    BY <1>0, <1>12 DEF Tree!RepairDest, Tree!Idle
  <2>5. QED
    BY <2>1, <2>2, <2>3, <2>4, <1>Q
<1>13. ASSUME NEW t \in Terminals, Tree!TempClone(t) PROVE Tree!TypeOK' /\ AtOK'
  <2>1. Jobs'
    <3>1. origin' = origin
      BY <1>13 DEF Tree!TempClone
    <3>2. cmd' = [cmd EXCEPT ![t].step = "CopyTree", ![t].at = origin]
      BY <1>13 DEF Tree!TempClone
    <3>3. origin \in 0..origin /\ cmd \in [Terminals -> JobSet]
      BY <1>0
    <3>4. [cmd EXCEPT ![t].step = "CopyTree", ![t].at = origin] \in [Terminals -> JobSet]
      BY ONLY <3>3 DEF Tree!Steps
    <3>5. QED
      BY <3>1, <3>2, <3>4
  <2>2. Disk'
    BY <1>0, <1>13 DEF Tree!TempClone, Tree!Idle
  <2>3. Refs'
    BY <1>0, <1>13 DEF Tree!TempClone
  <2>4. AtOK'
    BY <1>0, <1>13 DEF Tree!TempClone, Tree!Idle
  <2>5. QED
    BY <2>1, <2>2, <2>3, <2>4, <1>Q
<1>14. ASSUME NEW t \in Terminals, Tree!CopyBegins(t) PROVE Tree!TypeOK' /\ AtOK'
  <2>1. Jobs'
    BY <1>0, <1>14 DEF Tree!CopyBegins
  <2>2. Disk'
    BY <1>0, <1>14 DEF Tree!CopyBegins, Tree!Idle
  <2>3. Refs'
    BY <1>0, <1>14 DEF Tree!CopyBegins
  <2>4. AtOK'
    BY <1>0, <1>14 DEF Tree!CopyBegins, Tree!Idle
  <2>5. QED
    BY <2>1, <2>2, <2>3, <2>4, <1>Q
<1>15. ASSUME NEW t \in Terminals, Tree!CopyEnds(t) PROVE Tree!TypeOK' /\ AtOK'
  <2>1. Jobs'
    <3>1. /\ origin' = origin
          /\ cmd' = [u \in Terminals |-> IF u = t THEN [Tree!Idle EXCEPT !.result = "ok"]
                                          ELSE [cmd[u] EXCEPT !.acted = TRUE]]
      BY <1>15 DEF Tree!CopyEnds, Tree!Attach
    <3>2. Tree!Idle \in JobSet /\ cmd \in [Terminals -> JobSet]
      BY <1>0 DEF Tree!Idle
    <3>3. /\ [Tree!Idle EXCEPT !.result = "ok"] \in JobSet
          /\ \A u \in Terminals : [cmd[u] EXCEPT !.acted = TRUE] \in JobSet
      BY ONLY <3>2
    <3>4. QED
      BY ONLY <3>1, <3>3
  <2>2. Disk'
    BY <1>0, <1>15 DEF Tree!CopyEnds, Tree!Attach, Tree!Idle
  <2>3. Refs'
    BY <1>0, <1>15 DEF Tree!CopyEnds, Tree!Attach
  <2>4. AtOK'
    BY <1>0, <1>15 DEF Tree!CopyEnds, Tree!Attach, Tree!Idle
  <2>5. QED
    BY <2>1, <2>2, <2>3, <2>4, <1>Q
<1>16. ASSUME NEW t \in Terminals, Tree!Fail(t) PROVE Tree!TypeOK' /\ AtOK'
  <2>1. Jobs'
    <3>1. origin' = origin
      BY <1>16 DEF Tree!Fail
    <3>2. cmd' = [cmd EXCEPT ![t] = [Tree!Idle EXCEPT !.result = "failed"]]
      BY <1>16 DEF Tree!Fail
    <3>3. QED
      BY <1>J, <3>1, <3>2
  <2>2. Disk'
    BY <1>0, <1>16 DEF Tree!Fail, Tree!Idle
  <2>3. Refs'
    BY <1>0, <1>16 DEF Tree!Fail
  <2>4. AtOK'
    BY <1>0, <1>16 DEF Tree!Fail, Tree!Idle
  <2>5. QED
    BY <2>1, <2>2, <2>3, <2>4, <1>Q
<1>17. CASE Tree!Edit
  <2>1. Jobs'
    <3>1. /\ origin' = origin
          /\ cmd' = [t \in Terminals |-> [cmd[t] EXCEPT !.acted = ~(cmd[t].step = "idle")]]
      BY <1>17 DEF Tree!Edit, Tree!Acted
    <3>2. QED
      BY <1>A, <3>1
  <2>2. Disk'
    BY <1>0, <1>17 DEF Tree!Edit, Tree!Acted, Tree!Idle
  <2>3. Refs'
    BY <1>0, <1>17 DEF Tree!Edit, Tree!Acted
  <2>4. AtOK'
    BY <1>0, <1>17 DEF Tree!Edit, Tree!Acted, Tree!Idle
  <2>5. QED
    BY <2>1, <2>2, <2>3, <2>4, <1>Q
<1>18. CASE Tree!Commit
  <2>1. Jobs'
    <3>1. /\ origin' = origin
          /\ cmd' = [t \in Terminals |-> [cmd[t] EXCEPT !.acted = ~(cmd[t].step = "idle")]]
      BY <1>18 DEF Tree!Commit, Tree!Acted
    <3>2. QED
      BY <1>A, <3>1
  <2>2. Disk'
    BY <1>0, <1>18 DEF Tree!Commit, Tree!Acted, Tree!Idle
  <2>3. Refs'
    BY <1>0, <1>18 DEF Tree!Commit, Tree!Acted
  <2>4. AtOK'
    BY <1>0, <1>18 DEF Tree!Commit, Tree!Acted, Tree!Idle
  <2>5. QED
    BY <2>1, <2>2, <2>3, <2>4, <1>Q
<1>19. CASE Tree!Switch
  <2>1. Jobs'
    <3>1. /\ origin' = origin
          /\ cmd' = [t \in Terminals |-> [cmd[t] EXCEPT !.acted = ~(cmd[t].step = "idle")]]
      BY <1>19 DEF Tree!Switch, Tree!Acted
    <3>2. QED
      BY <1>A, <3>1
  <2>2. Disk'
    BY <1>0, <1>19 DEF Tree!Switch, Tree!Acted, Tree!Idle
  <2>3. Refs'
    BY <1>0, <1>19 DEF Tree!Switch, Tree!Acted
  <2>4. AtOK'
    BY <1>0, <1>19 DEF Tree!Switch, Tree!Acted, Tree!Idle
  <2>5. QED
    BY <2>1, <2>2, <2>3, <2>4, <1>Q
<1>20. CASE Tree!RemoveGit
  <2>1. Jobs'
    <3>1. /\ origin' = origin
          /\ cmd' = [t \in Terminals |-> [cmd[t] EXCEPT !.acted = ~(cmd[t].step = "idle")]]
      BY <1>20 DEF Tree!RemoveGit, Tree!Acted
    <3>2. QED
      BY <1>A, <3>1
  <2>2. Disk'
    BY <1>0, <1>20 DEF Tree!RemoveGit, Tree!Acted, Tree!Idle
  <2>3. Refs'
    BY <1>0, <1>20 DEF Tree!RemoveGit, Tree!Acted
  <2>4. AtOK'
    BY <1>0, <1>20 DEF Tree!RemoveGit, Tree!Acted, Tree!Idle
  <2>5. QED
    BY <2>1, <2>2, <2>3, <2>4, <1>Q
<1>21. CASE Tree!Upstream
  <2>1. Jobs'
    BY <1>0, <1>21 DEF Tree!Upstream
  <2>2. Disk'
    BY <1>0, <1>21 DEF Tree!Upstream, Tree!Idle
  <2>3. Refs'
    BY <1>0, <1>21 DEF Tree!Upstream
  <2>4. AtOK'
    BY <1>0, <1>21 DEF Tree!Upstream, Tree!Idle
  <2>5. QED
    BY <2>1, <2>2, <2>3, <2>4, <1>Q
<1>22. CASE UNCHANGED Tree!vars
  BY <1>22 DEF Tree!vars, Tree!TypeOK
<1>23. QED
  BY <1>1, <1>2, <1>3, <1>4, <1>5, <1>6, <1>7, <1>8, <1>9, <1>10, <1>11, <1>12, <1>13, <1>14, <1>15, <1>16, <1>17, <1>18, <1>19, <1>20, <1>21, <1>22 DEF Tree!Next

LEMMA TreeStep == TreeInv /\ [Tree!Next]_(Tree!vars) => TreeInv'
<1> DEFINE Rest == TornOK /\ OwnOK /\ SyncOK
<1> SUFFICES ASSUME TreeInv, [Tree!Next]_(Tree!vars)
             PROVE  Rest'
  BY TreeTypes DEF TreeInv
<1>0. /\ <<tree, git>> \in {<<"absent", "none">>} \union
                           ({"files"} \X {"none", "torn", "whole"})
      /\ Tree!Writers # {} => git = "torn"
      /\ TornOK /\ OwnOK /\ SyncOK
  BY DEF TreeInv, Tree!TypeOK
<1>T. /\ cmd \in [Terminals -> [step : Tree!Steps, at : 0..origin, acted : BOOLEAN,
                                result : {"none", "ok", "skipped", "failed"}]]
      /\ own \in [Tree!Branches -> BOOLEAN] /\ branch \in Tree!Branches
      /\ dirty \in BOOLEAN /\ cut \in BOOLEAN
  BY DEF TreeInv, Tree!TypeOK
<1> USE DEF Tree!Idle, Tree!At, Tree!Goto, Tree!End, Tree!Branches,
            Tree!Writers, Tree!disk, Tree!refs, TornOK, OwnOK, SyncOK
<1>1. ASSUME NEW t \in Terminals, Tree!SyncStat(t) PROVE Rest'
  <2>1. TornOK'
    BY <1>0, <1>T, <1>1 DEF Tree!SyncStat
  <2>2. OwnOK'
    BY <1>0, <1>T, <1>1 DEF Tree!SyncStat
  <2>3. SyncOK'
    BY <1>0, <1>T, <1>1 DEF Tree!SyncStat
  <2>4. QED
    BY <2>1, <2>2, <2>3
<1>2. ASSUME NEW t \in Terminals, Tree!IsWorkTree(t) PROVE Rest'
  <2>1. TornOK'
    BY <1>0, <1>T, <1>2 DEF Tree!IsWorkTree
  <2>2. OwnOK'
    BY <1>0, <1>T, <1>2 DEF Tree!IsWorkTree
  <2>3. SyncOK'
    BY <1>0, <1>T, <1>2 DEF Tree!IsWorkTree
  <2>4. QED
    BY <2>1, <2>2, <2>3
<1>3. ASSUME NEW t \in Terminals, Tree!Fetch(t) PROVE Rest'
  <2>1. TornOK'
    BY <1>0, <1>T, <1>3 DEF Tree!Fetch
  <2>2. OwnOK'
    BY <1>0, <1>T, <1>3 DEF Tree!Fetch
  <2>3. SyncOK'
    BY <1>0, <1>T, <1>3 DEF Tree!Fetch
  <2>4. QED
    BY <2>1, <2>2, <2>3
<1>4. ASSUME NEW t \in Terminals, Tree!Status(t) PROVE Rest'
  <2>1. TornOK'
    BY <1>0, <1>T, <1>4 DEF Tree!Status
  <2>2. OwnOK'
    BY <1>0, <1>T, <1>4 DEF Tree!Status
  <2>3. SyncOK'
    BY <1>0, <1>T, <1>4 DEF Tree!Status
  <2>4. QED
    BY <2>1, <2>2, <2>3
<1>5. ASSUME NEW t \in Terminals, Tree!Branch(t) PROVE Rest'
  <2>1. TornOK'
    BY <1>0, <1>T, <1>5 DEF Tree!Branch
  <2>2. OwnOK'
    BY <1>0, <1>T, <1>5 DEF Tree!Branch
  <2>3. SyncOK'
    BY <1>0, <1>T, <1>5 DEF Tree!Branch
  <2>4. QED
    BY <2>1, <2>2, <2>3
<1>6. ASSUME NEW t \in Terminals, Tree!MergeFFOnly(t) PROVE Rest'
  <2>1. TornOK'
    BY <1>0, <1>T, <1>6 DEF Tree!MergeFFOnly
  <2>2. OwnOK'
    BY <1>0, <1>T, <1>6 DEF Tree!MergeFFOnly
  <2>3. SyncOK'
    BY <1>0, <1>T, <1>6 DEF Tree!MergeFFOnly
  <2>4. QED
    BY <2>1, <2>2, <2>3
<1>7. ASSUME NEW t \in Terminals, Tree!CloneStat(t) PROVE Rest'
  <2>1. TornOK'
    BY <1>0, <1>T, <1>7 DEF Tree!CloneStat
  <2>2. OwnOK'
    BY <1>0, <1>T, <1>7 DEF Tree!CloneStat
  <2>3. SyncOK'
    BY <1>0, <1>T, <1>7 DEF Tree!CloneStat
  <2>4. QED
    BY <2>1, <2>2, <2>3
<1>8. ASSUME NEW t \in Terminals, Tree!Clone(t) PROVE Rest'
  <2>1. TornOK'
    BY <1>0, <1>T, <1>8 DEF Tree!Clone
  <2>2. OwnOK'
    BY <1>0, <1>T, <1>8 DEF Tree!Clone
  <2>3. SyncOK'
    BY <1>0, <1>T, <1>8 DEF Tree!Clone
  <2>4. QED
    BY <2>1, <2>2, <2>3
<1>9. ASSUME NEW t \in Terminals, Tree!CloneEnds(t) PROVE Rest'
  <2>1. TornOK'
    BY <1>0, <1>T, <1>9 DEF Tree!CloneEnds, Tree!Attach
  <2>2. OwnOK'
    BY <1>0, <1>T, <1>9 DEF Tree!CloneEnds, Tree!Attach
  <2>3. SyncOK'
    BY <1>0, <1>T, <1>9 DEF Tree!CloneEnds, Tree!Attach
  <2>4. QED
    BY <2>1, <2>2, <2>3
<1>10. ASSUME NEW t \in Terminals, Tree!CloneFails(t) PROVE Rest'
  <2>1. TornOK'
    BY <1>0, <1>T, <1>10 DEF Tree!CloneFails
  <2>2. OwnOK'
    BY <1>0, <1>T, <1>10 DEF Tree!CloneFails
  <2>3. SyncOK'
    BY <1>0, <1>T, <1>10 DEF Tree!CloneFails
  <2>4. QED
    BY <2>1, <2>2, <2>3
<1>11. ASSUME NEW t \in Terminals, Tree!RepairStat(t) PROVE Rest'
  <2>1. TornOK'
    BY <1>0, <1>T, <1>11 DEF Tree!RepairStat
  <2>2. OwnOK'
    BY <1>0, <1>T, <1>11 DEF Tree!RepairStat
  <2>3. SyncOK'
    BY <1>0, <1>T, <1>11 DEF Tree!RepairStat
  <2>4. QED
    BY <2>1, <2>2, <2>3
<1>12. ASSUME NEW t \in Terminals, Tree!RepairDest(t) PROVE Rest'
  <2>1. TornOK'
    BY <1>0, <1>T, <1>12 DEF Tree!RepairDest
  <2>2. OwnOK'
    BY <1>0, <1>T, <1>12 DEF Tree!RepairDest
  <2>3. SyncOK'
    BY <1>0, <1>T, <1>12 DEF Tree!RepairDest
  <2>4. QED
    BY <2>1, <2>2, <2>3
<1>13. ASSUME NEW t \in Terminals, Tree!TempClone(t) PROVE Rest'
  <2>1. TornOK'
    BY <1>0, <1>T, <1>13 DEF Tree!TempClone
  <2>2. OwnOK'
    BY <1>0, <1>T, <1>13 DEF Tree!TempClone
  <2>3. SyncOK'
    BY <1>0, <1>T, <1>13 DEF Tree!TempClone
  <2>4. QED
    BY <2>1, <2>2, <2>3
<1>14. ASSUME NEW t \in Terminals, Tree!CopyBegins(t) PROVE Rest'
  <2>1. TornOK'
    BY <1>0, <1>T, <1>14 DEF Tree!CopyBegins
  <2>2. OwnOK'
    BY <1>0, <1>T, <1>14 DEF Tree!CopyBegins
  <2>3. SyncOK'
    BY <1>0, <1>T, <1>14 DEF Tree!CopyBegins
  <2>4. QED
    BY <2>1, <2>2, <2>3
<1>15. ASSUME NEW t \in Terminals, Tree!CopyEnds(t) PROVE Rest'
  <2>1. TornOK'
    BY <1>0, <1>T, <1>15 DEF Tree!CopyEnds, Tree!Attach
  <2>2. OwnOK'
    BY <1>0, <1>T, <1>15 DEF Tree!CopyEnds, Tree!Attach
  <2>3. SyncOK'
    BY <1>0, <1>T, <1>15 DEF Tree!CopyEnds, Tree!Attach
  <2>4. QED
    BY <2>1, <2>2, <2>3
<1>16. ASSUME NEW t \in Terminals, Tree!Fail(t) PROVE Rest'
  <2>1. TornOK'
    BY <1>0, <1>T, <1>16 DEF Tree!Fail
  <2>2. OwnOK'
    BY <1>0, <1>T, <1>16 DEF Tree!Fail
  <2>3. SyncOK'
    BY <1>0, <1>T, <1>16 DEF Tree!Fail
  <2>4. QED
    BY <2>1, <2>2, <2>3
<1>17. CASE Tree!Edit
  <2>1. TornOK'
    BY <1>0, <1>T, <1>17 DEF Tree!Edit, Tree!Acted
  <2>2. OwnOK'
    BY <1>0, <1>T, <1>17 DEF Tree!Edit, Tree!Acted
  <2>3. SyncOK'
    BY <1>0, <1>T, <1>17 DEF Tree!Edit, Tree!Acted
  <2>4. QED
    BY <2>1, <2>2, <2>3
<1>18. CASE Tree!Commit
  <2>1. TornOK'
    BY <1>0, <1>T, <1>18 DEF Tree!Commit, Tree!Acted
  <2>2. OwnOK'
    BY <1>0, <1>T, <1>18 DEF Tree!Commit, Tree!Acted
  <2>3. SyncOK'
    BY <1>0, <1>T, <1>18 DEF Tree!Commit, Tree!Acted
  <2>4. QED
    BY <2>1, <2>2, <2>3
<1>19. CASE Tree!Switch
  <2>1. TornOK'
    BY <1>0, <1>T, <1>19 DEF Tree!Switch, Tree!Acted
  <2>2. OwnOK'
    BY <1>0, <1>T, <1>19 DEF Tree!Switch, Tree!Acted
  <2>3. SyncOK'
    BY <1>0, <1>T, <1>19 DEF Tree!Switch, Tree!Acted
  <2>4. QED
    BY <2>1, <2>2, <2>3
<1>20. CASE Tree!RemoveGit
  <2>1. TornOK'
    BY <1>0, <1>T, <1>20 DEF Tree!RemoveGit, Tree!Acted
  <2>2. OwnOK'
    BY <1>0, <1>T, <1>20 DEF Tree!RemoveGit, Tree!Acted
  <2>3. SyncOK'
    BY <1>0, <1>T, <1>20 DEF Tree!RemoveGit, Tree!Acted
  <2>4. QED
    BY <2>1, <2>2, <2>3
<1>21. CASE Tree!Upstream
  <2>1. TornOK'
    BY <1>0, <1>T, <1>21 DEF Tree!Upstream
  <2>2. OwnOK'
    BY <1>0, <1>T, <1>21 DEF Tree!Upstream
  <2>3. SyncOK'
    BY <1>0, <1>T, <1>21 DEF Tree!Upstream
  <2>4. QED
    BY <2>1, <2>2, <2>3
<1>22. CASE UNCHANGED Tree!vars
  BY <1>0, <1>22 DEF Tree!vars
<1>23. QED
  BY <1>1, <1>2, <1>3, <1>4, <1>5, <1>6, <1>7, <1>8, <1>9, <1>10, <1>11, <1>12, <1>13, <1>14, <1>15, <1>16, <1>17, <1>18, <1>19, <1>20, <1>21, <1>22 DEF Tree!Next

(* The types, and the conjuncts above, in every reachable state.           *)
THEOREM TreeInvariance == Tree!Spec => []TreeInv
BY TreeInit, TreeStep, PTL DEF Tree!Spec

(* A branch moves, or loses its own commits, in a clean sync of main or    *)
(* where a .git is attached, unless somebody acted meanwhile.              *)
LEMMA TreeMoves ==
  TreeInv /\ [Tree!Next]_(Tree!vars)
    => [ \A t \in Terminals :
           cmd[t].step # "idle" /\ cmd'[t].step = "idle" /\ <<ref, own>>' # <<ref, own>>
           => \/ cmd[t].acted
              \/ Tree!At(t, "MergeFFOnly") /\ branch = "main" /\ ~dirty
              \/ t \in Tree!Writers /\ ~own["main"] ]_(Tree!vars)
<1> SUFFICES ASSUME TreeInv, Tree!Next, NEW t \in Terminals,
                    cmd[t].step # "idle", cmd'[t].step = "idle",
                    <<ref, own>>' # <<ref, own>>
             PROVE  \/ cmd[t].acted
                    \/ Tree!At(t, "MergeFFOnly") /\ branch = "main" /\ ~dirty
                    \/ t \in Tree!Writers /\ ~own["main"]
  BY DEF Tree!vars
<1>0. /\ OwnOK /\ SyncOK
      /\ cmd \in [Terminals -> [step : Tree!Steps, at : 0..origin, acted : BOOLEAN,
                                result : {"none", "ok", "skipped", "failed"}]]
  BY DEF TreeInv, Tree!TypeOK
<1>1. \/ \E u \in Terminals :
           Tree!MergeFFOnly(u) \/ Tree!CloneEnds(u) \/ Tree!CopyEnds(u)
      \/ Tree!Commit \/ Tree!RemoveGit
  BY DEF Tree!Next, Tree!SyncStat, Tree!IsWorkTree, Tree!Fetch, Tree!Status,
         Tree!Branch, Tree!CloneStat, Tree!Clone, Tree!CloneFails, Tree!RepairStat,
         Tree!RepairDest, Tree!TempClone, Tree!CopyBegins, Tree!Fail, Tree!Edit,
         Tree!Switch, Tree!Upstream, Tree!refs
<1>2. ASSUME NEW u \in Terminals, Tree!MergeFFOnly(u)
      PROVE  cmd[t].acted \/ (Tree!At(t, "MergeFFOnly") /\ branch = "main" /\ ~dirty)
  <2>1. u = t
    BY <1>0, <1>2 DEF Tree!MergeFFOnly, Tree!End
  <2>2. cmd[t].step = "MergeFFOnly"
    BY <1>2, <2>1 DEF Tree!MergeFFOnly, Tree!At
  <2>3. ~cmd[t].acted => branch = "main" /\ ~dirty
    BY <1>0, <2>2 DEF SyncOK
  <2>4. QED
    BY <2>2, <2>3 DEF Tree!At
<1>3. ASSUME NEW u \in Terminals, Tree!CloneEnds(u) \/ Tree!CopyEnds(u)
      PROVE  cmd[t].acted \/ (t \in Tree!Writers /\ ~own["main"])
  <2>1. cmd' = [w \in Terminals |-> IF w = u THEN [Tree!Idle EXCEPT !.result = "ok"]
                                ELSE [cmd[w] EXCEPT !.acted = TRUE]]
    BY <1>3 DEF Tree!CloneEnds, Tree!CopyEnds, Tree!Attach
  <2>2. u = t
    BY ONLY <1>0, <2>1, t \in Terminals, cmd[t].step # "idle", cmd'[t].step = "idle"
  <2>3. cmd[t].step \in {"cloning", "copying"}
    BY <1>3, <2>2 DEF Tree!CloneEnds, Tree!CopyEnds, Tree!At
  <2>4. cmd[t].acted \/ ~own["main"]
    BY <1>0, <2>3, Zenon DEF OwnOK
  <2>5. t \in Tree!Writers
    BY <2>3 DEF Tree!Writers
  <2>6. QED
    BY <2>4, <2>5
<1>4. ~(Tree!Commit \/ Tree!RemoveGit)
  <2>1. Tree!Acted => cmd'[t].step = cmd[t].step
    BY <1>0 DEF Tree!Acted
  <2>2. QED
    BY <2>1 DEF Tree!Commit, Tree!RemoveGit
<1>5. QED
  BY <1>1, <1>2, <1>3, <1>4

(* A branch moves in a clean sync, or where there was none to move.        *)
THEOREM TreeMovesForAReason == Tree!Spec => Tree!BranchesMoveForAReason
BY TreeInvariance, TreeMoves, PTL DEF Tree!Spec, Tree!BranchesMoveForAReason

(* Who says that a repository is there leaves a complete one.              *)
LEMMA TreeSucceeds ==
  TreeInv /\ [Tree!Next]_(Tree!vars)
    => [ \A t \in Terminals :
           cmd[t].result # "ok" /\ cmd'[t].result = "ok"
           => git' = "whole" \/ cut \/ Tree!Writers \ {t} # {} ]_(Tree!vars)
<1> SUFFICES ASSUME TreeInv, Tree!Next, NEW t \in Terminals,
                    cmd[t].result # "ok", cmd'[t].result = "ok"
             PROVE  git' = "whole" \/ cut \/ Tree!Writers \ {t} # {}
  BY DEF Tree!vars
<1>0. /\ TornOK /\ git \in {"none", "torn", "whole"}
      /\ cmd \in [Terminals -> [step : Tree!Steps, at : 0..origin, acted : BOOLEAN,
                                result : {"none", "ok", "skipped", "failed"}]]
  BY DEF TreeInv, Tree!TypeOK
<1>1. \E u \in Terminals :
        \/ Tree!MergeFFOnly(u) \/ Tree!CloneStat(u) \/ Tree!RepairStat(u)
        \/ Tree!CloneEnds(u) \/ Tree!CopyEnds(u)
  <2>1. ~Tree!Acted
    BY <1>0 DEF Tree!Acted
  <2>2. ASSUME NEW u \in Terminals, NEW s, Tree!Goto(u, s) PROVE FALSE
    BY <1>0, <2>2 DEF Tree!Goto
  <2>3. ASSUME NEW u \in Terminals, Tree!End(u, "failed") \/ Tree!End(u, "skipped")
        PROVE  FALSE
    BY <1>0, <2>3 DEF Tree!End, Tree!Idle
  <2>4. ASSUME NEW u \in Terminals,
               \/ Tree!SyncStat(u) \/ Tree!IsWorkTree(u) \/ Tree!Fetch(u)
               \/ Tree!Status(u) \/ Tree!Branch(u) \/ Tree!Clone(u)
               \/ Tree!CloneFails(u) \/ Tree!RepairDest(u) \/ Tree!TempClone(u)
               \/ Tree!CopyBegins(u) \/ Tree!Fail(u)
        PROVE  FALSE
    BY <1>0, <2>2, <2>3, <2>4
       DEF Tree!SyncStat, Tree!IsWorkTree, Tree!Fetch, Tree!Status, Tree!Branch,
           Tree!Clone, Tree!CloneFails, Tree!RepairDest, Tree!TempClone,
           Tree!CopyBegins, Tree!Fail, Tree!Idle
  <2>5. QED
    BY <2>1, <2>4
       DEF Tree!Next, Tree!Edit, Tree!Commit, Tree!Switch, Tree!RemoveGit, Tree!Upstream
<1>2. ASSUME NEW u \in Terminals, Tree!MergeFFOnly(u) PROVE git' = "whole"
  BY <1>2 DEF Tree!MergeFFOnly, Tree!disk
<1>3. ASSUME NEW u \in Terminals, Tree!CloneStat(u) \/ Tree!RepairStat(u)
      PROVE  git' = "whole" \/ cut \/ Tree!Writers \ {t} # {}
  <2>1. u = t /\ git' = git /\ git # "none" /\ t \notin Tree!Writers
    BY <1>0, <1>3
       DEF Tree!CloneStat, Tree!RepairStat, Tree!At, Tree!End, Tree!Idle,
           Tree!disk, Tree!Writers
  <2>2. QED
    BY <1>0, <2>1 DEF TornOK
<1>4. ASSUME NEW u \in Terminals, Tree!CloneEnds(u) \/ Tree!CopyEnds(u)
      PROVE  git' = "whole" \/ cut \/ Tree!Writers \ {t} # {}
  <2>0. cmd' = [w \in Terminals |-> IF w = u THEN [Tree!Idle EXCEPT !.result = "ok"]
                                ELSE [cmd[w] EXCEPT !.acted = TRUE]]
    BY <1>4 DEF Tree!CloneEnds, Tree!CopyEnds, Tree!Attach
  <2>1. u = t /\ t \in Tree!Writers
    <3>1. u = t
      BY ONLY <1>0, <2>0, t \in Terminals, cmd[t].result # "ok", cmd'[t].result = "ok"
    <3>2. QED
      BY <1>4, <3>1 DEF Tree!CloneEnds, Tree!CopyEnds, Tree!At, Tree!Writers
  <2>2. \/ Tree!Writers # {t}
        \/ git' \in IF cut THEN {"torn", "whole"} ELSE {"whole"}
    BY <1>4, <2>1 DEF Tree!CloneEnds, Tree!CopyEnds, Tree!Attach
  <2>3. QED
    BY <2>1, <2>2
<1>5. QED
  BY <1>1, <1>2, <1>3, <1>4

(* A command that reports success leaves a whole repository, unless        *)
(* somebody else changed the directory meanwhile.                          *)
THEOREM TreeSuccessIsWhole == Tree!Spec => Tree!SuccessIsWhole
BY TreeInvariance, TreeSucceeds, PTL DEF Tree!Spec, Tree!SuccessIsWhole

-----------------------------------------------------------------------------
(* RateLimiter. *)

LEMMA CardLe ==
  ASSUME NEW S, IsFiniteSet(S), NEW T, T \subseteq S
  PROVE  /\ IsFiniteSet(T)
         /\ Cardinality(S) \in Nat /\ Cardinality(T) \in Nat
         /\ Cardinality(T) <= Cardinality(S)
BY FS_Subset, FS_CardinalityType

LEMMA CardUnionLe ==
  ASSUME NEW S, IsFiniteSet(S), NEW T, IsFiniteSet(T)
  PROVE  /\ IsFiniteSet(S \union T)
         /\ Cardinality(S) \in Nat /\ Cardinality(T) \in Nat
         /\ Cardinality(S \union T) \in Nat
         /\ Cardinality(S \union T) <= Cardinality(S) + Cardinality(T)
<1>1. IsFiniteSet(S \union T) /\ IsFiniteSet(S \intersect T)
  BY FS_Union, FS_Subset
<1>2. /\ Cardinality(S) \in Nat /\ Cardinality(T) \in Nat
      /\ Cardinality(S \union T) \in Nat /\ Cardinality(S \intersect T) \in Nat
  BY <1>1, FS_CardinalityType
<1>3. Cardinality(S \union T)
        = Cardinality(S) + Cardinality(T) - Cardinality(S \intersect T)
  BY FS_Union
<1>4. QED
  BY <1>1, <1>2, <1>3

(* Only finitely many requests have come by now, and no more than          *)
(* MaxInFlight are inside AllowKey.                                        *)
Arrived == { r \in Requests : phase[r] # "new" }

FlightOK ==
  /\ IsFiniteSet(Arrived)
  /\ Cardinality(InFlight) <= MaxInFlight

(* Who has an event was let through, or failed; with a store whoever was   *)
(* let through has one.                                                    *)
PlaceOK ==
  \A r \in Requests :
    /\ events[r] # 0 => phase[r] \in {"admitted", "failed"}
    /\ phase[r] = "counted" => persistent
    /\ persistent /\ phase[r] = "admitted" => events[r] # 0

(* The requests in one of the phases P whose stamp lies in a window at s.  *)
Within(P, s) ==
  { r \in Requests : phase[r] \in P /\ stamp[r] <= s /\ s < stamp[r] + Window }

(* With a store the window at s has at most Limit - 1 events when a        *)
(* request passes the count; those that passed it before it and are not    *)
(* recorded yet are in flight.                                             *)
StoreBound ==
  persistent =>
    \A s \in Nat :
      Cardinality(Within({"counted", "admitted"}, s)) <= Limit + MaxInFlight - 1

(* Without one, either all that were admitted in the window at s are still *)
(* kept, or a later request has dropped some of them: from then on the     *)
(* window only fills with requests that were already in flight.            *)
MemoryBound ==
  ~persistent =>
    \A s \in Nat :
      \/ /\ Within({"admitted"}, s) \subseteq Kept
         /\ Cardinality(Within({"admitted"}, s)) <= Limit
      \/ /\ s < now
         /\ Cardinality(Within({"stamped", "admitted"}, s)) <= Limit + MaxInFlight - 1

(* What a refused request was told lies behind every event of the store;   *)
(* in memory it lies behind one of at most Limit stamps.                   *)
RetryOK ==
  \A r \in Requests :
    phase[r] = "refused" /\ seen[r] = appended =>
      IF persistent
      THEN \A e \in Kept : stamp[e] + Window < retryAt[r]
      ELSE \/ Cardinality(Kept) < Limit
           \/ \E e \in Kept : stamp[e] + Window < retryAt[r]

LimiterInv ==
  TypeOK /\ FlightOK /\ PlaceOK /\ StoreBound /\ MemoryBound /\ RetryOK

LEMMA LimiterInit == Init => LimiterInv
<1> SUFFICES ASSUME Init PROVE LimiterInv
  OBVIOUS
<1>1. \A r \in Requests : phase[r] = "new" /\ events[r] = 0
  BY DEF Init
<1>2. Arrived = {} /\ InFlight = {} /\ Kept = {}
  BY <1>1 DEF Arrived, InFlight, Kept
<1>3. \A P, s : "new" \notin P => Within(P, s) = {}
  BY <1>1 DEF Within
<1>4. IsFiniteSet({}) /\ Cardinality({}) = 0
  BY FS_EmptySet
<1>5. TypeOK
  <2>1. /\ persistent \in Modes /\ now \in Nat
        /\ phase \in [Requests -> Phases]
        /\ stamp \in [Requests -> 0..now]
        /\ appended \in Nat /\ events \in [Requests -> 0..appended]
        /\ retryAt \in [Requests -> Nat] /\ seen \in [Requests -> 0..appended]
    BY DEF Init, Phases
  <2>2. Cardinality(Kept) <= Limit
    BY <1>2, <1>4, LimiterAssumption
  <2>3. QED
    BY <2>1, <2>2 DEF TypeOK
<1>6. FlightOK /\ PlaceOK
  BY <1>1, <1>2, <1>4, LimiterAssumption DEF FlightOK, PlaceOK
<1>7. StoreBound /\ MemoryBound
  <2>1. 0 <= Limit + MaxInFlight - 1 /\ 0 <= Limit
    BY LimiterAssumption
  <2>2. \A s \in Nat : /\ Within({"counted", "admitted"}, s) = {}
                       /\ Within({"admitted"}, s) = {}
    BY <1>3
  <2>3. QED
    BY <1>4, <2>1, <2>2 DEF StoreBound, MemoryBound
<1>8. RetryOK
  BY <1>1 DEF RetryOK
<1>9. QED
  BY <1>5, <1>6, <1>7, <1>8 DEF LimiterInv

LEMMA LimiterFinite ==
  ASSUME TypeOK, FlightOK, PlaceOK
  PROVE  /\ IsFiniteSet(InFlight) /\ IsFiniteSet(Kept)
         /\ \A s : IsFiniteSet(Valid(s)) /\ Count(s) \in Nat /\ Valid(s) \subseteq Kept
         /\ \A P, s : "new" \notin P => IsFiniteSet(Within(P, s))
         /\ Cardinality(InFlight) \in Nat /\ Cardinality(Kept) \in Nat
<1>1. IsFiniteSet(Arrived)
  BY DEF FlightOK
<1>2. InFlight \subseteq Arrived
  BY DEF InFlight, Arrived
<1>3. Kept \subseteq Arrived
  BY DEF Kept, Arrived, PlaceOK
<1>4. \A s : Valid(s) \subseteq Arrived /\ Valid(s) \subseteq Kept
  BY <1>3 DEF Valid
<1>5. \A P, s : "new" \notin P => Within(P, s) \subseteq Arrived
  BY DEF Within, Arrived
<1>6. \A T : T \subseteq Arrived => IsFiniteSet(T) /\ Cardinality(T) \in Nat
  BY <1>1, CardLe
<1>7. QED
  BY <1>2, <1>3, <1>4, <1>5, <1>6 DEF Count

(* Who is counted or refused has a store or not, and what it leaves in the *)
(* window is what it found there.                                          *)
LEMMA MemoryKeeps ==
  ASSUME TypeOK, PlaceOK, NEW r \in Requests, phase[r] = "stamped"
  PROVE  /\ MemoryAdmit(r) => Kept' = Valid(stamp[r]) \union {r}
         /\ MemoryRefuse(r) => Kept' = Valid(stamp[r])
         /\ Insert(r, Kept) => Kept' = Kept \union {r}
<1>1. appended \in Nat /\ appended + 1 # 0
  BY DEF TypeOK
<1>2. MemoryAdmit(r) => Kept' = Valid(stamp[r]) \union {r}
  BY <1>1 DEF MemoryAdmit, Insert, Kept, Valid
<1>3. MemoryRefuse(r) => Kept' = Valid(stamp[r])
  BY DEF MemoryRefuse, Kept, Valid
<1>4. Insert(r, Kept) => Kept' = Kept \union {r}
  BY <1>1 DEF Insert, Kept
<1>5. QED
  BY <1>2, <1>3, <1>4

LEMMA LimiterTypes ==
  TypeOK /\ FlightOK /\ PlaceOK /\ [Next]_vars => (TypeOK /\ FlightOK /\ PlaceOK)'
<1> DEFINE Maps == /\ persistent \in Modes /\ now \in Nat
                   /\ phase \in [Requests -> Phases]
                   /\ stamp \in [Requests -> 0..now]
                   /\ retryAt \in [Requests -> Nat]
                   /\ appended \in Nat
                   /\ events \in [Requests -> 0..appended]
                   /\ seen \in [Requests -> 0..appended]
           Memory == ~persistent => Cardinality(Kept) <= Limit
<1> SUFFICES ASSUME TypeOK, FlightOK, PlaceOK, [Next]_vars
             PROVE  Maps' /\ Memory' /\ FlightOK' /\ PlaceOK'
  BY DEF TypeOK
<1>0. /\ Maps /\ Memory /\ IsFiniteSet(Arrived) /\ IsFiniteSet(InFlight)
      /\ IsFiniteSet(Kept) /\ Cardinality(Kept) \in Nat
  BY LimiterFinite DEF TypeOK, FlightOK
<1>F. ASSUME InFlight' \subseteq InFlight, Arrived' \subseteq Arrived PROVE FlightOK'
  BY <1>0, <1>F, CardLe, LimiterAssumption DEF FlightOK
<1>K. ASSUME Kept' \subseteq Kept, persistent' = persistent PROVE Memory'
  BY <1>0, <1>K, CardLe, LimiterAssumption
<1> USE DEF Phases
<1>1. ASSUME NEW r \in Requests, Stamp(r)
      PROVE  Maps' /\ Memory' /\ FlightOK' /\ PlaceOK'
  <2>1. Maps' /\ PlaceOK'
    BY <1>0, <1>1 DEF Stamp, PlaceOK
  <2>2. Kept' = Kept
    BY <1>1 DEF Stamp, Kept
  <2>3. Arrived' = Arrived \union {r} /\ InFlight' = InFlight \union {r}
    BY <1>0, <1>1 DEF Stamp, Arrived, InFlight
  <2>4. IsFiniteSet(Arrived')
    BY <1>0, <2>3, FS_AddElement
  <2>5. Cardinality(InFlight) < MaxInFlight
    BY <1>1 DEF Stamp
  <2>6. Cardinality(InFlight') <= MaxInFlight
    <3>1. Cardinality(InFlight') = IF r \in InFlight THEN Cardinality(InFlight)
                                   ELSE Cardinality(InFlight) + 1
      BY <1>0, <2>3, FS_AddElement
    <3>2. Cardinality(InFlight) \in Nat
      BY LimiterFinite
    <3>3. QED
      BY <2>5, <3>1, <3>2, LimiterAssumption
  <2>7. QED
    BY <1>1, <1>K, <2>1, <2>2, <2>4, <2>6 DEF Stamp, FlightOK
<1>2. ASSUME NEW r \in Requests, StoreCount(r)
      PROVE  Maps' /\ Memory' /\ FlightOK' /\ PlaceOK'
  <2>1. Maps'
    BY <1>0, <1>2 DEF StoreCount
  <2>2. PlaceOK'
    BY <1>0, <1>2 DEF StoreCount, PlaceOK
  <2>4. Memory'
    <3>1. Kept' = Kept
      BY <1>2 DEF StoreCount, Kept
    <3>2. QED
      BY <1>2, <1>K, <3>1 DEF StoreCount
  <2>5. InFlight' \subseteq InFlight /\ Arrived' \subseteq Arrived
    BY <1>0, <1>2 DEF StoreCount, InFlight, Arrived
  <2>6. QED
    BY <1>F, <2>1, <2>2, <2>4, <2>5
<1>3. ASSUME NEW r \in Requests, StoreRefuse(r)
      PROVE  Maps' /\ Memory' /\ FlightOK' /\ PlaceOK'
  <2>1. Maps'
    <3>1. now + Window + 1 \in Nat
      BY <1>0, LimiterAssumption
    <3>2. QED
      <4>1. /\ phase' = [phase EXCEPT ![r] = "refused"]
            /\ retryAt' = [retryAt EXCEPT ![r] = now + Window + 1]
            /\ seen' = [seen EXCEPT ![r] = appended]
            /\ UNCHANGED <<persistent, now, events, stamp, appended>>
        BY <1>3 DEF StoreRefuse, Refuse
      <4>2. appended \in 0..appended
        BY <1>0
      <4>3. retryAt' \in [Requests -> Nat] /\ seen' \in [Requests -> 0..appended]
        BY <1>0, <3>1, <4>1, <4>2
      <4>4. QED
        BY <1>0, <4>1, <4>3
  <2>2. PlaceOK'
    BY <1>0, <1>3 DEF StoreRefuse, Refuse, PlaceOK
  <2>4. Memory'
    <3>1. Kept' = Kept
      BY <1>3 DEF StoreRefuse, Refuse, Kept
    <3>2. QED
      BY <1>3, <1>K, <3>1 DEF StoreRefuse, Refuse
  <2>5. InFlight' \subseteq InFlight /\ Arrived' \subseteq Arrived
    BY <1>0, <1>3 DEF StoreRefuse, Refuse, InFlight, Arrived
  <2>6. QED
    BY <1>F, <2>1, <2>2, <2>4, <2>5
<1>4. ASSUME NEW r \in Requests, MemoryRefuse(r)
      PROVE  Maps' /\ Memory' /\ FlightOK' /\ PlaceOK'
  <2>1. PICK first \in Valid(stamp[r]) :
          LET leaves == stamp[first] + Window
          IN  Refuse(r, IF leaves <= stamp[r] THEN 1 ELSE leaves - stamp[r])
    BY <1>4, Zenon DEF MemoryRefuse
  <2>2. \A later \in Nat : Refuse(r, later) => retryAt' \in [Requests -> Nat]
    BY <1>0 DEF Refuse
  <2>3. stamp[first] \in Nat /\ stamp[r] \in Nat
    BY <1>0 DEF Valid, Kept
  <2>4. retryAt' \in [Requests -> Nat]
    BY <2>1, <2>2, <2>3, LimiterAssumption
  <2>5. Maps'
    BY <1>0, <1>4, <2>1, <2>4 DEF MemoryRefuse, Refuse
  <2>6. PlaceOK'
    BY <1>0, <1>4, <2>1 DEF MemoryRefuse, Refuse, PlaceOK, Valid, Kept
  <2>7. Kept' \subseteq Kept
    BY <1>4, MemoryKeeps, LimiterFinite DEF MemoryRefuse
  <2>8. InFlight' \subseteq InFlight /\ Arrived' \subseteq Arrived
    BY <1>0, <1>4, <2>1 DEF MemoryRefuse, Refuse, InFlight, Arrived
  <2>9. QED
    BY <1>4, <1>F, <1>K, <2>5, <2>6, <2>7, <2>8 DEF MemoryRefuse
<1>5. ASSUME NEW r \in Requests, StoreRecord(r)
      PROVE  Maps' /\ Memory' /\ FlightOK' /\ PlaceOK'
  <2>1. Maps'
    BY <1>0, <1>5 DEF StoreRecord, Insert
  <2>2. PlaceOK'
    BY <1>0, <1>5 DEF StoreRecord, Insert, PlaceOK, Valid, Kept
  <2>4. Memory'
    BY <1>5 DEF StoreRecord, PlaceOK
  <2>5. InFlight' \subseteq InFlight /\ Arrived' \subseteq Arrived
    BY <1>0, <1>5 DEF StoreRecord, Insert, InFlight, Arrived
  <2>6. QED
    BY <1>F, <2>1, <2>2, <2>4, <2>5
<1>6. ASSUME NEW r \in Requests, StoreFails(r)
      PROVE  Maps' /\ Memory' /\ FlightOK' /\ PlaceOK'
  <2>1. Maps'
    <3>1. Insert(r, Kept) \/ UNCHANGED <<events, appended>>
      BY <1>6 DEF StoreFails
    <3>2. CASE Insert(r, Kept)
      <4>1. events' \in [Requests -> 0..appended'] /\ appended' \in Nat
        BY <1>0, <3>2 DEF Insert
      <4>2. seen' \in [Requests -> 0..appended']
        BY <1>0, <1>6, <3>2 DEF StoreFails, Insert
      <4>3. QED
        BY <1>0, <1>6, <4>1, <4>2 DEF StoreFails
    <3>3. CASE UNCHANGED <<events, appended>>
      BY <1>0, <1>6, <3>3 DEF StoreFails
    <3>4. QED
      BY <3>1, <3>2, <3>3
  <2>2. PlaceOK'
    BY <1>0, <1>6 DEF StoreFails, Insert, PlaceOK, Valid, Kept
  <2>4. Memory'
    BY <1>6 DEF StoreFails, PlaceOK
  <2>5. InFlight' \subseteq InFlight /\ Arrived' \subseteq Arrived
    BY <1>0, <1>6 DEF StoreFails, Insert, InFlight, Arrived
  <2>6. QED
    BY <1>F, <2>1, <2>2, <2>4, <2>5
<1>7. ASSUME NEW r \in Requests, MemoryAdmit(r)
      PROVE  Maps' /\ Memory' /\ FlightOK' /\ PlaceOK'
  <2>1. Maps'
    BY <1>0, <1>7 DEF MemoryAdmit, Insert
  <2>2. PlaceOK'
    BY <1>0, <1>7 DEF MemoryAdmit, Insert, PlaceOK, Valid, Kept
  <2>3. Kept' = Valid(stamp[r]) \union {r} /\ Cardinality(Valid(stamp[r])) < Limit
    BY <1>7, MemoryKeeps DEF MemoryAdmit, Count
  <2>4. Memory'
    <3>1. IsFiniteSet(Valid(stamp[r])) /\ Cardinality(Valid(stamp[r])) \in Nat
      BY LimiterFinite DEF Count
    <3>2. Cardinality(Kept') = IF r \in Valid(stamp[r])
                               THEN Cardinality(Valid(stamp[r]))
                               ELSE Cardinality(Valid(stamp[r])) + 1
      BY <2>3, <3>1, FS_AddElement
    <3>3. QED
      BY <2>3, <3>1, <3>2, LimiterAssumption
  <2>5. InFlight' \subseteq InFlight /\ Arrived' \subseteq Arrived
    BY <1>0, <1>7 DEF MemoryAdmit, Insert, InFlight, Arrived
  <2>6. QED
    BY <1>F, <2>1, <2>2, <2>4, <2>5
<1>8. CASE Restart
  <2>1. Maps'
    BY <1>0, <1>8 DEF Restart
  <2>2. PlaceOK'
    BY <1>0, <1>8 DEF Restart, PlaceOK, InFlight
  <2>3. Kept' \subseteq Kept
    BY <1>0, <1>8 DEF Restart, Kept
  <2>4. InFlight' \subseteq InFlight /\ Arrived' \subseteq Arrived
    BY <1>0, <1>8 DEF Restart, InFlight, Arrived
  <2>5. QED
    BY <1>8, <1>F, <1>K, <2>1, <2>2, <2>3, <2>4 DEF Restart
<1>9. CASE Tick
  <2>1. Maps'
    BY <1>0, <1>9 DEF Tick
  <2>2. PlaceOK' /\ Kept' = Kept /\ InFlight' = InFlight /\ Arrived' = Arrived
    BY <1>9 DEF Tick, PlaceOK, Kept, InFlight, Arrived
  <2>3. QED
    BY <1>9, <1>F, <1>K, <2>1, <2>2 DEF Tick
<1>10. CASE UNCHANGED vars
  <2>1. PlaceOK' /\ Kept' = Kept /\ InFlight' = InFlight /\ Arrived' = Arrived
    BY <1>10 DEF vars, PlaceOK, Kept, InFlight, Arrived
  <2>2. QED
    BY <1>0, <1>10, <1>F, <1>K, <2>1 DEF vars
<1>11. QED
  BY <1>1, <1>2, <1>3, <1>4, <1>5, <1>6, <1>7, <1>8, <1>9, <1>10 DEF Next

LEMMA StoreBoundStep ==
  TypeOK /\ FlightOK /\ PlaceOK /\ StoreBound /\ [Next]_vars => StoreBound'
<1> SUFFICES ASSUME TypeOK, FlightOK, PlaceOK, StoreBound, [Next]_vars,
                    persistent', NEW s \in Nat
             PROVE  Cardinality(Within({"counted", "admitted"}, s)')
                      <= Limit + MaxInFlight - 1
  BY DEF StoreBound
<1> DEFINE B == Within({"counted", "admitted"}, s)
<1>0. /\ phase \in [Requests -> Phases] /\ stamp \in [Requests -> 0..now] /\ now \in Nat
      /\ IsFiniteSet(B) /\ IsFiniteSet(InFlight)
  BY LimiterFinite DEF TypeOK
<1>1. persistent
  BY DEF Next, vars, Stamp, StoreCount, StoreRefuse, StoreRecord, StoreFails,
         MemoryAdmit, MemoryRefuse, Restart, Tick
<1>2. Cardinality(B) <= Limit + MaxInFlight - 1
  BY <1>1 DEF StoreBound
<1>3. ASSUME B' \subseteq B
      PROVE  Cardinality(B') <= Limit + MaxInFlight - 1
  BY <1>0, <1>2, <1>3, CardLe, LimiterAssumption
<1>4. ASSUME NEW r \in Requests, Stamp(r) PROVE B' \subseteq B
  BY <1>0, <1>4 DEF Stamp, Within
<1>5. ASSUME NEW r \in Requests, StoreCount(r)
      PROVE  Cardinality(B') <= Limit + MaxInFlight - 1
  <2>1. /\ phase' = [phase EXCEPT ![r] = "counted"] /\ stamp' = stamp
        /\ phase[r] = "stamped" /\ Cardinality(Valid(stamp[r])) < Limit
    BY <1>5 DEF StoreCount, Count
  <2>2. CASE ~(stamp[r] <= s)
    <3>1. B' \subseteq B
      BY <1>0, <2>1, <2>2 DEF Within
    <3>2. QED
      BY <1>3, <3>1
  <2>3. CASE stamp[r] <= s
    <3>1. Within({"admitted"}, s) \subseteq Valid(stamp[r])
      <4>1. ASSUME NEW q \in Within({"admitted"}, s) PROVE q \in Valid(stamp[r])
        <5>1. q \in Kept
          BY <1>1 DEF Within, PlaceOK, Kept
        <5>2. stamp[q] + Window >= stamp[r]
          BY <1>0, <2>3, LimiterAssumption DEF Within
        <5>3. QED
          BY <1>1, <5>1, <5>2 DEF Valid, InWindow
      <4>2. QED
        BY <4>1
    <3>2. B' \subseteq Valid(stamp[r]) \union InFlight
      BY <1>0, <2>1, <3>1 DEF Within, InFlight
    <3>3. /\ IsFiniteSet(Valid(stamp[r])) /\ Cardinality(Valid(stamp[r])) \in Nat
          /\ Cardinality(InFlight) \in Nat /\ Cardinality(InFlight) <= MaxInFlight
      BY LimiterFinite DEF Count, FlightOK
    <3>4. /\ IsFiniteSet(Valid(stamp[r]) \union InFlight)
          /\ Cardinality(Valid(stamp[r]) \union InFlight) \in Nat
          /\ Cardinality(Valid(stamp[r]) \union InFlight)
               <= Cardinality(Valid(stamp[r])) + Cardinality(InFlight)
      BY <1>0, <3>3, CardUnionLe
    <3>5. /\ Cardinality(B') \in Nat
          /\ Cardinality(B') <= Cardinality(Valid(stamp[r]) \union InFlight)
      BY <3>2, <3>4, CardLe
    <3>6. QED
      BY <2>1, <3>3, <3>4, <3>5, LimiterAssumption
  <2>4. QED
    BY <2>2, <2>3
<1>6. ASSUME NEW r \in Requests, StoreRefuse(r) PROVE B' \subseteq B
  BY <1>0, <1>6 DEF StoreRefuse, Refuse, Within
<1>7. ASSUME NEW r \in Requests, StoreRecord(r) PROVE B' \subseteq B
  BY <1>0, <1>7 DEF StoreRecord, Within
<1>8. ASSUME NEW r \in Requests, StoreFails(r) PROVE B' \subseteq B
  BY <1>0, <1>8 DEF StoreFails, Within
<1>9. ASSUME NEW r \in Requests, MemoryAdmit(r) \/ MemoryRefuse(r) PROVE FALSE
  BY <1>1, <1>9 DEF MemoryAdmit, MemoryRefuse
<1>10. CASE Restart
  <2>1. B' \subseteq B
    BY <1>0, <1>10 DEF Restart, Within, InFlight
  <2>2. QED
    BY <1>3, <2>1
<1>11. CASE Tick \/ UNCHANGED vars
  <2>1. B' \subseteq B
    BY <1>11 DEF Tick, vars, Within
  <2>2. QED
    BY <1>3, <2>1
<1>12. QED
  BY <1>3, <1>4, <1>5, <1>6, <1>7, <1>8, <1>9, <1>10, <1>11 DEF Next

LEMMA MemoryBoundStep ==
  TypeOK /\ FlightOK /\ PlaceOK /\ MemoryBound /\ [Next]_vars => MemoryBound'
<1> SUFFICES ASSUME TypeOK, FlightOK, PlaceOK, MemoryBound, [Next]_vars,
                    ~persistent', NEW s \in Nat
             PROVE  \/ /\ Within({"admitted"}, s)' \subseteq Kept'
                       /\ Cardinality(Within({"admitted"}, s)') <= Limit
                    \/ /\ s < now'
                       /\ Cardinality(Within({"stamped", "admitted"}, s)')
                            <= Limit + MaxInFlight - 1
  BY DEF MemoryBound
<1> DEFINE A == Within({"admitted"}, s)
           G == Within({"stamped", "admitted"}, s)
           First == A \subseteq Kept /\ Cardinality(A) <= Limit
           Second == s < now /\ Cardinality(G) <= Limit + MaxInFlight - 1
<1>0. /\ phase \in [Requests -> Phases] /\ stamp \in [Requests -> 0..now] /\ now \in Nat
      /\ IsFiniteSet(A) /\ IsFiniteSet(G) /\ IsFiniteSet(InFlight)
      /\ \A c : IsFiniteSet(Valid(c)) /\ Cardinality(Valid(c)) \in Nat
  BY LimiterFinite DEF TypeOK, Count
<1>1. ~persistent
  BY DEF Next, vars, Stamp, StoreCount, StoreRefuse, StoreRecord, StoreFails,
         MemoryAdmit, MemoryRefuse, Restart, Tick
<1>2. First \/ Second
  BY <1>1 DEF MemoryBound
<1> SUFFICES (First \/ Second)'
  OBVIOUS
<1>3. ASSUME Second, G' \subseteq G, s < now' PROVE Second'
  BY <1>0, <1>3, CardLe, LimiterAssumption
<1>4. ASSUME First, A' \subseteq A, A' \subseteq Kept' PROVE First'
  BY <1>0, <1>4, CardLe, LimiterAssumption
(* A request that leaves AllowKey with a stamp beyond s may drop what is   *)
(* still in the window at s.                                               *)
<1>5. ASSUME NEW r \in Requests, phase[r] = "stamped", s < stamp[r], now' = now,
             stamp' = stamp, First,
             \/ phase' = [phase EXCEPT ![r] = "admitted"]
             \/ phase' = [phase EXCEPT ![r] = "refused"]
      PROVE  Second'
  <2>1. G' \subseteq A \union (InFlight \ {r})
    BY <1>0, <1>5 DEF Within, InFlight
  <2>2. /\ r \in InFlight /\ Cardinality(InFlight) \in Nat
        /\ Cardinality(InFlight) <= MaxInFlight
    BY <1>5, LimiterFinite DEF InFlight, FlightOK
  <2>3. /\ IsFiniteSet(InFlight \ {r})
        /\ Cardinality(InFlight \ {r}) = Cardinality(InFlight) - 1
    BY <1>0, <2>2, FS_RemoveElement
  <2>4. /\ IsFiniteSet(A \union (InFlight \ {r})) /\ Cardinality(A) \in Nat
        /\ Cardinality(A \union (InFlight \ {r})) \in Nat
        /\ Cardinality(A \union (InFlight \ {r}))
             <= Cardinality(A) + Cardinality(InFlight \ {r})
    BY <1>0, <2>3, CardUnionLe
  <2>5. /\ Cardinality(G') \in Nat
        /\ Cardinality(G') <= Cardinality(A \union (InFlight \ {r}))
    BY <2>1, <2>4, CardLe
  <2>6. Cardinality(G') <= Limit + MaxInFlight - 1
    BY <1>5, <2>2, <2>3, <2>4, <2>5, LimiterAssumption
  <2>7. s < now'
    BY <1>0, <1>5
  <2>8. QED
    BY <2>6, <2>7
(* One whose stamp is not beyond s keeps the whole window.                 *)
<1>6. ASSUME NEW r \in Requests, stamp[r] <= s, First
      PROVE  A \subseteq Valid(stamp[r])
  <2>1. ASSUME NEW q \in A PROVE q \in Valid(stamp[r])
    <3>1. q \in Kept
      BY <1>6
    <3>2. stamp[q] + Window > stamp[r]
      BY <1>0, <1>6, LimiterAssumption DEF Within
    <3>3. QED
      BY <1>1, <3>1, <3>2 DEF Valid, InWindow
  <2>2. QED
    BY <2>1
<1>7. ASSUME NEW r \in Requests, Stamp(r) PROVE (First \/ Second)'
  <2>1. A' \subseteq A /\ Kept' = Kept /\ now' = now
    BY <1>0, <1>7 DEF Stamp, Within, Kept
  <2>2. s < now => G' \subseteq G
    BY <1>0, <1>7 DEF Stamp, Within
  <2>3. CASE First
    BY <1>4, <2>1, <2>3
  <2>4. CASE Second
    BY <1>3, <2>1, <2>2, <2>4
  <2>5. QED
    BY <1>2, <2>3, <2>4
<1>8. ASSUME NEW r \in Requests, MemoryAdmit(r) PROVE (First \/ Second)'
  <2>1. /\ phase[r] = "stamped" /\ Cardinality(Valid(stamp[r])) < Limit
        /\ phase' = [phase EXCEPT ![r] = "admitted"]
        /\ stamp' = stamp /\ now' = now
    BY <1>8 DEF MemoryAdmit, Count
  <2>2. Kept' = Valid(stamp[r]) \union {r}
    BY <1>8, <2>1, MemoryKeeps
  <2>3. CASE Second
    <3>1. G' \subseteq G
      BY <1>0, <2>1 DEF Within
    <3>2. QED
      BY <1>3, <2>1, <2>3, <3>1
  <2>4. CASE First /\ s < stamp[r]
    BY <1>5, <2>1, <2>4
  <2>5. CASE First /\ stamp[r] <= s
    <3>1. A' \subseteq A \union {r} /\ A \subseteq Valid(stamp[r])
      BY <1>0, <1>6, <2>1, <2>5 DEF Within
    <3>2. A' \subseteq Kept'
      BY <2>2, <3>1
    <3>3. /\ IsFiniteSet(Valid(stamp[r]) \union {r})
          /\ Cardinality(Valid(stamp[r]) \union {r})
               = IF r \in Valid(stamp[r]) THEN Cardinality(Valid(stamp[r]))
                 ELSE Cardinality(Valid(stamp[r])) + 1
      BY <1>0, FS_AddElement
    <3>4. Cardinality(A') \in Nat
          /\ Cardinality(A') <= Cardinality(Valid(stamp[r]) \union {r})
      BY <2>2, <3>2, <3>3, CardLe
    <3>5. Cardinality(A') <= Limit
      BY <1>0, <2>1, <3>3, <3>4, LimiterAssumption
    <3>6. QED
      BY <3>2, <3>5
  <2>6. QED
    BY <1>0, <1>2, <2>3, <2>4, <2>5
<1>9. ASSUME NEW r \in Requests, MemoryRefuse(r) PROVE (First \/ Second)'
  <2>1. /\ phase[r] = "stamped"
        /\ phase' = [phase EXCEPT ![r] = "refused"]
        /\ stamp' = stamp /\ now' = now
    BY <1>9 DEF MemoryRefuse, Refuse
  <2>2. Kept' = Valid(stamp[r])
    BY <1>9, <2>1, MemoryKeeps
  <2>3. A' \subseteq A /\ G' \subseteq G
    BY <1>0, <2>1 DEF Within
  <2>4. CASE Second
    BY <1>3, <2>1, <2>3, <2>4
  <2>5. CASE First /\ s < stamp[r]
    BY <1>5, <2>1, <2>5
  <2>6. CASE First /\ stamp[r] <= s
    BY <1>4, <1>6, <2>2, <2>3, <2>6
  <2>7. QED
    BY <1>0, <1>2, <2>4, <2>5, <2>6
<1>10. ASSUME NEW r \in Requests,
              \/ StoreCount(r) \/ StoreRefuse(r) \/ StoreRecord(r) \/ StoreFails(r)
       PROVE  FALSE
  BY <1>1, <1>10 DEF StoreCount, StoreRefuse, StoreRecord, StoreFails, PlaceOK
<1>11. CASE Restart
  <2>1. A' = {}
    BY <1>1, <1>11 DEF Restart, Within
  <2>2. QED
    BY <2>1, FS_EmptySet, LimiterAssumption
<1>12. CASE Tick \/ UNCHANGED vars
  <2>1. A' = A /\ G' = G /\ Kept' = Kept /\ (s < now => s < now')
    BY <1>0, <1>12 DEF Tick, vars, Within, Kept
  <2>2. QED
    BY <1>2, <1>3, <1>4, <2>1
<1>13. QED
  BY <1>7, <1>8, <1>9, <1>10, <1>11, <1>12 DEF Next

LEMMA RetryStep ==
  TypeOK /\ FlightOK /\ PlaceOK /\ RetryOK /\ [Next]_vars => RetryOK'
<1> SUFFICES ASSUME TypeOK, FlightOK, PlaceOK, RetryOK, [Next]_vars,
                    NEW r \in Requests, phase'[r] = "refused", seen'[r] = appended'
             PROVE  IF persistent'
                    THEN \A e \in Kept' : stamp'[e] + Window < retryAt'[r]
                    ELSE \/ Cardinality(Kept') < Limit
                         \/ \E e \in Kept' : stamp'[e] + Window < retryAt'[r]
  BY DEF RetryOK
<1> DEFINE Far == IF persistent
                  THEN \A e \in Kept : stamp[e] + Window < retryAt[r]
                  ELSE \/ Cardinality(Kept) < Limit
                       \/ \E e \in Kept : stamp[e] + Window < retryAt[r]
<1> SUFFICES Far'
  OBVIOUS
<1>0. /\ phase \in [Requests -> Phases] /\ stamp \in [Requests -> 0..now] /\ now \in Nat
      /\ seen \in [Requests -> 0..appended] /\ appended \in Nat
      /\ retryAt \in [Requests -> Nat]
      /\ IsFiniteSet(Kept) /\ Cardinality(Kept) \in Nat
      /\ ~persistent => Cardinality(Kept) <= Limit
  BY LimiterFinite DEF TypeOK
<1>1. phase[r] = "refused" /\ seen[r] = appended => Far
  BY DEF RetryOK
(* What shrinks may lose the stamp, but then there is room.                *)
<1>2. ASSUME Far, Kept' \subseteq Kept, persistent \/ ~persistent',
             persistent' = persistent, stamp' = stamp, retryAt'[r] = retryAt[r]
      PROVE  Far'
  <2>1. CASE persistent
    BY <1>2, <2>1
  <2>2. CASE ~persistent /\ Kept' = Kept
    BY <1>2, <2>2
  <2>3. CASE ~persistent /\ Kept' # Kept
    <3>1. Cardinality(Kept') \in Nat /\ Cardinality(Kept') < Cardinality(Kept)
      BY <1>0, <1>2, <2>3, FS_Subset, FS_CardinalityType
    <3>2. Cardinality(Kept') < Limit
      BY <1>0, <2>3, <3>1, LimiterAssumption
    <3>3. QED
      BY <1>2, <2>3, <3>2
  <2>4. QED
    BY <2>1, <2>2, <2>3
(* An insertion after the refusal is counted.                              *)
<1>3. ASSUME NEW q \in Requests, StoreRecord(q) \/ MemoryAdmit(q) PROVE FALSE
  <2>1. appended' = appended + 1 /\ seen' = seen
    BY <1>3 DEF StoreRecord, MemoryAdmit, Insert
  <2>2. QED
    BY <1>0, <2>1
<1>4. ASSUME NEW q \in Requests, Stamp(q) PROVE Far'
  <2>1. r # q /\ phase[r] = "refused" /\ seen[r] = appended /\ Kept' = Kept
    BY <1>0, <1>4 DEF Stamp, Kept
  <2>2. \A e \in Kept : stamp'[e] = stamp[e]
    BY <1>0, <1>4 DEF Stamp, Kept, PlaceOK
  <2>3. QED
    BY <1>1, <1>4, <2>1, <2>2 DEF Stamp
<1>5. ASSUME NEW q \in Requests, StoreCount(q) PROVE Far'
  <2>1. phase[r] = "refused" /\ seen[r] = appended /\ Kept' = Kept
    BY <1>0, <1>5 DEF StoreCount, Kept
  <2>2. QED
    BY <1>1, <1>2, <1>5, <2>1 DEF StoreCount
<1>6. ASSUME NEW q \in Requests, StoreFails(q) PROVE Far'
  <2>1. UNCHANGED <<events, appended>>
    BY <1>0, <1>6 DEF StoreFails, Insert
  <2>2. phase[r] = "refused" /\ seen[r] = appended /\ Kept' = Kept
    BY <1>0, <1>6, <2>1 DEF StoreFails, Kept
  <2>3. QED
    BY <1>1, <1>2, <1>6, <2>2 DEF StoreFails
<1>7. ASSUME NEW q \in Requests, StoreRefuse(q) PROVE Far'
  <2>1. CASE q = r
    <3>1. persistent' /\ Kept' = Kept /\ stamp' = stamp /\ retryAt'[r] = now + Window + 1
      BY <1>0, <1>7, <2>1 DEF StoreRefuse, Refuse, Kept
    <3>2. \A e \in Kept : stamp[e] \in 0..now
      BY <1>0 DEF Kept
    <3>3. \A e \in Kept' : stamp'[e] + Window < retryAt'[r]
      BY <1>0, <3>1, <3>2, LimiterAssumption
    <3>4. QED
      BY <3>1, <3>3
  <2>2. CASE q # r
    <3>1. /\ phase[r] = "refused" /\ seen[r] = appended /\ Kept' = Kept
          /\ retryAt'[r] = retryAt[r]
      BY <1>0, <1>7, <2>2 DEF StoreRefuse, Refuse, Kept
    <3>2. QED
      BY <1>1, <1>2, <1>7, <3>1 DEF StoreRefuse
  <2>3. QED
    BY <2>1, <2>2
<1>8. ASSUME NEW q \in Requests, MemoryRefuse(q) PROVE Far'
  <2>0. phase[q] = "stamped" /\ ~persistent' /\ ~persistent /\ stamp' = stamp
    BY <1>8 DEF MemoryRefuse
  <2>1. Kept' = Valid(stamp[q]) /\ Kept' \subseteq Kept
    BY <1>8, <2>0, MemoryKeeps, LimiterFinite
  <2>2. CASE q = r
    <3>1. PICK first \in Valid(stamp[r]) :
            LET leaves == stamp[first] + Window
            IN  Refuse(r, IF leaves <= stamp[r] THEN 1 ELSE leaves - stamp[r])
      BY <1>8, <2>2, Zenon DEF MemoryRefuse
    <3>2. stamp[first] + Window > stamp[r]
      BY <2>0 DEF Valid, InWindow
    <3>3. stamp[first] \in Nat /\ stamp[r] \in 0..now
      BY <1>0 DEF Valid, Kept
    <3>4. Refuse(r, stamp[first] + Window - stamp[r])
      BY <3>1, <3>2, <3>3, LimiterAssumption
    <3>5. retryAt'[r] = now + (stamp[first] + Window - stamp[r]) + 1
      BY <1>0, <3>4 DEF Refuse
    <3>6. stamp[first] + Window < retryAt'[r]
      BY <1>0, <3>3, <3>5, LimiterAssumption
    <3>7. QED
      BY <2>0, <2>1, <2>2, <3>6
  <2>3. CASE q # r
    <3>1. /\ phase[r] = "refused" /\ seen[r] = appended
          /\ retryAt'[r] = retryAt[r]
      BY <1>0, <1>8, <2>3 DEF MemoryRefuse, Refuse
    <3>2. QED
      BY <1>1, <1>2, <1>8, <2>0, <2>1, <3>1 DEF MemoryRefuse
  <2>4. QED
    BY <2>2, <2>3
<1>9. CASE Restart
  <2>1. /\ phase[r] = "refused" /\ seen[r] = appended /\ persistent
        /\ Kept' = Kept
    BY <1>0, <1>9 DEF Restart, Kept
  <2>2. QED
    BY <1>1, <1>2, <1>9, <2>1 DEF Restart
<1>10. CASE Tick \/ UNCHANGED vars
  <2>1. phase[r] = "refused" /\ seen[r] = appended /\ Kept' = Kept
    BY <1>10 DEF Tick, vars, Kept
  <2>2. QED
    BY <1>1, <1>2, <1>10, <2>1 DEF Tick, vars
<1>11. QED
  BY <1>3, <1>4, <1>5, <1>6, <1>7, <1>8, <1>9, <1>10 DEF Next

LEMMA LimiterStep == LimiterInv /\ [Next]_vars => LimiterInv'
BY LimiterTypes, StoreBoundStep, MemoryBoundStep, RetryStep DEF LimiterInv

(* A burst exceeds the limit by the requests in flight beside it at most.  *)
LEMMA LimiterBurst == LimiterInv => BurstBound
<1> SUFFICES ASSUME LimiterInv, NEW r \in Admitted
             PROVE  Cardinality(AdmittedWithin(stamp[r])) <= Limit + MaxInFlight - 1
  BY DEF BurstBound
<1> DEFINE s == stamp[r]
<1>1. TypeOK /\ FlightOK /\ PlaceOK /\ StoreBound /\ MemoryBound
  BY DEF LimiterInv
<1>2. s \in Nat
  BY <1>1 DEF TypeOK, Admitted
<1>3. /\ AdmittedWithin(s) \subseteq Within({"counted", "admitted"}, s)
      /\ AdmittedWithin(s) \subseteq Within({"stamped", "admitted"}, s)
      /\ AdmittedWithin(s) = Within({"admitted"}, s)
  BY DEF AdmittedWithin, Admitted, Within
<1>4. /\ IsFiniteSet(Within({"counted", "admitted"}, s))
      /\ IsFiniteSet(Within({"stamped", "admitted"}, s))
      /\ IsFiniteSet(Within({"admitted"}, s))
  BY <1>1, LimiterFinite
<1>5. CASE persistent
  BY <1>1, <1>2, <1>3, <1>4, <1>5, CardLe, LimiterAssumption DEF StoreBound
<1>6. CASE ~persistent
  <2>1. \/ Cardinality(Within({"admitted"}, s)) <= Limit
        \/ Cardinality(Within({"stamped", "admitted"}, s)) <= Limit + MaxInFlight - 1
    BY <1>1, <1>2, <1>6 DEF MemoryBound
  <2>2. QED
    BY <1>3, <1>4, <2>1, CardLe, LimiterAssumption
<1>7. QED
  BY <1>5, <1>6

(* Without a store no key keeps more than Limit stamps.                    *)
THEOREM LimiterTypeCorrect == Spec => []TypeOK
BY LimiterInit, LimiterStep, PTL DEF Spec, LimiterInv

(* However the requests interleave and however long they stay inside       *)
(* AllowKey, no burst goes over the limit by more than those in flight.    *)
THEOREM BurstIsBounded == Spec => []BurstBound
BY LimiterInit, LimiterStep, LimiterBurst, PTL DEF Spec

(* A request that waited as it was told is not refused, unless somebody    *)
(* was admitted since.                                                     *)
LEMMA RetryIsEnoughStep ==
  LimiterInv /\ [Next]_vars =>
    [\A q, r \in Requests :
       ( /\ phase[q] = "stamped"
         /\ phase[r] = "refused"
         /\ stamp[q] >= retryAt[r]
         /\ seen[r] = appended ) => phase'[q] # "refused"]_vars
<1> SUFFICES ASSUME LimiterInv, Next, NEW q \in Requests, NEW r \in Requests,
                    phase[q] = "stamped", phase[r] = "refused",
                    stamp[q] >= retryAt[r], seen[r] = appended,
                    phase'[q] = "refused"
             PROVE  FALSE
  OBVIOUS
<1>0. /\ TypeOK /\ FlightOK /\ PlaceOK /\ RetryOK
      /\ phase \in [Requests -> Phases] /\ stamp \in [Requests -> 0..now] /\ now \in Nat
      /\ retryAt \in [Requests -> Nat]
  BY DEF LimiterInv, TypeOK
<1>1. StoreRefuse(q) \/ MemoryRefuse(q)
  BY <1>0
     DEF Next, Stamp, StoreCount, StoreRefuse, StoreRecord, StoreFails, MemoryAdmit,
         MemoryRefuse, Refuse, Restart, Tick
<1>2. Count(stamp[q]) >= Limit
  BY <1>1 DEF StoreRefuse, MemoryRefuse
<1>3. CASE persistent
  <2>1. \A e \in Kept : ~InWindow(stamp[e], stamp[q])
    <3>1. \A e \in Kept : stamp[e] \in Nat /\ stamp[e] + Window < retryAt[r]
      BY <1>0, <1>3 DEF RetryOK, Kept
    <3>2. stamp[q] \in Nat /\ retryAt[r] \in Nat
      BY <1>0
    <3>3. QED
      BY <1>3, <3>1, <3>2, LimiterAssumption DEF InWindow
  <2>2. Valid(stamp[q]) = {}
    BY <2>1 DEF Valid
  <2>3. QED
    BY <1>2, <2>2, FS_EmptySet, LimiterAssumption DEF Count
<1>4. CASE ~persistent
  <2>0. /\ Valid(stamp[q]) \subseteq Kept /\ IsFiniteSet(Kept)
        /\ Cardinality(Kept) \in Nat /\ Cardinality(Kept) <= Limit
        /\ Count(stamp[q]) \in Nat
    BY <1>0, <1>4, LimiterFinite DEF TypeOK
  <2>1. CASE Cardinality(Kept) < Limit
    BY <1>2, <2>0, <2>1, CardLe, LimiterAssumption DEF Count
  <2>2. CASE \E e \in Kept : stamp[e] + Window < retryAt[r]
    <3>1. PICK e \in Kept : stamp[e] + Window < retryAt[r]
      BY <2>2
    <3>2. ~InWindow(stamp[e], stamp[q])
      BY <1>0, <1>4, <3>1, LimiterAssumption DEF InWindow, Kept
    <3>3. Valid(stamp[q]) # Kept
      BY <3>2 DEF Valid
    <3>4. Cardinality(Valid(stamp[q])) < Cardinality(Kept)
      BY <2>0, <3>3, FS_Subset, FS_CardinalityType DEF Count
    <3>5. QED
      BY <1>2, <2>0, <3>4, LimiterAssumption DEF Count
  <2>3. QED
    BY <1>0, <1>4, <2>1, <2>2 DEF RetryOK
<1>5. QED
  BY <1>3, <1>4

(* Whoever comes no earlier than Retry-After said is let in, when nothing  *)
(* was recorded since.                                                     *)
THEOREM RetryAfterHonest == Spec => RetryAfterIsEnough
BY LimiterInit, LimiterStep, RetryIsEnoughStep, PTL DEF Spec, RetryAfterIsEnough

-----------------------------------------------------------------------------
(* The parts side by side: a step of ToolsSpec is a step of each or leaves *)
(* it alone.                                                               *)
LEMMA ToolsInits ==
  Init4 => Init /\ Assets!Init /\ Promote!Init /\ Tree!Init
BY DEF Init4

LEMMA ToolsSteps ==
  [Next4]_<<part, vars, assetVars, releaseVars, treeVars>>
    => /\ [Next]_vars
       /\ [Assets!Next]_(Assets!vars)
       /\ [Promote!Next]_(Promote!vars)
       /\ [Tree!Next]_(Tree!vars)
BY DEF Next4, On, Others, assetVars, releaseVars, treeVars, Assets!vars,
       Promote!vars, Tree!vars

(* What an index names is in the bucket, and what prod says is published   *)
(* is, for all developers, contents and operators.                         *)
THEOREM NamedIsThereAlways == ToolsSpec => []NamedIsThere
<1>1. AssetsInv /\ PromoteInv => NamedIsThere
  BY DEF AssetsInv, PromoteInv, NamedIsThere
<1>2. QED
  BY <1>1, ToolsInits, ToolsSteps, AssetsInit, AssetsStep, PromoteInit,
     PromoteStep, PTL DEF ToolsSpec

(* Files, demo and branches move for a reason only, and a repository that  *)
(* is said to be there is complete, whoever works beside.                  *)
THEOREM MovedForAReason == ToolsSpec => MovesForAReason
<1>1. ToolsSpec => Assets!Spec /\ Promote!Spec /\ Tree!Spec
  BY ToolsInits, ToolsSteps, PTL DEF ToolsSpec, Assets!Spec, Promote!Spec, Tree!Spec
<1>2. QED
  BY <1>1, AssetsPullKeeps, PromoteForAReason, TreeMovesForAReason,
     TreeSuccessIsWhole DEF MovesForAReason

(* Each part keeps its types, and the limiter's memory its bound.          *)
THEOREM ToolsTypeCorrect == ToolsSpec => []ToolsTypeOK
<1>1. LimiterInv /\ AssetsInv /\ PromoteInv /\ TreeInv => ToolsTypeOK
  BY DEF LimiterInv, AssetsInv, PromoteInv, TreeInv, ToolsTypeOK
<1>2. QED
  BY <1>1, ToolsInits, ToolsSteps, LimiterInit, LimiterStep, AssetsInit, AssetsStep,
     PromoteInit, PromoteStep, TreeInit, TreeStep, PTL DEF ToolsSpec

=============================================================================
