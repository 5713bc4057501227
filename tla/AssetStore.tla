---------------------------- MODULE AssetStore ----------------------------
(***************************************************************************)
(* orbit assets (assets/application): a gitignored file, its line in the   *)
(* orbit-assets.yaml of each developer's clone, and the bucket that keeps  *)
(* contents under their hash.  A content stands for its hash.  All of them *)
(* have the same length: an upload whose length is not the index's is      *)
(* refused and ends like any call that fails.                              *)
(*                                                                         *)
(* Each developer runs one command at a time and edits the file whenever   *)
(* they like; git passes the index on.  The commands of two developers     *)
(* meet only in the bucket.                                                *)
(***************************************************************************)
CONSTANTS
  Devs,           \* developers, each with a clone of the repository
  Contents,       \* what the file may contain
  None            \* no file, no line, no object

VARIABLES
  bucket,         \* the object under each hash
  lost,           \* external: the object the bucket lost, as after a move
  file,           \* the file on each disk
  index,          \* the hash in each index
  job             \* the command each developer is running

vars == <<bucket, lost, file, index, job>>

Steps == {"idle", "add.Exists", "add.Put", "add.Save",
          "pull.Get", "pull.Write", "push.Put"}

Idle == [step |-> "idle", sum |-> None, force |-> FALSE, touched |-> FALSE]

(* touched: the developer changed the file since the command looked at it. *)
Run(step, sum, force) ==
  [step |-> step, sum |-> sum, force |-> force, touched |-> FALSE]

At(d, step) == job[d].step = step
Goto(d, step) == job' = [job EXCEPT ![d].step = step]
End(d) == job' = [job EXCEPT ![d] = Idle]

Init ==
  /\ bucket = [k \in Contents |-> None]
  /\ lost = None
  /\ file \in [Devs -> Contents \union {None}]
  /\ index = [d \in Devs |-> None]
  /\ job = [d \in Devs |-> Idle]

-----------------------------------------------------------------------------
(* Add: hash the file, ask for the object, upload it, save the index.      *)
AddHash(d) ==
  /\ At(d, "idle")
  /\ file[d] # None
  /\ job' = [job EXCEPT ![d] = Run("add.Exists", file[d], FALSE)]
  /\ UNCHANGED <<bucket, lost, file, index>>

AddExists(d) ==
  /\ At(d, "add.Exists")
  /\ Goto(d, IF bucket[job[d].sum] = None THEN "add.Put" ELSE "add.Save")
  /\ UNCHANGED <<bucket, lost, file, index>>

(* The file is opened again: what it contains now goes under the hash. *)
Upload(d) ==
  /\ file[d] # None
  /\ bucket' = [bucket EXCEPT ![job[d].sum] = file[d]]
  /\ UNCHANGED <<lost, file, index>>

AddPut(d) ==
  /\ At(d, "add.Put")
  /\ Upload(d)
  /\ Goto(d, "add.Save")

AddSave(d) ==
  /\ At(d, "add.Save")
  /\ index' = [index EXCEPT ![d] = job[d].sum]
  /\ End(d)
  /\ UNCHANGED <<bucket, lost, file>>

(* Mutant: a file that differs from the index is fetched anew. *)
PullLocalAlways(d) ==
  /\ At(d, "idle")
  /\ index[d] # None
  /\ file[d] # index[d]
  /\ \E force \in BOOLEAN :
       job' = [job EXCEPT ![d] = Run("pull.Get", index[d], force)]
  /\ UNCHANGED <<bucket, lost, file, index>>

(* Pull: a file that differs from the index is replaced with --force only; *)
(* one that agrees with it is left alone.                                  *)
PullLocal(d) ==
  /\ At(d, "idle")
  /\ index[d] # None
  /\ file[d] # index[d]
  /\ \E force \in BOOLEAN :
       /\ file[d] = None \/ force
       /\ job' = [job EXCEPT ![d] = Run("pull.Get", index[d], force)]
  /\ UNCHANGED <<bucket, lost, file, index>>

(* The downloaded bytes must have the hash they were asked for by. *)
PullGet(d) ==
  /\ At(d, "pull.Get")
  /\ bucket[job[d].sum] = job[d].sum
  /\ Goto(d, "pull.Write")
  /\ UNCHANGED <<bucket, lost, file, index>>

(* A rename puts the download in place of whatever is there by then. *)
PullWrite(d) ==
  /\ At(d, "pull.Write")
  /\ file' = [file EXCEPT ![d] = job[d].sum]
  /\ End(d)
  /\ UNCHANGED <<bucket, lost, index>>

(* Push: whatever the file contains goes under the hash of the index. *)
PushExists(d) ==
  /\ At(d, "idle")
  /\ index[d] # None
  /\ bucket[index[d]] = None
  /\ job' = [job EXCEPT ![d] = Run("push.Put", index[d], FALSE)]
  /\ UNCHANGED <<bucket, lost, file, index>>

PushPut(d) ==
  /\ At(d, "push.Put")
  /\ Upload(d)
  /\ End(d)

(* Mutant: an upload that fails does not stop the addition. *)
FailGoesOn(d) ==
  /\ ~At(d, "idle")
  /\ IF At(d, "add.Put") THEN Goto(d, "add.Save") ELSE End(d)
  /\ UNCHANGED <<bucket, lost, file, index>>

(* Any call may fail, and the command may be killed. *)
Fail(d) ==
  /\ ~At(d, "idle")
  /\ End(d)
  /\ UNCHANGED <<bucket, lost, file, index>>

-----------------------------------------------------------------------------
(* The world: an editor, git, the bucket. *)
Edit(d) ==
  /\ \E c \in (Contents \union {None}) \ {file[d]} :
       file' = [file EXCEPT ![d] = c]
  /\ job' = [job EXCEPT ![d].touched = ~At(d, "idle")]
  /\ UNCHANGED <<bucket, lost, index>>

Share(d, e) ==
  /\ index[e] \notin {None, index[d]}
  /\ index' = [index EXCEPT ![d] = index[e]]
  /\ UNCHANGED <<bucket, lost, file, job>>

(* One object disappears, once: what push is for. *)
Lose(k) ==
  /\ lost = None
  /\ bucket[k] # None
  /\ bucket' = [bucket EXCEPT ![k] = None]
  /\ lost' = k
  /\ UNCHANGED <<file, index, job>>

Next ==
  \/ \E d \in Devs :
       \/ AddHash(d) \/ AddExists(d) \/ AddPut(d) \/ AddSave(d)
       \/ PullLocal(d) \/ PullGet(d) \/ PullWrite(d)
       \/ PushExists(d) \/ PushPut(d)
       \/ Fail(d)
       \/ Edit(d)
  \/ \E d, e \in Devs : Share(d, e)
  \/ \E k \in Contents : Lose(k)

Spec == Init /\ [][Next]_vars

-----------------------------------------------------------------------------
(* A command that runs knows the hash it works for. *)
TypeOK ==
  /\ bucket \in [Contents -> Contents \union {None}]
  /\ lost \in Contents \union {None}
  /\ file \in [Devs -> Contents \union {None}]
  /\ index \in [Devs -> Contents \union {None}]
  /\ job \in [ Devs ->
                [ step    : Steps,
                  sum     : Contents \union {None},
                  force   : BOOLEAN,
                  touched : BOOLEAN ] ]
  /\ \A d \in Devs : At(d, "idle") <=> job[d].sum = None

(* What any index names is in the bucket, however additions fail, are cut  *)
(* short or race each other, and wherever git carries the index: Add saves *)
(* the index last.  The bucket's own losses excepted.                      *)
IndexedIsStored ==
  \A d \in Devs :
    index[d] # None => bucket[index[d]] # None \/ index[d] = lost

(* Pull replaces what a developer has in the file with --force only, or    *)
(* when the file changed while the download ran.                           *)
UnforcedPullKeeps ==
  [][\A d \in Devs :
       /\ At(d, "pull.Write")
       /\ job'[d].step = "idle"
       /\ file[d] # None
       /\ file'[d] # file[d]
       => job[d].force \/ job[d].touched]_vars

(* The object under a hash has that hash.  Push and Add hash nothing while *)
(* they upload, so an edited file goes under the hash of the old one; Pull *)
(* then refuses it for everybody, and Exists keeps it from being replaced. *)
ObjectsAreWhatTheyAreCalled ==
  \A k \in Contents : bucket[k] \in {None, k}

=============================================================================
