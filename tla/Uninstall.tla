----------------------------- MODULE Uninstall -----------------------------
(***************************************************************************)
(* orbit uninstall: the removal of the binaries, shell completions, man    *)
(* pages and, when asked for, the state directories (pkg/uninstall).       *)
(*                                                                         *)
(* A path is <<base, name>>.  What hangs below the user's home is looked   *)
(* for in the current directory when the home is not known.  install.sh    *)
(* makes "o" a link to the "orbit" beside it.  A removal may fail, with    *)
(* sudo too.                                                               *)
(***************************************************************************)
EXTENDS Naturals, Sequences

VARIABLES
  disk,     \* [path -> "none", "file", "link" or "dir"]
  flags,    \* [force, tty, state, repos, home]: -y, a terminal, the purges,
            \* and the base of the user's files, "cwd" if it is unknown
  task      \* the command: [at, left, agreed, removed, failed]

vars == <<disk, flags, task>>

StateDirs == {".orbit", ".config/orbit"}

Binaries == {"system", "home"} \X {"orbit", "o"}

Workspace == <<"cwd", "repos">>

Paths ==
  Binaries \cup {"home", "cwd"} \X ({"_orbit", "orbit.1"} \cup StateDirs) \cup {Workspace}

(* Stat and IsDir follow a link to the binary beside it. *)
Target(p) == IF disk[p] = "link" THEN <<p[1], "orbit">> ELSE p

Exists(p) == p \in Paths /\ disk[Target(p)] # "none"

Idle == [at |-> "idle", left |-> <<>>, agreed |-> FALSE, removed |-> {}, failed |-> FALSE]

-----------------------------------------------------------------------------
(* A base has "orbit" and the link, a copy made by hand, or a link whose   *)
(* binary is gone; the current directory is a workspace.                   *)
Installed ==
  { [orbit |-> "file", o |-> "link"], [orbit |-> "file", o |-> "file"],
    [orbit |-> "none", o |-> "none"], [orbit |-> "none", o |-> "link"] }

Init ==
  /\ \E system, user \in Installed :
       disk = [ p \in Paths |->
                  IF p \in Binaries
                  THEN (IF p[1] = "system" THEN system ELSE user)[p[2]]
                  ELSE IF p = Workspace \/ p[2] \in StateDirs THEN "dir"
                  ELSE IF p[1] = "home" THEN "file" ELSE "none" ]
  /\ flags = [force |-> FALSE, tty |-> FALSE, state |-> FALSE, repos |-> FALSE, home |-> "home"]
  /\ task = Idle

(* Mutant: /usr/local is left to the package manager. *)
UserCandidates(home) ==
  << <<"binary", <<home, "orbit">>>>, <<"binary", <<home, "o">>>> >>

(* The places looked at for a binary, without the one that runs. *)
Candidates(home) ==
  << <<"binary", <<"system", "orbit">>>>, <<"binary", <<"system", "o">>>>,
     <<"binary", <<home, "orbit">>>>, <<"binary", <<home, "o">>>> >>

(* The whole command, in its order: running is the binary that runs, which *)
(* comes last of them unless it is one of the others.                      *)
Work(home, running, state) ==
  LET others == Candidates(home)
      self == <<"binary", running>>
  IN others
       \o (IF \E i \in DOMAIN others : others[i] = self THEN <<>> ELSE <<self>>)
       \o << <<"completion", <<home, "_orbit">>>>, <<"man", <<home, "orbit.1">>>> >>
       \o (IF state THEN << <<"state", <<home, ".orbit">>>>,
                            <<"state", <<home, ".config/orbit">>>> >>
                    ELSE <<>>)

(* Mutant: the prompt is for those who did not ask for a purge. *)
AsksUnlessPurge(f) == ~f.force /\ f.tty /\ ~f.state

Asks(f) == ~f.force /\ f.tty

(* Uninstall refuses to purge a dirty workspace, and may ask.  Whether     *)
(* there is a terminal matters without -y only, and uncommitted changes    *)
(* with --purge-workspace only.                                            *)
Start ==
  /\ task.at = "idle"
  /\ \E f \in [force : BOOLEAN, tty : BOOLEAN, state : BOOLEAN, repos : BOOLEAN,
               home : {"home", "cwd"}], dirty \in BOOLEAN, running \in Binaries :
       /\ disk[running] = "file" /\ (f.force => f.tty) /\ (dirty => f.repos)
       /\ flags' = f
       /\ task' =
            IF f.repos /\ dirty /\ ~f.force THEN [Idle EXCEPT !.at = "refused"]
            ELSE [ Idle EXCEPT !.at = IF Asks(f) THEN "confirm" ELSE "remove",
                               !.left = Work(f.home, running, f.state) ]
  /\ UNCHANGED disk

Confirm(yes) ==
  /\ task.at = "confirm"
  /\ task' = IF yes THEN [task EXCEPT !.at = "remove", !.agreed = TRUE]
                    ELSE [Idle EXCEPT !.at = "aborted"]
  /\ UNCHANGED <<disk, flags>>

Item == Head(task.left)

Path == Item[2]

At(kind) == task.at = "remove" /\ task.left # <<>> /\ Item[1] = kind

Skip ==
  /\ task' = [task EXCEPT !.left = Tail(@)]
  /\ UNCHANGED <<disk, flags>>

Removed ==
  /\ disk' = [disk EXCEPT ![Path] = "none"]
  /\ task' = [task EXCEPT !.left = Tail(@), !.removed = @ \cup {Item}]
  /\ UNCHANGED flags

(* reported: whether a failed removal counts as done all the same. *)
NotRemoved(reported) ==
  /\ task' = [ task EXCEPT !.left = Tail(@), !.failed = TRUE,
                           !.removed = IF reported THEN @ \cup {Item} ELSE @ ]
  /\ UNCHANGED <<disk, flags>>

(* Mutant: a binary is reported whether or not it could be removed. *)
BinaryAnyway ==
  /\ At("binary")
  /\ IF Exists(Path) THEN Removed \/ NotRemoved(TRUE) ELSE Skip

(* A link whose binary is gone does not exist for Stat. *)
Binary ==
  /\ At("binary")
  /\ IF Exists(Path) THEN Removed \/ NotRemoved(FALSE) ELSE Skip

(* The error of this removal is not looked at. *)
Completion ==
  /\ At("completion")
  /\ IF Exists(Path) THEN Removed \/ NotRemoved(TRUE) ELSE Skip

ManPage ==
  /\ At("man")
  /\ IF Exists(Path) THEN Removed \/ NotRemoved(FALSE) ELSE Skip

(* Nor is that of this one, which may leave a part of the directory. *)
State ==
  /\ At("state")
  /\ IF Exists(Path) THEN Removed \/ NotRemoved(TRUE) ELSE Skip

Finish ==
  /\ task.at = "remove" /\ task.left = <<>>
  /\ task' = [task EXCEPT !.at = "done"]
  /\ UNCHANGED <<disk, flags>>

Next ==
  \/ Start
  \/ \E yes \in BOOLEAN : Confirm(yes)
  \/ Binary \/ Completion \/ ManPage \/ State
  \/ Finish

Spec == Init /\ [][Next]_vars

-----------------------------------------------------------------------------
TypeOK ==
  /\ disk \in [Paths -> {"none", "file", "link", "dir"}]
  /\ task.at \in {"idle", "refused", "confirm", "aborted", "remove", "done"}
  /\ task.failed \in BOOLEAN

(* A command that ends without a failed removal leaves no binary that can  *)
(* be run where it looked, and the binaries and man pages reported as      *)
(* removed are gone.                                                       *)
GoneAsReported ==
  /\ task.at = "done" /\ ~task.failed =>
       \A b \in Binaries : b[1] \in {"system", flags.home} => disk[b] # "file"
  /\ \A r \in task.removed : r[1] \in {"binary", "man"} => disk[r[2]] = "none"

(* Nothing is removed before the user, if there is one to ask, agrees; a   *)
(* state directory only when asked for; and no repository ever.            *)
RemovedAsAgreed ==
  [][ \A p \in Paths :
        disk[p] # disk'[p] =>
          /\ task.agreed \/ flags.force \/ ~flags.tty
          /\ p[2] \in StateDirs => flags.state
          /\ p # Workspace ]_vars

(* What the documentation says, each refuted: the binaries are removed,    *)
(* the links to them too;                                                  *)
BinariesAreRemoved ==
  task.at = "done" /\ ~task.failed =>
    \A b \in Binaries : b[1] \in {"system", flags.home} => disk[b] = "none"

(* what is reported as removed or purged is gone;                          *)
ReportedIsGone == \A r \in task.removed : disk[r[2]] = "none"

(* the repositories are purged when asked for;                             *)
WorkspaceIsPurged == task.at = "done" /\ flags.repos => disk[Workspace] = "none"

(* only the state directories of the home are purged.                      *)
HomeOnly == \A d \in StateDirs : disk[<<"cwd", d>>] # "none"

=============================================================================
