------------------------------ MODULE Updater ------------------------------
(***************************************************************************)
(* orbit self-update and the notice of a newer release that other commands *)
(* end with, over a cached check (pkg/updater).                            *)
(*                                                                         *)
(* Releases are numbers; 0 is a development build, older than every one.   *)
(* The release API, the download and the replacement of the binary (by     *)
(* go-selfupdate) are external: the newest release may lack a binary for   *)
(* this platform or the file of checksums, and a download may be damaged.  *)
(***************************************************************************)
EXTENDS Naturals

CONSTANTS
  None,
  MaxRelease      \* bound: releases

VARIABLES
  latest,         \* newest release: [version, asset, sums], version 0: none
  binary,         \* what is installed: [version, whole]
  cache,          \* update-check.json: [latest, fresh], or None
  task,           \* self-update: [at, from, found, checked]
  notice          \* the release the last notice offered, or None

vars == <<latest, binary, cache, task, notice>>

Idle == [at |-> "idle", from |-> 0, found |-> 0, checked |-> TRUE]

IsNewerVersion(current, target) == target > current

-----------------------------------------------------------------------------
Init ==
  /\ latest = [version |-> 0, asset |-> FALSE, sums |-> FALSE]
  /\ binary \in [version : 0..1, whole : {TRUE}]
  /\ cache = None
  /\ task = Idle
  /\ notice = None

Publish ==
  /\ latest.version < MaxRelease
  /\ \E asset, sums \in BOOLEAN :
       latest' = [version |-> latest.version + 1, asset |-> asset, sums |-> sums]
  /\ UNCHANGED <<binary, cache, task, notice>>

Expire ==
  /\ cache # None
  /\ cache' = [cache EXCEPT !.fresh = FALSE]
  /\ UNCHANGED <<latest, binary, task, notice>>

(* Mutant: the cached answer says that there is an update. *)
FromCacheAsWritten(c, current) == c.latest

(* CheckCached: within its TTL the cached release is compared with the     *)
(* version that runs (main.go:94), here the one that is installed: they    *)
(* differ for a command that began before a self-update in another         *)
(* terminal.  Otherwise the API is asked and the answer written, if it can *)
(* be.                                                                     *)
FromCache(c, current) ==
  IF IsNewerVersion(current, c.latest) THEN c.latest ELSE None

Offer(version) ==
  IF IsNewerVersion(binary.version, version) THEN version ELSE None

Notify ==
  /\ IF cache # None /\ cache.fresh
     THEN /\ notice' = FromCache(cache, binary.version)
          /\ UNCHANGED cache
     ELSE \/ /\ latest.version > 0
             /\ notice' = Offer(latest.version)
             /\ cache' \in {cache, [latest |-> latest.version, fresh |-> TRUE]}
          \/ notice' = None /\ UNCHANGED cache         \* the API fails
  /\ UNCHANGED <<latest, binary, task>>

(* Service.SelfUpdate asks the API, not the cache, and then the user. *)
Check ==
  /\ task.at \in {"idle", "uptodate", "updated", "failed"}
  /\ \/ /\ latest.version > 0
        /\ task' = [ Idle EXCEPT
             !.at = IF IsNewerVersion(binary.version, latest.version)
                    THEN "confirm" ELSE "uptodate",
             !.from = binary.version, !.found = latest.version ]
     \/ task' = [Idle EXCEPT !.at = "failed"]
  /\ UNCHANGED <<latest, binary, cache, notice>>

Confirm(yes) ==
  /\ task.at = "confirm"
  /\ task' = [task EXCEPT !.at = IF yes THEN "install" ELSE "idle"]
  /\ UNCHANGED <<latest, binary, cache, notice>>

(* UpdateSelf looks itself for the newest release with a binary for the    *)
(* platform, which may be an older one.  If that is not newer than what    *)
(* runs it returns no error.  A failed validation, whatever the reason,    *)
(* starts it again without one.                                            *)
Candidates == IF latest.asset THEN {latest.version} ELSE 0..(latest.version - 1)

Install ==
  /\ task.at = "install"
  /\ \/ \E found \in Candidates :
          /\ ~IsNewerVersion(task.from, found)
          /\ task' = [task EXCEPT !.at = "updated"]
          /\ UNCHANGED binary
     \/ \E found \in Candidates, whole, sums \in BOOLEAN :
          /\ IsNewerVersion(task.from, found)
          /\ found = latest.version => sums = latest.sums
          /\ IF task.checked /\ ~(sums /\ whole)
             THEN /\ task' = [task EXCEPT !.checked = FALSE]
                  /\ UNCHANGED binary
             ELSE /\ task' = [task EXCEPT !.at = "updated"]
                  /\ binary' = [version |-> found, whole |-> whole]
     \/ /\ task' = [task EXCEPT !.at = "failed"]
        /\ UNCHANGED binary
  /\ UNCHANGED <<latest, cache, notice>>

Next ==
  \/ Publish \/ Expire
  \/ Notify
  \/ Check
  \/ \E yes \in BOOLEAN : Confirm(yes)
  \/ Install

Spec == Init /\ [][Next]_vars

-----------------------------------------------------------------------------
TypeOK ==
  /\ latest \in [version : 0..MaxRelease, asset : BOOLEAN, sums : BOOLEAN]
  /\ binary \in [version : 0..MaxRelease, whole : BOOLEAN]
  /\ cache # None => cache \in [latest : 1..MaxRelease, fresh : BOOLEAN]
  /\ task \in [ at : {"idle", "confirm", "install", "uptodate", "updated",
                      "failed"},
                from : 0..MaxRelease, found : 0..MaxRelease,
                checked : BOOLEAN ]
  /\ notice \in (1..MaxRelease) \union {None}

(* A notice offers a release that is newer than the binary, also when the  *)
(* check it reads was cached before an update.                             *)
NoticeIsAnUpgrade ==
  [][notice' \notin {None, notice} =>
       notice' > binary.version /\ notice' <= latest.version]_vars

(* self-update that says "Successfully updated" has installed the release  *)
(* it offered or a newer one.                                              *)
UpdatedIsInstalled == task.at = "updated" => binary.version >= task.found

(* Where the release publishes checksums, what is installed matches them.  *)
InstalledIsVerified ==
  [][binary' # binary /\ binary'.version = latest.version /\ latest.sums
       => binary'.whole]_vars

=============================================================================
