# Orbit: TLA+ models of the CLI and its onboarding edge

Orbit is a workspace orchestrator: a command-line tool (`cmd/orbit`, 30 packages under `pkg/`) and a
small server (`cmd/orbit-server`, the *edge*) that proves who owns a platform, issues admin grants and
provisions developers.  This directory holds TLA+ models of the parts whose behaviour depends on
interleaving, failure, time or repetition, the TLC configurations that check them, and proofs that
TLAPS checks.  Line numbers are those of the commit the models were written from; `PROJECT.json`
("map") gives the lines behind every definition.

## 1. Inventory

### The edge (`cmd/orbit-server`, `pkg/onboard/infrastructure/server`)

| Component | State | Operations | What is hard | What makes it correct |
|---|---|---|---|---|
| Ownership challenges (`owner/domain/challenge.go`, table `challenges`) | rows: address, code hash, attempts, verified, created, expires | `CreateChallenge`, `VerifyCode`, `PruneExpired`, `Clear` | `VerifyCode` works on a row it read earlier; the code is drawn outside the mutex; each store call may fail; restart between two statements | no code compared more often than its limit, none redeemed twice, only the newest open code of an address is compared, a lockout ends |
| Admin grants (`owner/domain/grant.go`, table `grants`) | rows: address, role, code hash, used, expires | `CreateGrant`, `RegisterGrantWithCode`, `VerifyGrant`, `RevokeGrant` | the same, and a strike counter that lives in a copy | redeemed at most once; compared only while no newer grant of the address is usable |
| Rate limiter (`server/ratelimit`, table `rate_limit_events`) | stamps per key | `AllowIP`, `AllowKey` | count and record are two statements; stamps are taken before the mutex | a bound on what a window admits; `Retry-After` is long enough |
| Provisioner (`devprovisioner`) | users, index by address, LLDAP, Forgejo, WireGuard peers, allocated offsets (memory) | `Provision`, `Rollback` | a stage fails after others; two addresses may share a uid; the address range ends | nothing of a failed call remains; addresses distinct; the index points to accounts |
| Claim endpoint (`server.go` `handleClaim`) | idempotency cache (memory, TTL) | `POST /v1/onboard/claim` | repeats while the first is under way, under keys the clients choose; expiry, restart, revocation | one credential per person who shares no key with others, a cache that describes live accounts |
| Admin endpoints (`handleAdminChallenge`, `handleAdminVerify`) | none of their own | route a code to grants, then to challenges | requests side by side, the fall-through from one manager to the other | whoever is verified has spent a code; one submission costs one ledger |
| SQLite schema | tables, version | `runMigrations` | one transaction per migration | not modelled |

### The developer's machine

| Component | State | Operations | What is hard | What makes it correct |
|---|---|---|---|---|
| Onboarding flow (`onboard/application`, `sessionstore`) | the checkpoint file; repositories, VPN profile, `mcp.env` | `orbit onboard` with `--resume`, `--dry-run`, `--rollback`, `--ignore-and-remove-checkpoint` | killed between an effect and its checkpoint; repeated, resumed, discarded runs; failed writes that go unnoticed | a saved credential is the one the edge holds; nothing is claimed twice; a completed session has consistent files; rollback undoes what onboarding did |
| Invites (`invite`) | `invites.json` | issue, create, list, revoke | several processes rewrite one file | what was reported issued or revoked is so on file |
| Owner vault (`owner`) | vault file | init, verify, rotate, grant, TOTP | rotation under a running server, two commands at once | the vault belongs to the owner proven last |
| Workspace (`workspace`) | git repositories | sync, repair, clone, status | check-then-merge, a `.git` copied half, two terminals | branches move in a clean sync only; who reports success leaves a repository |
| Pull requests, releases (`pr`, `release`) | the forge's | create, merge, deliver, demo, prod | checks that register late, heads that move, half-done delivery | every merge has a reason and rests on a whole list of checks; the gate answers; what is pruned is merged; demo moves for a reason; a prod that succeeds has published |
| Assets (`assets`) | the index in each clone, the bucket | add, pull, push, status | uploads that fail or race, edits while a command runs | what an index names is stored; pull keeps local work |
| Migrations (`migrate`) | state file, written in place | apply, status | crash between run and record, two terminals, half a file | what is recorded has run |
| Configuration (`config`) | `config.yaml` | set, unset, init, resolve | two commands read, change and rename; a value accepted by one reader and not by the next | what was reported is resolved; what was accepted can be used |
| Ports (`ports`) | none | allocate, list | ports come and go between scan and probe; blocks beyond the last port | the lowest free port of the project's own block |
| HTTP clients (`client`, `staff`) | none | the calls to edge and staff server | a request sent again after it took effect, one that arrives late | success stands for an effect, effects are not doubled, calls end |
| Self-update (`updater`) | cached check, the binary | check, notice, install | a cache from another version; a release without binary or checksums | a notice is an upgrade; success means installed |
| Onboarding wizard (`tui/onboard`) | the screen, commands in the background, the checkpoint file | keys, ticks, results | results of commands and keys in any order; two flows on one checkpoint | one command at a time; the credential survives |
| Local release tier (`release check --local`) | a throwaway database per repository | create, test, drop | env files edited between the calls of psql; a call that fails after it took effect | tests never touch the developer's database; a pass leaves nothing behind |
| Workspace audit (`audit`) | none; a report | seven checks, exceptions, accepted gaps | repositories read one after the other while they change; what cannot be read | exit code 0 is evidence, 1 accuses for a reason |
| Doctor (`doctor`) | the machine | diagnose, `--fix`, diagnose again | recipes chosen by the name of a complaint, answers that come too late | the verdict is about the machine as it is left; recipes do no harm |
| Environment and bootstrap (`env`, `init`, `migrate/infrastructure/workspace`) | `.env` files, hooks, links, `mcp.env` | check, validate, setup, init | another terminal and the developer edit the same files between look and write | what was there is kept; success is complete |
| CI runners and secrets (`ci`) | GitHub's | runners use, status, secrets sync | one call of `gh` after the other, each of which may fail half done | repositories are pinned for a reason; a success holds for each of them |
| Uninstall (`uninstall`) | binaries, completions, state directories | guards, confirmation, removals | links to what was removed, a home that is not known | nothing goes without consent; no usable binary stays |
| Dev stack (`dev`) | the ports of the core services | up, with its probes | containers, other terminals and other programs come and go | a line of readiness is evidence |
| Manifest, flags, wording and layout | none | | pure | not modelled |

### How they interact

`orbit onboard` sends a claim to the edge, with the hash of token and machine as its idempotency key (a header; the edge takes any key
it is sent, and computes that one if there is none); the edge limits, looks in its cache, validates the token, looks for a revocation, and calls the provisioner.  The answer is
written to the checkpoint and later into the VPN profile and `mcp.env`.  `orbit admin init|verify` asks
the edge for a mailed code and sends it back; an 8-digit code is tried as a grant first and as a challenge
next.  Challenges, grants and rate-limit events live in SQLite and survive the edge; accounts and the cache
do not.

## 2. Modules

| Module | Models | Kind |
|---|---|---|
| `OneTimeCodes` | what a mailed code promises: issued, guessed a bounded number of times, redeemed once or dead | abstract |
| `AccountDirectory` | what the claim endpoint needs from a provisioner: create a whole account, find it, remove it, lose everything | abstract |
| `Challenges` | `ChallengeManager` over SQLite; refines `OneTimeCodes` | detailed |
| `AdminGrants` | `GrantManager` over SQLite; refines `OneTimeCodes` with a guess limit that is never reached | detailed |
| `RateLimiter` | one key of the limiter, both forms | detailed |
| `Provisioner` | `DevProvisioner`; refines `AccountDirectory` | detailed |
| `ClaimServer` | `handleClaim`, the cache, over `AccountDirectory` | composition |
| `OnboardSession` | `application.Service` of onboarding, its checkpoint, and the account at the edge | detailed |
| `AdminAuth` | the administrator endpoints over two `OneTimeCodes` | composition |
| `OwnerDesk` | the owner's vault, the invitation file and the daemon's secret, used by several commands | composition |
| `MergeGate` | the polling and merging of `pr` and `release`, beside the forge | detailed |
| `Delivery` | `pr deliver` beside a developer who goes on working | detailed |
| `Promotion` | `release demo` and `release prod` by several operators | detailed |
| `AssetStore` | `assets add`, `pull` and `push` by several developers over one bucket | detailed |
| `WorkTree` | `init`, `sync` and `repair` on one directory, in several terminals | detailed |
| `Wizard` | the loop of the onboarding wizard, its screens and its checkpoints, beside the headless flow | detailed |
| `EdgeCalls` | the two HTTP clients, with retries, and `staff create` | detailed |
| `Migrations` | the engine of `orbit migrate` over its state file | detailed |
| `ConfigFile` | `orbit config` in several terminals, and the resolution of a configuration | detailed |
| `PortBlocks` | the search for a free port of a project's block | detailed |
| `Updater` | the cached check, its notice and the self-update | detailed |
| `LocalTier` | `release check --local`, its throwaway databases | detailed |
| `Audit` | the suite of `orbit audit`, from what a sensor sees to the exit code | detailed |
| `Doctor` | the battery, the recipes and the second battery of `orbit doctor` | detailed |
| `Bootstrap` | `init`, `env setup` and `env check` on the files of a workspace | detailed |
| `CIPool` | `ci runners` and `ci secrets sync`, call by call | detailed |
| `Uninstall` | `orbit uninstall` | detailed |
| `DevStack` | what `orbit dev` runs, and the probes of `dev up` | detailed |
| `ChallengesProofs`, `ProvisionerProofs`, `ClaimProofs`, `OnboardProofs` | theorems about `Challenges`, `Provisioner`, `ClaimServer`, `OnboardSession` | proofs |
| `ToolsProofs` | theorems about `RateLimiter`, `AssetStore`, `Promotion`, `WorkTree` | proofs |
| `PartsProofs` | theorems about `AdminAuth`, `OwnerDesk`, `MergeGate`, `Delivery` | proofs |
| `HostProofs` | theorems about `PortBlocks`, `Wizard`, `EdgeCalls`, `Migrations`, `ConfigFile`, `Updater`, `Uninstall`, `CIPool`, `LocalTier`, `DevStack` | proofs |
| `InspectProofs` | theorems about `AdminGrants`, `Audit`, `Doctor`, `Bootstrap` | proofs |
| `MC*` | instances for TLC | |

**Challenges.** One row per code that will ever be drawn; the row's number stands for the code, and row order
for `created_at` (a row is *drawn* before it is *saved*, as the code is hashed outside the mutex).
`verifier` is the one `VerifyCode` that holds the mutex: *fetched* (row read), *counted* (attempt stored),
*consumed* (`MarkVerified` stored), and between these `Tick` and `PruneExpired` may run.  A wrong guess is a
code other than the row's.  `compared` and `redeemed` are history.  `CountFails` and `MarkFails` are the
failing store calls: they run under `context.Background()`, so a failed one is taken as not applied.

**AdminGrants.** The same shape.  `AttemptsRead` is 0, the value `scanGrant` leaves in every record it
builds; `VerifyWrong` increments a copy that is dropped.  Issuing a grant withdraws none of the earlier ones: `GetGrant`
takes the newest that is unused and unexpired, so an older grant with a longer life is good again once the newer one
expired, was used or was revoked (TLC refutes `SupersededIsDead`, which says that it is not; no text of the repository does).

**RateLimiter.** Requests take a stamp, then count and record (with a store), or decide in one critical
section with that earlier stamp (without).  A failing insert may have been applied: it runs under the request's
context.  `persistent` is chosen at Init from `Modes` and never changes.  Reading the window is
inclusive in SQL and exclusive in memory, as in the code.  A request has at most one event: `events` numbers them by their insertion, which
is the order of the slice in memory, and the stamp is that of the request.

**Provisioner.** `call` is the `Provision` that holds the mutex, with its undo stack; each `Undo` takes back
the latest stage, as the deferred function does, and a restart may come in between.  Offsets run from `First` to `Last`, and `Overflow`
stands for the one the search hands out when none is free.

**ClaimServer.** Each request walks through `received`, `missed`, `valid`, `authorized`, `provisioned`,
`answered`; requests interleave at every step.  `Provision` and `Reconnect` are the two answers of
`AccountDirectory`.  `RevokedOnServer` is empty: no command writes the server's `invites` table.
A claim comes with the key computed from its token and machine or with any of `Headers`, which stand for the keys that clients
name themselves.  The edge ties no key to a token and asks the cache before it looks at the token, so a second person who names the key of a first
is answered with the first one's account: TLC refutes `AnswersOwnAccount`.  `OneCredentialPerPerson` has a hypothesis,
`OwnKey`, which says that nobody with another address was answered under that key; the repository's own client keeps to it, as
its key is the computed one (up to collisions of the hash).

**OnboardSession.** One run at a time; `Killed` may end it anywhere, `Save` is the atomic rename.  Each step is
an action guarded by `At(step)` and followed by `Save`.  Repositories are recorded one by one, as the workers of
the clone pool call back under a mutex.  `flaws` remembers writes that failed without stopping the flow.

**AdminAuth.** Requests of `handleAdminVerify` are `received` (eight digits), shown to the grants, and only when the
address has no usable grant go on to `otp`.  Each ledger is an instance of `OneTimeCodes` with the mutex of its
manager, so that charging and redeeming are two steps of one request among others.  That the ledgers behave
so is what `challenges_safety` and `inspect` show (`MaxGuesses` bounds the guesses at grants, which the code does not limit).

**OwnerDesk.** A command is a process: it reads, prompts or computes, and writes back what it read.  The mutexes of
the stores end at their process, so two commands overlap; each file is replaced by a rename, so a kill leaves the old
one or the new.  `stale` and `clashed` are history: somebody wrote over a change it had not seen.  The
code lets that happen and documents nothing about it; `ReportsHoldWithoutClash` says that nothing else can make a report
untrue.

**MergeGate.** One command (`job`) polls; the forge registers, finishes and reruns checks and takes commits in between.
An answer of the forge is `board` at one instant, judged later by the clock (`elapsed`).  `RegisterGap` is an
assumption about the forge: once a commit has one check, the others register within it.  `CompleteListBelieved` needs it to be
less than the poll interval, which is why the loop asks for two polls that agree.  The merge takes the head of that
moment: nothing in the code ties it to the commit whose checks were read, and TLC refutes `MergedIsChecked`, which says that it does.

**Delivery.** The steps of `Deliver` in order; the gate is one step, during which the developer may edit, commit and
switch branches.  A branch is the number of its commits.  Two behaviours are worth knowing: a commit made while the gate waits is
not in the merge and is deleted with the branch (`git branch -D` after `-d` refused), and an edit made after the
check for a clean tree is carried to the base branch.  No text of the repository promises otherwise.

**Promotion.** `job` holds what a command has read: the commit of main, whether its checks allow, the pull request.
Commits of main are numbered and demo is the last one it contains; `demoIsMain` tells a branch that points at that commit
from one that has it under a merge, since the code compares hashes.  Checks are a choice: what they say is settled in `MergeGate`.
The forge refuses a second open pull request and an empty one; merging what is merged succeeds.  A release whose dispatch
failed stays merged and unpublished, and the next `prod` finds nothing to do: the command says that it failed, and no text promises
a way back, so `SuccessIsPublished` speaks of commands that succeed.

**AssetStore.** A content stands for its hash and all contents have one length, the case the upload's length check does
not help in.  An upload opens the file again, so what goes under the hash is what the file contains by then.  `touched` is history:
the developer edited while a command ran.  The index is read when a command starts with it and written in one step.

**WorkTree.** A `.git` is none, torn or whole.  `copying` and `cloning` are the commands that are writing one; a kill
leaves it torn.  Of a branch the model keeps how much of origin it contains and whether it has commits of its own, which decides
what `merge --ff-only` does.  `acted` and `cut` are history: somebody changed the directory since the command looked, a
writer was cut short.  Nothing in the code locks the directory, so the properties except those.

**Wizard.** Bubble Tea handles one message at a time, so every action is one call of `Update` with the commands it starts.
`jobs` counts the commands whose result is still to come; a result goes to the screen that is shown.  A screen that ends writes
its own checkpoint and then `SetStage`'s: `Leave` is both writes, or the first and a kill.  Stages that behave alike are one
(`token_claimed` stands for all checkpoints of the headless flow behind its claim).  `Headless` is the flow of `OnboardSession`
reduced to what the wizard sees of it.  Two things the model shows and no text of the repository denies: the environment screen starts its
automation on R only, and takes R only after a failure, so no key but ctrl+c leaves it; and a start without `--resume`
puts the stage welcome into the loaded session, which ctrl+c then writes over the stage of the checkpoint.

**EdgeCalls.** One operator, one command after the other.  `wire` is the request or answer under way, `late` one request that was
taken for lost.  The servers are external and reduced to what a second request can tell.  A retry of `owner verify` whose first
attempt was served meets a spent code and is refused: the command fails although the code was accepted, which
`SuccessIsServed` allows (it speaks of successes).

**Migrations.** The list is `1..Count`; the one of this commit is empty, and the engine takes any.  The file is written in
place, so it may be cut by a kill or by two writers, and a reader may see half of it.

**ConfigFile.** One key with a type and one that only `Validate` looks at.  A command loads the file to try the change (`Begin`),
reads it again (`Read`) and renames a new one over it.  `told` is what the last command on a key reported, forgotten when
a command that had read before that report renames after it: the one lost update the code has.

**PortBlocks.** `busy` is history: ports bound at some time of the command.  Project IDs are those for which `BasePort` does not overflow
64 bits.

**Updater.** Versions are numbers.  `go-selfupdate` is external.  It is taken to choose the newest release
with a binary for this platform (an older one if the newest has none), to return no error when that is not newer than what
runs, and to fail the validation of a release whose checksums are missing or do not match.  A notice compares with the binary that is installed; the
code compares with the version of its own process, which differs for a command that began before a self-update in another terminal.

**LocalTier.** A throwaway database is the number of its check (the names are random).  Every call of psql reads the env files again, so
`conf` may change between create, test and drop; a call may fail after the server did its work.  `steady` is history: the env
files stayed as they were during this check.

**Audit.** A repository is the record of what sensors tell apart in it.  For every repository and check, `Defects` says what is
wrong and `Unseen` what could not be read, and why; a sensor reads one repository at one instant, and others change one between two
reads.  `Start` takes the whole suite or a single check, with `--remote` where the command has that flag (`Remotable`).  A manifest that
cannot be read is a gap of every check that goes through the repositories (`Manifest`, `Scan`) but upstream, which then visits none and asks
nothing (`resolvedPackages` drops the error): what that hides is `Blind`, and the one exception of `ZeroIsClean`.  OSV is asked after the last lock file was read (`Ask`), so the network may go in between.  `steady` and `ever` are history: what was so at every, or some, instant of the command.  The three properties compare
exit codes with them, since a command that reads a changing world can promise no more.

**Doctor.** Of the machine the model keeps what a recipe repairs or the exit code depends on.  `seen`, `steady` and `ever` play
the part they have in `Audit`.  A probe may be *late*: it answers after its deadline and the check complains of what is there.  The Go recipe
answers complaints it should not (`GoIsNotReplaced`), which is why `RecipesDoNoHarm` leaves Go out.

**Bootstrap.** An item (a `.env`, a hooks path, a link, `mcp.env`, the directory tree) is absent, ours, or one of several things
that others put there.  `look` and `make` are two steps, as stat and write are, with another terminal or an edit between them;
`missing` is what a command found absent at some time.  Only there may it write over what is not its own.

**CIPool.** A command walks through the repositories of the manifest and passes over those it has no business with: `View` over a
repository that is not on GitHub, `Collect` over one that is not selected.  Every call of `gh` is a step that succeeds, fails, or fails after GitHub did it.  A failed delete
of the variable whose text says "not found" or "http 404" is no failure to the code, whether the variable was absent, is still set, or went all the
same (`Missing`); `absent` remembers such repositories.  So a switch back to GitHub that reports success may leave one of them
as it was (TLC refutes `NoneIsLeft`), and `SwitchIsSo` speaks of all others.  `clean` is history: nobody else changed GitHub since the command began.

**Uninstall.** A path is `<<base, name>>`; the user's files are looked for below the current directory when the home is not known
(`flags.home`).  `install.sh` makes `o` a link to `orbit`, which the removal of the latter leaves hanging.

**DevStack.** Each service has one goroutine that dials, then looks at the deadline; `since` is history: ports open at some, and
at every, moment since the probes began.  Containers are the environment: no property says that one starts.

## 3. Runs

| Run | Question | Bounds |
|---|---|---|
| `challenges_safety` | guess budget, single redemption, newest-first, lockout covers older codes, refinement of `OneTimeCodes` | 2 addresses, 3 codes, 2 attempts, TTL 2, clock to 3: two codes of one address and one of another, expiry of one before the other |
| `inspect` | four components that answer about a changing world, one at a time | see below |
| `grants_strikes` | *violation*: three strikes | 1 address, 1 grant |
| `parts` | six independent components, one at a time | see below |
| `tools` | four independent components, one at a time | see below |
| `host` | ten independent parts of the developer's machine, one at a time | see below |
| `claims_safety` | one credential per person, live cache | 3 requests, 4 invites (two of one person, two people on one uid), 2 machines, 1 key that anybody may name |
| `onboard_safety` | the checkpoint is true to machine and edge | 2 repositories, 2 credentials, 2 sessions |
| `onboard_clones` | *violation*: rollback removes only what onboarding cloned | the same |
| `wizard_claims` | *violation*: the two flows share checkpoints, and claim once | 1 repository, 2 credentials |
| `config_set` | *violation*: what `config set` accepts can be used | 1 terminal |
| `desk_rotation` | *violation*: a rotation invalidates the invites of the old secret | 3 commands, 2 owners, 2 invites, 2 secrets |

`parts` puts six small components into one run, `host` ten, `tools` and `inspect` four.  They share no variable: `part` picks one at the
start, the others stay in an initial state, and the state space is the sum of theirs.

| Part of `parts` | Question | Bounds |
|---|---|---|
| provisioner | no residue, distinct addresses, index, refinement of `AccountDirectory` | 3 uids, 2 addresses, 4 tokens, 1 offset and the overflow |
| lockout | a lockout of `Challenges` ends (`WaitsEnd`) | 1 address, 2 codes, clock to 4 |
| admin | one code, one administrator; one submission, one ledger (`CodesPayOnce`) | 2 requests, 2 addresses of which one is in the allowlist, 1 grant, 1 mailed code |
| desk | reports hold unless a command wrote over another (`ReportsHold`) | 3 commands, 2 owners, 2 invites, 2 secrets |
| gate | complete lists (`ReportsHold`), reasons for merging (`MergedForAReason`), an answer (`WaitsEnd`) | 2 checks, 2 commits, poll interval 1, register window 2, timeouts 1 and 2, five sets of flags |
| deliver | what is pruned is merged (`MergedForAReason`) | 4 commits |

| Part of `tools` | Question | Bounds |
|---|---|---|
| limiter | burst bound, honest `Retry-After`, memory bound, for both forms | 5 requests that arrive in order, limit 2, 2 in flight, clock to 5 |
| assets | what an index names is stored; pull keeps what a developer has (`NamedIsThere`, `MovesForAReason`) | 2 developers, 2 contents, 1 object lost |
| release | demo moves for a reason and forward; a prod that ends well has published (the same two) | 2 operators, 3 commits of main, 2 promotions |
| tree | branches move in a clean sync or where none was; success leaves a repository (`MovesForAReason`) | 2 terminals, 2 branches, 2 commits of origin |

| Part of `host` | Question | Bounds |
|---|---|---|
| wizard | one background command, for the screen shown; no credential is lost | 2 repositories, 2 credentials |
| calls | a success stands for an effect (`SuccessIsSo`); accounts and members are not doubled; calls end | 3 commands of four kinds, 2 retries, 1 late request |
| migrate | what is recorded has run, in order (`SuccessIsSo`) | 2 terminals, 2 migrations, each run twice at most |
| config | what was reported is resolved (`SuccessIsSo`) | 2 terminals, 2 keys |
| update | a notice offers an upgrade (`DoneForAReason`) | 2 releases |
| uninstall | what is reported removed is gone (`SuccessIsSo`); removal with consent only (`DoneForAReason`) | the paths of one machine |
| ci | a switch and a push that succeed are so (`SuccessIsSo`); pins for a reason (`DoneForAReason`) | 2 repositories, of which one has a deploy key, 1 change by others |
| tier | no trace on the developer's database, none behind a pass (`SuccessIsSo`) | 2 servers, 2 repositories, 2 edits or stops |
| dev | readiness is evidence (`SuccessIsSo`) | 2 services, one of them with a fallback port, 2 changes |
| ports | the lowest free port of the block | 3 projects of 3 ports, of which one lies across the last port and one beyond it |

| Part of `inspect` | Question | Bounds |
|---|---|---|
| grants | single use, newest usable first (`GoodOnceNewestFirst`), refinement of `OneTimeCodes` with unlimited guesses | 2 addresses, 2 grants, two lifetimes, clock to 3 |
| audit | exit codes are evidence (`AnswersAreEvidence`) | 2 repositories, 2 files of rules (an exception; six accepted gaps, two of them expired), suite and single checks with and without `--remote`, 1 change by others |
| doctor | the verdict is current (`AnswersAreEvidence`); recipes touch for a reason and do no harm (`HandsOff`) | 1 change or late probe |
| bootstrap | check and success are evidence (`AnswersAreEvidence`); what was there is kept (`HandsOff`) | 2 terminals, a directory, a repository, a link, 1 edit or failure |

Properties named in brackets are conjunctions of the properties of the modules named there; the modules state and comment
each conjunct.  One repository more in `audit`, or one change more in `doctor` or `bootstrap`, meets no new case: a repository is judged by itself, and
each property can be broken by one change at the wrong moment.

Every bound is a constant of the module and appears in a guard (`MaxTime`, `MaxComparisons`, `MaxInFlight`,
`MaxRevoked`, `MaxSessions`, `MaxHead`, `MaxSecrets`, `MaxCommits`, `MaxMain`, `MaxPulls`, `MaxOrigin`, `MaxIssued`, `MaxCalls`, `MaxRuns`, `MaxRelease`, `MaxRepos`, `MaxEdits`, `MaxChanges`, `MaxTurns`) or is the size of a set of history names (codes, requests, credentials).  They
are enough in the sense that every action fires and that each property fails when the code it rests on is
changed: `PROJECT.json` ("mutants") lists at least one such change per property, written beside the definition it
replaces.  Symmetry is used only over sets whose members nothing distinguishes, and in no liveness run.
`parts`, `host`, `inspect` and `desk_rotation` switch the deadlock check off: a command that has answered does nothing more.

What the violation runs show is in `PROJECT.json` ("findings"): the strike limit of grants never engages;
rollback deletes repositories that were there before; a daemon that is not restarted goes on accepting invites of a
rotated secret; a headless run that resumes the wizard's checkpoint claims again; `config set` accepts what the file cannot
hold or no command resolves.  More are stated as properties and refuted by TLC, without a run of their own:
`RateLimiter!WindowLimit` (concurrent requests exceed the rate limit over SQLite, by less than the number in flight, which `BurstBound`
checks), `ClaimServer!RevokedIsRejected` (revoking an invite is invisible to the server),
`ClaimServer!AnswersOwnAccount` (two people who name one idempotency key are answered with one account),
`AdminGrants!SupersededIsDead` (an older grant that lives longer is good again after the newer one),
`OnboardSession!RollbackRevertsCredentials` (rollback leaves the account at the edge), `Updater!UpdatedIsInstalled` (a release without
a binary for the platform is reported as installed), `Updater!InstalledIsVerified` (any failed validation is followed by an
install without one),
`AssetStore!ObjectsAreWhatTheyAreCalled` (push and add upload without hashing), `Promotion!PromotedIsChecked`
(demo promotes what main has by the time of the merge), `WorkTree!PresentIsWhole` (a torn `.git` counts as a repository for
good), `WorkTree!RepairSkipsRepositories` (repair copies over a `.git` that appeared during its clone),
`MergeGate!MergedIsChecked` (the merged commit is not always one whose checks were read),
`Audit!NothingIsPassedOver` (pull requests beyond the first 200, a gate that fails without a finding, and for `upstream --remote` a manifest that cannot be read count as clean),
`Doctor!GoIsNotReplaced` (`--fix` replaces a healthy Go when a `go.mod` does not parse),
`Bootstrap!SetupSecures` (an `mcp.env` that was there is reported as 0600 and keeps its mode),
`Uninstall!BinariesAreRemoved` (the link `o` stays), `Uninstall!ReportedIsGone` (failed removals are listed as done),
`Uninstall!WorkspaceIsPurged` (the flag purges nothing), `Uninstall!HomeOnly` (without a home the current directory is purged),
`LocalTier!DroppedInEveryCase` (a kill, a lost answer or edited env files leave the database),
`DevStack!WaitedForStack` and `DevStack!ReadyIsStack` (`--wait` succeeds without the services; any listener counts as the service)
`CIPool!UntouchedOnFailure` (the first of two secrets is set when the second fails)
and `CIPool!NoneIsLeft` (a delete that fails as "not found" counts as done).  To see one, add the property to the configuration of its run, for a part of `parts`, `tools`, `host` or `inspect` by way of a definition such as `P == Tree!PresentIsWhole`.  Another takes a single step: `docs/cli/orbit_onboard.md:27` says a dry run makes no changes, and `service.go:150-152, 158-159`
replaces the checkpoint in a dry run too.

**Fairness.** Two parts of `parts` and one of `host` need it.  `Challenges`, `WF(VerifyStep)`: a goroutine that holds the mutex is
scheduled and its store calls return, with or without an error; `WF(Tick)`: time passes.  No fairness is assumed of
clients, of generation or of pruning: a lockout ends by expiry alone.  `MergeGate`, `WF(Step)`: the process runs
and `gh` returns; `WF(Tick)`; and `WF` of registration, since time in the model waits for checks that are due to register.
No check has to end.  The run states them for both parts at once, as only the chosen part moves.
`EdgeCalls`, `WF(Step)`: the process runs; `WF(Network)`: `http.Client` has a timeout (`client.go:122-150`), so every request ends in an answer or an
error.  Nobody has to cancel, and no server has to answer well.

## 4. Proofs

`ChallengesProofs` proves, for any sets of addresses and codes, any attempt limit, lifetime and clock:

* `TypeCorrect`, `GuessBudgetHolds`, `SingleRedemptionHolds`, `NewestIsComparedHolds`,
  `LockoutCoversOlderCodesHolds`: the properties of `challenges_safety`.
* `Refinement`: `Spec => ImplementsOneTimeCodes`, the refinement mapping being `Status`.

The properties are not inductive.  `GuessBudget` needs that a verification that has counted has a comparison
in hand that was paid for (`BudgetOK`); `SingleRedemption` needs that a redeemed row is verified in the table and
that a verification about to answer is the only one to do so (`RedemptionOK`); both need that the row in
the verifier's hands is still the row it read (`HeldRowOK`), which the mutex gives except for `PruneExpired`
and restarts; `FreshOK` says that rows not yet stored are blank.  `IInv` is their conjunction with `TypeOK` and
`NewestIsCompared`.  One lemma per conjunct shows that each action keeps it.  The proofs rest on the named
assumptions of `Challenges` on its constants, which TLC evaluates in the runs.

`ProvisionerProofs` proves, for any sets of uids, addresses and tokens and any pool of offsets: `TypeCorrect`,
`NoResidueHolds`, `AddressesDistinctHolds`, `IndexSoundHolds`, and `Refinement`: `Spec => ImplementsDirectory`
under the mapping `accounts <- users`.  `NoResidue` speaks of an idle provisioner only, so it is no invariant
of a step.  `CallOK` adds what a running call has done: as many stages as its undo stack holds, for somebody
with no account.  `RegistriesOK` says that the registries agree about everybody else.  `OffsetsOK` ties the
pool to the peers in both directions, which is why one entry of the pool at most names a peer and dropping
one is dropping all.  `TokensOK` says that tokens are pairwise different and stored with the account; the
refinement needs it, as the directory promises fresh credentials.  The proofs rest on `PoolAssumption` and
`NoneAssumption`.

`InspectProofs` proves of `AdminGrants`, for any addresses, grants, lifetimes and clock: `TypeCorrect`, `GoodOnceNewestFirstHolds`, and `Refinement`:
`Spec => ImplementsUnlimitedCodes`.  The inductive invariant adds to the property that the row in hand is the
row that was read (`HeldOK`), that a redeemed row is used in the table and only the verification about to answer may have redeemed it
(`RedemptionOK`, `UsedOK`), and that what is compared is the newest usable grant of its address.  It rests on the assumptions of `AdminGrants`.

`ClaimProofs` proves, for any requests, invitations, machines, header keys and people: `TypeCorrect`, `CacheIsLiveHolds` and
`OneCredentialPerPersonHolds`.  Every cached entry and every answer *serves* somebody who was answered under the same key: it names
a live account, with its credential, that has that person's uid or address (`CacheOK`, `AnswersOK`).  Under `OwnKey` that somebody has the caller's
address, and two answers to one person agree (`OwnAccount`) because an account was made for
a holder of an invitation, with an address of its own (`AccountsOK`).  Nothing but a restart removes an account, and that empties cache and answers
too.

`OnboardProofs` proves, for any manifest, any credentials and any number of checkpoints: `TypeCorrect`, `CredentialIsCurrentHolds`,
`RollbackFindsClonesHolds`, `NeverClaimsAgainHolds` and `CompletesTogetherHolds`, the properties of `onboard_safety`.  What all
of them need is that the checkpoint follows the session that runs: no step is begun before the one behind it is saved, and nobody else writes the file
meanwhile (`StepOK`, `FollowsOK`).  `NumberOK` tells sessions apart; `CredentialsOK` speaks of the credential in the running session too;
`ClonesOK` says of a repository this session cloned that it is recorded or still to be looked at in this run;
`ProfilesOK` that the profiles hold the session's credential from the stage that writes them on.  A first
lemma (`EveryStepIsAKind`) spells out what each action does to the fields of the run, the lemmas behind it argue about that alone.
It rests on `SessionAssumption` and `NoneAssumption`.

`ToolsProofs` is about the four components of `tools`, each for any instance, and then about `ToolsSpec`, in which one of them runs.

* `BurstIsBounded`, `RetryAfterHonest` and `LimiterTypeCorrect`, for any limit, window and requests and both forms of the limiter.  That no window
  holds more than `Limit + MaxInFlight - 1` admissions cannot be seen from the admissions alone.  With a store (`StoreBound`) the requests that passed the
  count and are not recorded count too: a request passes it with at most `Limit - 1` events behind it, and the others are in flight.  Without
  one (`MemoryBound`) the stamps come late, so an earlier window may have lost stamps that a later request dropped; from then on it can only
  fill with requests that were in flight at that moment.  `RetryOK` says that what a refused request was told lies behind one of the stamps
  that are still kept, though not always the oldest.
* `NamedIsThereAlways`: `IndexedIsStored` needs that a command about to save the index has asked for the object or uploaded it (`SaveOK`);
  `SuccessIsPublished` that a prod about to dispatch has its release merged (`DispatchOK`).
* `MovedForAReason`, an action property of three components: that a pull has seen no file (`PullOK`), a demo has seen the checks or will have left its
  reason (`VouchOK`, with `ReadOK` and `OpenOK` about what it read), and a sync has found a clean tree and main (`SyncOK`), each
  except for what others did since.  `TornOK` says that a torn `.git` is being written or its writer was cut off, `OwnOK` that main has no
  commits of its own where there was no `.git`.

`PartsProofs` does the same for four components of `parts` (it uses `ProvisionerProofs` for the fifth):

* `CodesPayOnceAlways`: a submission is charged to a code of its own address that was issued (`ChargedToItsOwn`) and to one only (`ChargedOnce`),
  before it is answered.
* `ReportsHoldAlways` for the desk: the copy a command will write back is the file, unless somebody replaced it since (`CopiesHold`), an invitation is
  signed by one command (`SignedOnce`) and unheard of until that command has written it (`HeardWhenWritten`).  For the gate: until a commit has all its
  checks the next one is not overdue (`NextIsDue`), for one commit checks only appear (`PolledIsThere`), so two polls that agree, further apart than
  the register gap, agree on all of them (`AgreedIsWhole`).
* `MergesHaveReasons`: what allows a merge is so from the decision on (`MergesForAReason`), and from the merge to the pruning what is pushed is on the base
  (`AfterMerge`).

Both rest on `ToolsAssumption`, `LimiterAssumption`, `PartsAssumption` and those of the provisioner.  `PartsAssumption` says that checks register less
than a poll interval apart, an assumption about the forge (see `MergeGate`), and that code numbers tell codes apart.

`HostProofs` is about the ten components of `host`, each for any instance, and then about `HostSpec`, in which one of them runs.  No action of a
component writes a variable of another, so the conjunction of their invariants (`HostInv`) is inductive once each of them is.

* `SuggestionIsLowestHolds` and `BlocksDisjoint`, for any offset, block size, first dynamic slot, last port and set of projects.  `ScanOK` says that what
  the scan found in use was in use, `ProbeOK` that the probe began at the first dynamic slot and has passed over nothing that was free
  all along.  Both survive `Bind` and `Free` since `busy` only grows.
* `OneCommandAlways` and `CredentialIsKept`, of the wizard beside the headless flow.  That a second command is not started rests on the screen, on the
  banner of a claim and on the error of a clone (`BannersOK`).  A session behind the claim carries a credential wherever it is: in the file, on offer, on the screen
  (`CarriesOK`); and what the wizard may write over an unfinished checkpoint carries that checkpoint's credential or a later one (`CredsOK`).
* `SuccessIsSoAlways`, the reports of seven components:
  `AnswerOK`, an answer that is on the way or has been read speaks of an effect at the server, and claims and accounts are there once;
  `MigrateInv`, a record, in the file or in the hands of a command, is a prefix of the list, all of which has run, and so is what a command has
  behind it; `ConfigInv`, the file, and the copy that a command is about to rename over it, agree with the reports of their moment;
  `LeftOK`, a binary that still is a file is in the list of work unless a removal failed, and `GoneOK`, what is listed as removed is gone;
  `SwitchOK`, undisturbed, a CI command has found the private repositories and switched those behind it, or is as it found them where a
  delete failed as "not found" (`Settled`), and `PushOK`, the repositories behind
  a push have their secrets, those ahead are untouched, and where it is now, what is missing is still in its hands;
  `TracesOK`, a throwaway database is on the server of the env files or nowhere, and none of a repository that is still to come is anywhere;
  `TriedOK`, what a probe reports as ready was open at some moment since it began, and what it gave up was closed at one.
* `DoneForAReasonAlways`, an action property of three components: a cached release has been published (`UpdateInv`), work of an uninstall has been agreed
  on (`AgreedOK`), and repositories about to be pinned were private with a runner of their organization online (`FoundOK`).

It rests on `PortAssumption`, `HostAssumption` and `NoneAssumption` of `MCHost`: bounds are numbers, the repositories of the manifest have different
names, and `None` is none of the values it stands beside.

`InspectProofs` is about the four components of `inspect`, each for any instance, and then about `InspectSpec`, in which one of them runs.
`AdminGrants` is above.  Of the others:

* `AnswersAreEvidenceAlways`, for the audit: what a command remembers frames the facts of the moment (`Framed`), which no later change takes back.
  A fact that was there all the time is on the page of the check under way or still ahead of it (`PageOK`), and once its check has run it is
  excepted, an error of the report, or behind a gap that is in the report or was accepted by name and in time (`ReportOK`); conversely an error of
  either was a defect at some time.  A gap may stand for a defect only where the command could not see it at some time.  Upstream is silent about a
  manifest it cannot read (`BlindNow`); what it does not look at for that reason is `Blind`, now and at the end.
* The same for the doctor: a fault that was there all through the diagnosis has raised an alarm or is what a check to come looks for
  (`DiagnosisOK`), and the code is that of the last report (`VerdictOK`).
* The same for `env check`: what was at fault all the time is told or still in the queue, and behind what is told there was a fault (`CheckOK`).
  For a setup or an `init` that nobody interfered with (`WellOK`): each item that is wanted is as it should be or still in the queue, a file in the
  writer's hands is as the last call left it, and what was made is whole and private.
* `HandsOffAlways`: a recipe in the doctor's queue answers a fault that the diagnosis saw, or a probe that came late, and has not run yet
  (`QueueOK`); probes and repairs that write were asked for by a flag (`FlagsOK`).  A command of the workspace about to write has seen
  its item missing or has `--force`, and a hook of the developer was set since it looked (`KeptOK`).  For any number of terminals, the lemma
  `StepKeeps` reduces a step to the command that takes it: the others only remember more of what was missing and less of what was steady.

They rest on `InspectAssumption`: bounds are numbers, directories, repositories and links are finite sets, the handbook is one of the repositories,
and the names of what is shared and of the developer are no repository and no terminal.

Two properties of the runs are not theorems: `WaitsEnd` and `CallsEnd`, which are liveness under fairness.  The lockout in `parts` is checked there for an instance;
its safety is what `ChallengesProofs` proves of the same module.

## 5. Plan

Done, in this order: the edge (`Challenges`, `AdminGrants`, `RateLimiter`, `Provisioner`, `ClaimServer`, `AdminAuth`), the onboarding flow,
the operator's files (`OwnerDesk`), the forge (`MergeGate`, `Delivery`, `Promotion`), assets and work trees, the wizard and the
smaller parts of the machine, and the commands that judge or set up a workspace (`Audit`, `Doctor`, `Bootstrap`, `CIPool`, `Uninstall`, `LocalTier`, `DevStack`).  Left:

1. Algorithms against reference definitions: the manifest, versions, slots of the port table.
2. The commands that still lack a model: `owner reset-totp` and `admin grant`, the selection of targets of `sync`, several assets in one index.

New small components join `parts`, `tools`, `host` or `inspect`.

## 6. Not modelled

Cryptography (hashing, signing, key generation), SQL beyond the statements of the modelled stores, HTTP framing,
mail delivery, git itself, docker, installers, and everything about wording and layout.  `PROJECT.json`
("components") gives the reason for each package.
