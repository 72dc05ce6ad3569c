# clawdh in TLA+

clawdh lets a team share Claude logins. A *panel* keeps who is on the team, the
logins, and who may use which; a *gateway* holds the logins, refreshes them and
forwards members' requests; and on each member's *machine* a background service
checks in with the panel, runs `claude` under the right account, moves a running
session between accounts and answers the panel's requests for help.

This directory specifies the parts whose correctness depends on order, failure
and concurrency, checks them with TLC on small instances and proves the main
results with TLAPS. Paths below are relative to `src/`.

    tlc -workers 2 -config SharedLogin.cfg MCSharedLogin.tla
    tlc -workers 2 -config Supervisor.cfg Supervisor.tla
    tlapm SharedLoginProofs.tla

## 1. The system

### Components

| Component | State it keeps | Operations | Talks to |
|---|---|---|---|
| Shared login (`internal/gateway/refresh.go`, `cmd/clawdh-server/db.go`, `dbwriter.go`) | one token manager per account, a snapshot of the panel, queues of writes | `Resolve`, `Token`, `Renew`, reload, flush, forget | token service, panel store |
| Usage poller, diagnose (`usagepoll.go`, `diagnose.go`) | none of their own | poll usage, refresh and store | shared login, panel store |
| Gateway (`internal/gateway/gateway.go`) | requests in flight | identify, judge quota, forward, retry once on 401, meter | shared login, Anthropic |
| Metering and limits (`metering.go`, `panel/limits.go`, `panelpg/usage.go`, `limits.go`) | event queue, cached standings | record, flush, judge | Postgres |
| Panel store (`panel/store.go`, `backend_file.go`, `panelpg/panelpg.go`) | one JSON document, in a file or a versioned row | `Load`, `Mutate` | every handler |
| Panel handlers (`panel/handlers.go`, `server.go`) | none | enrol, check in, contribute, withdraw, share, revoke, remove | store, jobs |
| Remote jobs (`panel/jobs.go`, `panelpg/jobs.go`, `internal/remotejobs/queue.go`) | job rows; the machine's queue, history and allow window | request, deliver, hold, allow, deny, trust, expire, report | panel and machine |
| Machine's client (`panel/client.go`, `internal/cli/cmd_panel.go`, the page's `handlers_panel.go`, `handlers_logins.go`) | enrolment, cached shares, notices shown | join, check in, apply, forget, contribute, withdraw, report | panel |
| Session supervisor (`internal/cli/cmd_run.go`, `cmd_use.go`, `cmd_hook.go`), switching (`internal/switching`), registry (`internal/sessions`) | handoff, outcome, rule and ledger files, the running `claude` | launch, stage a switch, stop, relaunch | page, hook, machine's client |
| Plan-usage service (`internal/usage`) | cache, fetches in flight, cooldowns, saved reports | `Get`, `Forget`, `Expire` | page, switching |
| Login (`internal/ptyauth`, `internal/httpserver/handlers_login.go`, `loginbroadcast.go`) | the terminal session, its events and subscribers | start, probe, submit a code, cancel, stream | page, accounts |
| Accounts (`internal/accounts`) | `accounts.json` and the accounts' directories | add, link, rename, remove, migrate, prune | page and command line |
| Updater (`internal/updater`) | the binary on disk, release notes seen | check, download, replace, restart | service |
| Service lifecycle, shell aliases, editors, status line, notifications, terminals, configuration, user interfaces | files and the operating system's services | | |

### Where it is hard

* **A refresh token works once.** The service that answers a refresh has already
  spent the old token. The new one is in one process's memory until a background
  write reaches the panel's row, which other processes (the panel, `diagnose`)
  change too, and the machine that signed in may use the same chain.
* **Everyone shares a manager, and it is locked** while it reloads and refreshes.
* **The panel is one document with several writers**; each handler decides on what
  it read, possibly authenticated by an even earlier read.
* **Remote help crosses three clocks**: the panel's rows, the machine's loop, and
  an owner who may answer twice, late or never; no report is retried.
* **Sessions, logins and usage** race a terminal program that may exit at any
  moment with callers that give up.
* **Files are the messages** between a session's supervisor, its hooks, the page and
  the loop: a switch, a rule and a register entry are read, judged, written again and
  left behind by what is killed.
* **One name, several lives**: a process number, an account's slug, a conversation's
  id and a share's slug are all used again for something else.
* **The binary replaces itself** while it runs, from two processes that do not know
  of each other, with nothing but a file's date to say which build it is.

PROJECT.json lists every such place under `hazards`, with the property that covers
it, or why none does.

## 2. Modules

| Module | What it is |
|---|---|
| `SharedLogin` | one account's login, from request to token service to database row |
| `MCSharedLogin` | symmetry for its runs |
| `SharedLoginProofs` | inductive invariant and theorems |
| `Panel` | the panel's data and every decision about it, as operators |
| `AtomicPanel` | abstract: each call takes effect at once, once or not at all |
| `PanelStore` | `Store.Mutate` over either backend; implements `AtomicPanel` |
| `MCPanelStore` | a small panel and its callers |
| `PanelStoreProofs` | inductive invariant, refinement and theorems |
| `RemoteJobs`, `MCRemoteJobs`, `RemoteJobsProofs` | remote help between a panel and one machine |
| `UsageService`, `UsageServiceProofs` | how much of its plan an account has used, as the page is told |
| `Supervisor`, `SupervisorProofs` | a session, and what moves it between accounts while it runs |
| `Metering`, `MeteringProofs` | a request's quota standing, and its usage on the way to the table |
| `CheckIn` | a machine and its panel: joined, granted, told, cut off |
| `Accounts` | a machine's accounts and the logins that fill them |
| `ServiceProofs` | theorems about `CheckIn` and `Accounts` |
| `Updater`, `UpdaterProofs` | a binary that keeps itself current |
| `Transcripts` | conversations moved to shared storage, and the originals pruned |

Operators whose comment begins "Mutant:" are not part of any specification: each
is a definition changed the way a plausible bug would change it, kept beside the
original to show that a property notices (`mutants` in PROJECT.json).

### SharedLogin

A credential is `<<sign-in, generation>>`; `expiry[f]` lists when the access token
of each generation issued for sign-in `f` dies, so its length is the newest
generation, the only one whose refresh token works.

| State | Code |
|---|---|
| `db` | the account's row in the panel's document |
| `snap`, `young`, `backingOff`, `flight` | `dbUpstream`'s snapshot, `freshReadEvery`, `retryAt`, the read in progress |
| `current`, `cred`, `holder` | `managers[account]`, `tokenManager.cred`, `tokenManager.mu` |
| `queue`, `flushing` | `writer.creds[account]`, the copy a flush is storing |
| `endedLogin`, `stopping` | `endedLogins[account]`, SIGTERM received |
| `pc`, `op`, `mgr`, `tok`, `view`, `read` | where each request or poll stands, and its locals |
| `diag` | `clawdh-server diagnose` |
| `lost` | history: sign-ins whose newest token was lost by something nobody can prevent, or is used elsewhere |

A member's request is `Resolve` (the account as the snapshot has it), `ManagerFor`,
`Lock` (answer at once, or read the store first), `Adopt` (what the read brought),
`RefreshGranted` and `RefreshDone` (the reply, and its rotation queued) or a failed
refresh, `Forward`, and after a 401 the same once more as `Renew`. A request that
ended without a token forgets the account's manager. Between any two of these
steps another request, a landing read, a flush, `diagnose`, a contribution, a stop
or a crash may come.

`flush`'s write may fail, or be made without its answer arriving (`FlushFail`).
`Exit` is main's shutdown: requests first, then the writer, then the end; it waits
for no poll, whose context SIGTERM cancels. A rotation in the reply of a cancelled
poll is gone with it (`usagepoll.go:76`); the model has that step and counts the
sign-in in `lost`.

Left out: finding the share of a member's key, failures to unseal, collision notes,
windows and usage events, replies to a refresh without a refresh token, sign-ins
whose end is unknown. Time is a coarse clock that each answer of the token service
moves; a removed account does not come back under the same id.

### Panel, AtomicPanel, PanelStore

`Panel` states what each handler decides: `Refused` when its function given to
`Mutate` returns an error, `Result` for the document it leaves. `AtomicPanel` makes
each call's decision in one step; a call told "done" happened exactly once, one
told "refused" never, one told "failed" at most once. `PanelStore` is the code:
the process's mutex, read, `expireShares`, decide, conditional save, retry, give
up. With `Versioned` it is the Postgres row shared by several processes, whose
saves may go unheard; without, the file of one process.

What a caller asks for is taken from the panel as it was when it asked (`Ask`),
which is how a handler that looked up a machine's token before `Mutate` decides
after someone removed it. Ids made by a call are named by the call. Names, keys,
presence, the activity log, and an account's several names (one login stands for
them) are left out, and so is the check before `handleShare`'s `Mutate` that the
account has a login.

### RemoteJobs

`status` is the panel's rows; `held`, `trusted` and `remote` the machine's queue,
allow window and consent; `act` what the check-in loop and each open page's handler
are doing: taking requests, running one, waiting for its report's answer. Reports
are applied, lost, or applied after the machine gave up on them (`late`). A restart
keeps what `Queue.save` wrote and loses what was taken off it; `cut` remembers the
jobs whose report did not arrive in time. Enabling, disabling, allowing, denying,
trusting and expiry interleave freely. Results, redaction and the history list are
left out, and so is a failing `save`. A window ended in the instant between
`Receive`'s look at it and the run is not told apart from one ended just after.

### UsageService

| State | Code |
|---|---|
| `entry`, `leader`, `cooldown`, `last` | `entries`, `inflight`, `cooldowns`, `lastReport` of one account |
| `file`; `save`, `copy` | `usage.json`; a `saveReports` that copied under the lock and has yet to write |
| `pc`, `cred`, `found`, `gone` | the requests in `Get` and `fetch`, what they read and will store; whose context was cancelled |
| `present`, `login`, `forgetting` | the account, who is signed in to it, and a handler between two of its steps |
| `heard`, `quiet`, `crossed` | history, for the properties |

A request finds the cache good, waits for the read under way, or reads:
`ReadCredentials`, `Check` (a stale token or a cooldown needs no call), the call's
outcome (`Allowed`, `Refused`, `CallFails`), and `Store`, which releases whoever
waits. `Linked` and `Delete` are the handlers that forget; `Delete` forgets before
it removes, as the code does. Numbers are the login they are about. Their age, the
wording of the card and which login the gateway holds are choices; other accounts,
whose saves rewrite the same file, are left out, and what such a save may bring
back the request's own already can.

### Supervisor

One process number, and the files named after it. A *life* is a supervisor with that
number; its nonce is the life's number, as `Nonce` is what tells two of them apart.

| State | Code |
|---|---|
| `sup`, `claude`, `poller`, `switched`, `signal`, `watching` | `superviseSession`'s locals, the running `claude`, `runClaudeOnce`'s goroutine, its channels, `watchShareKey` |
| `handoff`, `rule`, `register` | the files of `internal/switching` and `internal/sessions` for this number |
| `identity`, `stub` | whose account `~/.claude.json` names; whether the default's identity was copied aside |
| `keys`, `logins`, `preset` | `shares.json`, the logins on this machine, the default of new sessions |
| `page`, `recorded`, `missed` | a page's request between its listing and its write; the ledger's share sessions; history: the watcher's one switch was overwritten or refused |

`Launch` is the top of the loop, `Reap` and `Relaunch` its bottom. In between the
prompt's hook, the page, a rule after an answer (`applyRule`) and the key watcher stage
switches by writing the same file; the goroutine takes one off the disk, judges it,
lets the hook read the outcome, writes it *again* and stops Claude Code; the loop
reads the file once more and acts on what is there then. An editor's signal may land at
any of these steps; a kill leaves the files for the next life. How much of a plan is used is a choice
of `applyRule`. Left out: the outcome file, a terminal's ctrl-c (drained and ignored by
every reader), `--continue`, the revocation marker, the ownership ledger, the shell
commands of processes that outlive a session. Other sessions rename `~/.claude.json`
too; what `identity` says is about this one's last write.

### Metering

Usage events are numbered as the writer numbers them and leave its queue only from
the front, so the queue is `head..seq`. `req` is where each request is, from its
standing (`Ask`: served, or denied) over Anthropic's answer (`ModifyResponse`, whose headers
are a reading) to its usage (`Read`, `Close`). `flush` holds the copies of the two
goroutines that may flush: the writer's, and the shutdown's. A flush stores
credentials, windows, notes and events in that order (`dbwriter.go:205-252`); a failure of
one kind ends it, and what was stored is removed. As the credentials and the notes are not
in the model, a flush may stop at any point before its events; no property needs more. How much of the week is used is one fact, `full`; the reading
`stored`, the `standing` cached from it and a standing being read are each as old as
the code lets them be. Weights, tokens and members' sums are left out; the token
behind a request and the queue of credentials are `SharedLogin`'s, here a choice.

### CheckIn

One person's share of one account, as the number of its key. `ask` is a check-in of
the loop or of a page's handler in each of its phases: asked, answered by the panel,
applied by the machine, so that answers may be applied in another order than they
were given. `config` is the enrolment the machine has saved, `devices` those the panel
still knows. Joining, adding a login, taking one back and disconnecting run beside the
loop, which backs off, gives up after a 401, and is started again with the service. A
tick is `checkInEvery`; a check-in takes none. Remote jobs ride on the same answers and
are `RemoteJobs`.

### Accounts

Every account made has a number, a slug names one at a time, and a login found at a
slug carries the number of the account listed there when the person signed in.
`attempt` is a login under way: its `claude`, its probe, its time limit, its events and
the goroutine that records the outcome. `removing` is a removal between the record and
the directory; `checking` is `EnsureDefault` between its check and its append. With
`Keychain` a login outlives its directory, as on macOS.

### Updater

Release `k` carries the date `k`; `path` is the build at `BinaryPath` and its mtime.
`check` is `CheckAndApply` in the service (one at a time) and in `clawdh update`: the
questions to GitHub, the comparison, the download, the swap (one rename, or two where
a running binary cannot be replaced), the stamp. `Handover` is the new image taking
over. Releases are published and taken back meanwhile, a person builds in place, steps
fail and processes are killed.

### Transcripts

A transcript is the set of lines appended to it; its size is their number. `copying`
is the migration and `pruning` is `Prune`, file by file, with the sessions of
old shells writing to the account's tree and those after the flip to the shared one.

## 3. Runs

Every run's cfg fixes small sets and bounds. Deadlock is checked in `RemoteJobs` and
`UsageService`; elsewhere calls end and clocks stop, so the system may come to rest.

| Run | Instance | What it shows |
|---|---|---|
| `SharedLogin` | 2 members, 2 managers, 1 sign-in, clock to 3; failures, owner's machine, removal, diagnose, stop, crash | `RotationNeverLost`: the one refresh token that works is in the store, or with somebody who will store it. `StoreNeverGoesBack`: within a sign-in the row only moves forward, through repeated and unheard writes. `TokenHandedOutIsAlive` |
| `SharedLoginResigned` | 1 member and the poller, 2 sign-ins; failures, ends of sign-ins | `EndedLoginLeftAlone`: the poller leaves alone the stored login it marked as ended (a member's request does not look at the mark). `ManagerNeverGoesBack`: no manager adopts an older credential of its sign-in |
| `SharedLoginLive` | 2 members, failures and crashes, fair | `RequestEnds`, `RotationStored` |
| `PanelStore` | 2 processes, 3 calls: two of any kind, one redeeming an invite; 1 retry | `Linearizable` (refinement of `AtomicPanel`), `UniqueIndexes`, `InviteUsedOnce`, `TakenAwayStaysAway`, `LostRaceMeansProgress` |
| `RemoteJobs` | a health check and a transcript, 2 pages, 2 failures, fair | `AnswerKept`; `RunsOnce`: once more only after a cut, and never after a no; `TrustedHoldsNothing`, `HeldRequestIsAnswered` |
| `UsageService` | 2 pages, 2 logins, clock to 2, fair | `NumbersAreTheirs`, unless a `Forget` crossed a read or a save; `CallsSpaced`: however often pages ask and expire; `RefusalHonoured`; `GetReturns`, whoever gives up |
| `Supervisor` | 1 own account, 1 share, 2 lives, 2 keys, 2 conversations, 2 requests, fair | `SaysWhatRuns`: register, ledger and `~/.claude.json` are about what runs; `RuleStaysInItsSession`; `CloseEnds`: an editor's close wins over any switch; `KeyRenewed` |
| `Metering` | 1 member, 3 answers, queue of 2, fair | `MeteredOnce`, `EveryEventAccounted`, `CeilingLifts` |
| `CheckIn` | 2 keys, 2 enrolments, 1 trouble, longest wait 3, fair | `FiveMinutesBehindAtMost`, `SettlesInStep` |
| `Accounts` | 1 name, 2 accounts, 2 logins, 1 restart, fair | `OldLoginNeverSurfaces`, `NoStrayLogin`, `LoginSettles`, `DismissedStaysAway` |
| `Updater` | 3 releases, 1 taken back, 1 hand build, 2 troubles, fair | `NeverWithoutBinary`, `Converges` |
| `Transcripts` | 1 conversation, 4 lines, 1 trouble, nobody in it during a prune | violated: `NothingLost` (section 5) |

Why the bounds are enough to be interesting: two members are what it takes to share
a manager, to forget it under somebody, and to have one wait while the other
refreshes; lifetime 2 with lead 1 and a clock to 3 lets a token be fresh, stale and
dead, and a refreshed one go stale again; two sign-ins are what a re-added login
needs. Three panel calls let one be overtaken twice, and two share a process and so
a mutex. One retry is less than the code's eight, so that giving up happens. One
job of each kind, held on a queue that two pages and the loop empty, meets every
pair of racing decisions; two failures allow a lost report after a restart. Two
pages are what waiting for another's read takes, two logins what being signed in as
someone else takes, and two units of time let a snapshot held for one or two run
out, and a refusal be waited out and met again.

Two lives let one find the other's files; two conversations tell one kept from one
lost; two requests of people let one overwrite the other's or cross a rule. Three answers over a
queue of two overflow it while a flush holds two of them. Two keys are a share
re-granted, two enrolments a machine joined again while an answer to the old one is
still out; a longest wait of three ticks is reached by one doubling and one cap. Two
accounts and two logins of one name are what it takes for something of the first to
reach the second. Three releases let a check be overtaken between its questions and
still have one to converge on; two troubles are a failed rename whose undoing fails.

`Symmetry` (members and managers are interchangeable) is used in safety runs only.

### Fairness

* `SharedLogin`: a request's next step is taken (`WF`), and a request at the
  manager's lock gets it (`SF`: Go's mutex hands itself to whoever waited over a
  millisecond, `sync.Mutex`'s starvation mode). A read of the store ends or fails
  and lands: it has a timeout. The writer starts a flush when something is queued,
  and a write tried for ever succeeds at some time (`SF FlushStore`): without
  that no database would ever be written. Requests need not arrive, time need not
  pass, and nobody need sign in.
* `RemoteJobs`: the loop goes on (`watchPanel` never waits unboundedly), a handler
  runs to its end, and time passes for what is held. The owner need not decide, the
  panel need not ask, and reports may fail up to `MaxFailures` times.
* `UsageService`: a request's goroutine runs to its end, as the client gives each
  call a time limit. Nobody need ask, sign in or expire anything.
* `Supervisor`: the loop, its goroutine and the key watcher go on. Nobody need ask for
  anything, and Claude Code need not end by itself: terminating it does.
* `Metering`: Anthropic answers or the request fails, an answer's body is closed, the
  poller polls, a cached standing ages, and a reading of the limit, tried for ever,
  succeeds at some time (`SF`). No flush need run: the poller writes its readings itself.
  Members need not ask; `CeilingLifts` is about one who keeps asking, and says so.
* `CheckIn`: a question is answered or times out, an answer is applied, the loop ticks.
  People, outages and restarts owe nothing, but happen only so often.
* `Accounts`: a login's own goroutines run (its time limit ends it if nothing else
  does), its outcome is recorded, its place is freed. Nobody need sign in.
* `Updater`: the timer fires, the steps of a check are taken (each call has a
  timeout), a restart that was asked for is made.

## 4. Proofs

All for any value of the constants; no run's bound is assumed.

**SharedLoginProofs.** `TypeOK` says where things are, not where credentials come
from, and the store's order rests on the latter: `storeCredential` compares expiry
times. `IInv` adds that every credential held anywhere was issued (`Issued`) and,
while the account is on the panel, of a sign-in no later than the one contributed;
that the tokens of a sign-in die in the order they were issued (`Chains`); and that
a call has what its place in the code takes for granted (`Opened`). `Invariance`
proves it inductive, one lemma per action. From it: `TypeCorrect`,
`StoreMonotone` (later in its chain is later to expire, so the comparison is
right whoever writes), `TokensAlive`, and `PollerLeavesEndedAlone`, which is about the
poller only: `Resolve` for a member never looks at `endedLogins` and asks again.
`MarkedOnlyWhenEnded` is the other side of `SharedLoginMarked` (section 5): with one
sign-in, what the poller marks has ended (`MarkedForAnEnd`). `ManagersMoveForward`
(`ManagerNeverGoesBack`) adds mutual exclusion: a call from lock to answer holds its
manager's mutex, and the reply it awaits is later than what the manager has.
`NewestTokenKept` proves `RotationNeverLost` where there is one sign-in
(`LastSignIn = 1`; with two it is false, section 5): the latest credential is with one
call or with `diagnose`, and then nobody else has it, or queued, or in the row, and a
flush has copied nothing later than what is queued.

The locks are proved too. `OneCallAtAManager`: a manager's mutex has one call at a time
between lock and answer (`Locks`). `NobodyWaitsForNobody` adds who waits for the panel
(`Awake`): a call that cannot go on waits for one that can, or for a read under way; it is
what `RequestEnds` needs besides fairness. `RefreshedOnceUnlessSomethingFails` is the
other side of `SharedLoginCollision` (section 5): with one sign-in that is used nowhere
else, and while no call and no read of the panel fails (`Unfailing`), the manager everyone
shares has the newest credential, nobody forgets it, and no refresh token is spent twice
(`Once`), unless a stop or a crash took the newest along.

**PanelStoreProofs.** `IInv` is lock discipline (`StoreInv`), no decision from the
future (`Past`), and the heart of it, `Decided`: a call about to save, whose save
would win, holds what its decision makes of the panel *as it is now*. With a row
that is because every save moves the version; with a file, because one mutex is
held from read to write. Then a winning save is exactly `AtomicPanel`'s `Apply`, and
`Implements` follows step by step. `UniquelyIndexedAlways` needs that each decision
keeps the indexes; `LosersMeanWinners` that a retry read a later version.
`NothingComesBack` (`TakenAwayStaysAway`) and `OneMachineAnInvite` (`InviteUsedOnce`) rest
on ids drawn at random never coming again (`FreshIds`): what a call names was on the
panel when it asked, so no later call mints its id, and a code once used stays used.
`NobodyWaitsForNobody`: a process's mutex is always held by a call of its own that is
deciding or saving, through lost races and deaths.

**MeteringProofs.** `MeteredOnce` and `EveryEventAccounted` are about two goroutines
that copy the queue, write outside the lock and remove by number. `IInv` adds to them:
no more events than answers (`Answering`), one flush writing at a time (`OneFlush`),
what a copy is of (`Snapshots`: its events were queued when it was taken, and only the
front of the queue has moved since), that nothing past the flush's place has been
written (`Frontier`), that what is behind the head was written or counted (`Written`),
and that the drain leaves only after the queue is empty or something failed
(`Drain`). `UsageMeteredOnce` and `UsageAccounted` follow, for a queue and members of
any size.

**RemoteJobsProofs.** `AnsweredOnce` (`RunsOnce`) rests on `Apart`: a request that was
never cut is in one place at a time, not yet seen, held, taken off the queue by one
handler, being reported by one, or settled. The report that a request is held is the
exception, as the owner may answer it while the loop still sends that; there the
panel's status keeps the two apart. With `Roles` (only the loop asks and holds) and
`LateIsCut` (what arrives late was cut) it is inductive, and gives
`NothingWaitsInTheWindow`, `AnswersStay` and `TypeCorrect` too.
`NothingShownWaitsForNobody` is what `HeldRequestIsAnswered` rests on besides fairness:
a request shown as held is on the machine's list, or in somebody's hands, or was cut.

**UsageServiceProofs.** Three arguments over one invariant. `CallsAreSpaced`: an entry
that may be read around was made at least `ExpireFloor` ago (`Spaced`).
`RefusalsAreHonoured`: a cooldown is never forgotten before its end (`Hushed`).
`NumbersBelong`: what a read, a saved report and a `Forget` have in hand was read from
who is signed in now, unless they crossed (`Underhand`, `AtRest`, `Linking`). They need
`ShortTTL <= ExpireFloor <= TTL <= BackoffFirst`, which the code's durations satisfy.
`WaitingHasItsReader`: there is one reader, and who waits, waits for it (`Accompanied`), so
`GetReturns` needs no more than that it goes on. `ForgottenUnlessCrossed` is the other side
of `UsageServiceForgotten` (section 5): without a crossing, what `Forget` dropped does not
come back.

**SupervisorProofs.** The register is written at the top of the loop and the ledger
where a target is taken, so `IInv` follows the supervisor from the one place to the
other (`Placed`, `Recorded`) to reach `FilesTell` (`SaysWhatRuns`), for any number of own
accounts, shares and lives. `RuleStays` follows: a rule's stamp is held against the
register, which carries the nonce of the supervisor that runs. Two more are what
liveness rests on. `NewKeyIsInHand`: while a session runs on a share, its watcher is
looking, or the switch it staged is on the disk or with the goroutine, unless it was
overwritten or refused (`missed`); with fairness that is `KeyRenewed`. `CloseIsHeeded`: once
the editor's signal came no step launches Claude Code again in that life, wherever in the
loop it landed; with fairness that is `CloseEnds`.

**ServiceProofs.** About `Accounts`: `LoginsAreTheirOwn` has the premise `~Keychain` and is
false without it (section 5): a login is in the directory of its account (`Housed`), which
`Add` clears before it lists the name again. `EveryLoginReached` is `NoStrayLogin`,
with one start at a time and a slug for every `claude` (`Room`, `Runs`).
`ForgottenStaysForgotten` looks at one step, and needs nothing of the state.
`SignedInIsRecorded` is the safety side of `LoginSettles`: what a login ended with is not
forgotten before it is recorded, as a removal between its record and its directory finds
the directory there (`Removals`) and a name is not listed over one, so no removal takes the
login of an account added since.

About `CheckIn`: `BehindAtMostTheLongestWait` is `FiveMinutesBehindAtMost`. Nothing is
behind when the loop begins to wait, nor while it cannot check in or has just failed to
(`OnTheBeat`), and one wait is `checkInBackoff` of some number of failures, at most
`CheckInBackoffMax` (`BackoffBounds`). `checkInBackoff` is the closed form of the code's loop of doublings, as
a recursive one could not be reasoned about.

**UpdaterProofs.** `BinaryKept`: the binary is missing only while a process that moved it
aside has it in hand (`InHand`) or after something went wrong. `NothingOlderUnlessTakenBack`
proves `updater.go:15` for releases that are never taken back (`MaxWithdrawn = 0`):
nothing on the disk is later than the latest, nothing a check may displace is later than
what it will put there, and only one process is mid-swap, unless something untidy
happened (`Order`). The counterexample of section 5 shows why the premise is there.
`InstalledIsRun`, with fairness `Converges`: a service runs what is installed, or is about to
be restarted, or somebody is mid-swap (`OneSwap`), or an install was cut, undone or a
person's own.

Assumptions are the named `ASSUME`s of the modules the proofs are about: shapes of the
constants, a lead shorter than a lifetime, a file with one process, waits in the order
the code has them, ids that are new (`FreshIds`), and marks for "nothing" that are not
something (`NoneIsNothing`, `NoneIsNoReport`, `NothingIsNoFile`).

**Model-checked only:** `NothingLost`, which is false (section 5); `RotationNeverLost` for more
than one sign-in, which is false too; and everything under fairness: `RequestEnds`,
`RotationStored`, `HeldRequestIsAnswered`, `GetReturns`, `CloseEnds`, `KeyRenewed`,
`CeilingLifts`, `SettlesInStep`, `LoginSettles`, `Converges`. Liveness is out of the prover's
reach, and so is the question whether an action is enabled; what is proved above of these
is their safety side, which for `RotationStored` is `RotationNeverLost`. For `CeilingLifts` and
`SettlesInStep` none was found that says more than one step of the model does.

## 5. Where the code differs from what it says

The run `Transcripts` checks `NothingLost`, "Prune never removes what it could not
duplicate" (`accounts/prune.go:73-74`), and TLC refutes it: `shareProjects` takes a
shared file at least as large as the account's own for one that holds all of it
(`prune.go:200-201`). The migration copies a conversation; a session in a shell
opened before the flip adds a line to the account's own copy; the person resumes the
shared copy and adds another; prune finds two files of one size and deletes the only
copy of the first line.

Counterexamples kept beside the runs. Each configuration below checks one statement
of the code or its comments that the model shows not to be so; TLC finds the trace in
seconds. They are not among the runs above, which all hold but the one.

| Configuration, property | The statement | What happens |
|---|---|---|
| `SharedLoginReadded` (`MCSharedLogin`), `NewestSignInKept` | "Only a newer sign-in replaces the one held" (`panel/handlers.go:274`) | a refresh of the replaced sign-in expires later than the new one and overwrites it (`dbwriter.go:268`) |
| `SharedLoginCollision`, `NoSelfCollision` | "All members of an account share the same manager, so the token is refreshed once, centrally" (`db.go:390-392`) | a forgotten manager still in use and its successor spend the same refresh token |
| `SharedLoginOverwritten`, `RotationNeverLost` | "Only the newest per account matters: each rotation spends the one before it" (`dbwriter.go:82-83`) | with two sign-ins in use the queue drops the newer one's rotation |
| `SharedLoginMarked`, `MarkedLoginEnded` | "this exact stored login was already found to have reached the end of its sign-in" (`db.go:360-361`) | the poller reads a new sign-in, whose token expires before the one its manager holds and so is not adopted; the old sign-in ends, its refresh is refused, and the new login is marked: the poller skips it until another credential is stored, and the panel is told that it has expired |
| `PanelStoreRemoved` (`MCPanelStore`), `RemovedPersonHasNoAccess` | "so their access ends everywhere at once" (`panel/handlers.go:391`) | a contribution authenticated earlier gives the removed person a share again; so does an invite left over |
| `RemoteJobsWaiting` (`MCRemoteJobs`), `NeverLeftWaiting` | "so the panel isn't left "waiting" for ever" (`queue.go:57-58`) | the request is off the queue before its report, whose failure is dropped |
| `UsageServiceForgotten`, `ForgottenStaysForgotten` | "numbers that outlived that would come back under an account they were never about" (`usage/service.go:232-233`) | a read begun before a new sign-in keeps the former login's numbers after `Forget` |
| `SupervisorKept`, `ConversationKept` | "so a switch resumes this one and not merely the most recent in the directory" (`sessions.go:57-58`) | after `/clear` the register still names the conversation of the launch, and the page's switch and the key watcher's resume that one |
| `CheckInJoined`, `JoinedIsPickedUp` | "a machine joined ... after the service was already running is picked up without a restart" (`cmd_panel.go:418-420`) | one 401 ended the loop for the life of the service (`cmd_panel.go:453`) |
| `AccountsKeychain`, `OldLoginNeverSurfaces` | "a leftover from a removal that failed ... would otherwise be adopted silently" (`accounts/manager.go:91-95`) | where a login outlives its directory (macOS), removing an account and adding its name again does just that: `RemoveLogin` (`capture.go:105`) has no caller |
| `UpdaterOlder`, `NothingOlder` | "Nothing is replaced by something older than what is running" (`updater.go:15`) | the release, its checksums and its archive are fetched by three questions; one published and one taken back between them put an older build in place |
| `TranscriptsWriting`, `NothingLost` | as above | a session that writes between prune's walk and its deletion loses the lines |

Noted while reading, and not modelled:

* `clawdh remote off` writes the switch and leaves the allow window, which is in the
  service's memory (`cmd_remote.go:45`), although the page's handler calls it "the
  same switch" and ends the window (`handlers_remote.go:63-64`). `RemoteJobs` has
  both actions.
* A save of the usage numbers copies them under the lock and renames its file
  outside it: one that copied before a `Forget` and renames after it leaves the
  former login's numbers in `usage.json` for the next start (`store.go:76-111`).
  A login refused although it looks fresh, and held by the gateway, is looked at
  again after `shortTTL`, though Anthropic answered (`service.go:459-463`).
* `RevokeShare` compacts the shares in place and then reads the removed one through
  a pointer into the same array, so its log line can name the next share's person
  and account (`panel/store.go:338-357`); `handleWithdraw` has the same with the
  account's name (`panel/handlers.go:344-345`).
* `handleCheckin` ignores an error of its second `Load` (`panel/handlers.go:692`):
  the machine is answered with no shares and forgets them all until the next one.
* After one 401 `watchPanel` returns for good (`internal/cli/cmd_panel.go:453`),
  though its comment at the top of the loop expects a machine to join later.

**Sessions.**

* The loop's second look at a handoff does not check whom it is for
  (`cmd_run.go:404`); a handoff staged between a switch and the relaunch is cleared
  unread (`ClearHandoff` at the top of the loop); a handoff that cannot be written back
  after "Switching" was told ends the session.
* `applyRule` reads the usage for up to six seconds and then clears whatever rule is
  there; a handoff that cannot be written after that loses the rule. A rule to the
  account a session is already on restarts it for nothing.
* A default target cleared comes back when a legacy `default.json` is still there
  (`sessions/default.go`). A conversation moved from an own account to a share keeps its
  id, so its own past enters the ledger remote help goes by. `MarkRevoked` has no caller:
  the revocation a session polls for never comes.
* An account removed while `~/.claude.json` names it, with no default copied aside
  yet, is taken for the default's identity at the next start, although `identity.go:33-39`
  waits for a genuine default login. Without the copy, switching to the default leaves
  the other account's name in the file.

**Gateway.**

* "One flush at a time, so no usage row is written twice" (`dbwriter.go:63`) does not
  reach an insert that timed out after it was made: `unheard` in `Metering`.
* `RecordUsage` stamps the time of the write; a collision note that cannot be stored
  holds up every event behind it, and one stored after a new sign-in flags a good
  login; a queued reading of an answer's headers can overwrite a newer one of the poller;
  an event trimmed while it is written is both stored and counted as dropped.
  `MemberLimitStatus` does not look at a reset that has passed; a window's header value
  of 1 is read as 100 %.

**Panel and machine.**

* A slower older check-in can be applied over a newer one until the next; `shares.json`
  keeps its keys after a disconnect; a share's slug is not stable between check-ins.
  The remote-help switch reads, changes and writes `panel.json` without a lock, and can
  bring an enrolment back that was replaced in between. Notices are shown before they are
  noted as shown.

**Accounts.**

* A login can outlive the removal of its account, though `handlers_accounts.go:73`
  says it cannot. An account stays "pending" if the service stops between the login's end
  and its record, and when `SetStatus` fails, which is only logged. A final probe that is
  slow may mark an account added again meanwhile (the file says linked; `List` asks
  again and hides it). Forgetting the default account between `EnsureDefault`'s check
  and its append is undone by the append.
* The migration counts a file that grew while it was copied as failed, to be "retried
  next boot" (`migrate.go:188-194`); the retry finds the short copy there and skips it.

**Updates and the service.**

* A crash between the two renames of Windows, or `clawdh stop` there, leaves no binary,
  though `replace_windows.go:87-88` says a failed update never can. A failed or cut stamp
  leaves a build dated now, and a release published before that moment is passed over.
  Two processes updating at once can leave the older build with the newer date. A build
  made by hand while a check is under way is overwritten. `Health` waits for the mutex held
  through a whole download, and the page with it.
* `Running` may delete the port file a server has just written, after a probe of the
  former one was refused (`service/status.go:43-90`); of two `clawdh start` the loser
  writes its dead child's pid over the winner's, and after a power loss, with a command
  beside the login item, both at once leave a server no command finds; `Serve` leaves the
  pid file, though `server.go:114` says it cleans up both; `Stop` takes a slow probe for a stopped
  server, and without an answering server signals whatever process has the recorded
  pid.

## 6. Not modelled

What PROJECT.json lists as `partly` says in its note what is left out of each part. Not
modelled at all:

* **Background service lifecycle**: calls to launchd, systemd and the Windows startup
  folder. Its port and pid files are shared by processes without a lock, and what was
  found reading is above; a model would be of one person starting one service twice at
  the same moment.
* **Boards, reports, health and attribution**: SQL and arithmetic over stored rows, no
  protocol; **sealing**: a library's.
* **Shell aliases, editor settings, status line, notifications, terminals, user
  interfaces, configuration, packaging**: text rendered and files written by one
  process, which unit tests reach.
* Within what is modelled: token counting and weights, redaction, wording, rendering, the
  recent-answers cache of the status line, other accounts than the one a module is
  about.

What could come next: a model of the service's port and pid files; `Supervisor` with two process
numbers sharing `~/.claude.json` and the default of new sessions.
