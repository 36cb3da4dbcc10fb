# Verification of ClashFX

TLA+ models of the concurrent core of ClashFX, a macOS proxy client: a Swift
application, a Go bridge that embeds the Mihomo core, a privileged helper, and
the scripts that adapt the bundled dashboard to the web view it is shown in.
Paths below start at the root of the repository; `Utils` and `Managers` stand
for the directories of that name in `ClashFX/General`.

What makes this program hard is that almost nothing it asks for is answered
before the next thing happens. Applying a configuration, switching the system
proxy, suspending the core and restoring DNS are chains of asynchronous
requests with timeouts. Each may be superseded, answered late, answered twice
or not at all, and most of them undo each other. The models are about those
orders of events. What a configuration contains, how a menu looks and how a
share link is parsed is left to the repository's tests; the one conversion of
data that is modelled, the dashboard's colours, decides whether text can be read.

Contents: [inventory](#1-inventory), [modules](#2-modules-and-their-code),
[runs](#3-runs), [fairness](#4-fairness), [proofs](#5-proofs),
[disagreements](#6-disagreements-between-code-and-comments),
[not modelled](#7-what-is-not-modelled), [plan](#8-plan),
[how to run](#9-running-the-checks).

## 1. Inventory

### Components, their state and what makes them correct

| Component (source) | State | Operations | Correct when |
|---|---|---|---|
| Configuration transaction (`Utils/RuntimeConfigTransactionController.swift`) | active operation and its phase token, confirmed receipt, uncertainty flag, epoch, retained snapshots, snapshot files | submit; validate, apply, verify, roll back, retry; adopt (now or asynchronously); invalidate | the confirmed receipt is what the core runs; no two applies in flight; a snapshot that may be read is not deleted; every transaction ends |
| Embedded core lifecycle (`goClash/cache_lifecycle.go`, with its callers in `main.go`) | two mutexes, the state word (generation, suspended), the update epoch, listeners, cache database | start or resume, update, TUN switch, suspend, cancel of pending updates, reopen of the database | suspended means stopped and the database closed; a stale suspend, update or start harms nothing newer; no deadlock |
| Automatic proxy recovery (`Utils/SystemProxyAutoRecoveryController.swift`) | per controller: generation, scope, operation, five timers; shared: attempts, suspensions, lease, waiters | request, reset, cancel, five timers, the helper's callback | one write at a time; the attempts of a scope are bounded; the lease is never lost; a conflict ends in suspension |
| System proxy manager (`Managers/SystemProxyManager.swift`, `Utils/SystemProxyOperationPolicy.swift`) | generation, pending write, termination flag, the snapshot in UserDefaults, the queue of operations | enable, enable over another program's proxy, disable, terminate, checkpoint, roll back | the user's settings are on disk as long as ClashFX's are in force; nothing overlaps an unconfirmed write; a reported success had the last word; quitting enables nothing |
| Serialized operations and settlements (`Utils/ManagedOperationSettlement.swift`) | queue, running flag; outcome, timer | enqueue, done; finish, time out | one operation at a time, one outcome, always an end |
| Tunnel DNS transaction (`Managers/TunDNSTransactionController.swift`, with the DNS requests of `ProxyConfigHelper`) | journal file, active operation, lineage of transactions, clear token; in the helper the latest capture and write | apply (capture, merge, save, apply, prune, flush), restore (load, restore, compare, clear, flush) | the user's resolvers are in a journal the helper accepts until they are restored; a restore holds and gives back what the user has by now |
| Bundled dashboard compatibility (`Resources/DashboardCompatibility/clashfx-compat.js`) | diagnostics, utilities seen, the fallback's style sheet, a scheduled frame, the batch of theme probes | evaluate, activate, observe classes and theme, rebuild, answer theme previews | the fallback is there exactly where it is needed, follows the page without feeding on itself, and what it paints can be seen and read |
| Dashboard rules requests (`Resources/dashboard/config.js`, `ViewControllers/ClashWebViewContoller.swift`) | remembered rules, stale banner, requests under way | fetch through two wrappers | rules seen once stay when the core does not; no date of a match that never was; every request settles |
| Proxy selection (`Utils/ProxyGroupSelectionController.swift`, `Utils/ProxySelectionMemoryRestorationController.swift`) | operation and stage per group, a guard all groups share; records being restored | select, reset, readback, invalidate; restore, cancel | one selection at a time; only a confirmed choice is remembered; the guard is freed |
| Runtime selection restore (`Utils/RuntimeProxySelectionRestoreSequence.swift`) | targets, next target, a write was issued | read, write each, verify, deadline | rejected only if nothing was written |
| Claude proxy lock (`Utils/ClaudeProxyLockTransaction.swift`) | stage sequence, started, finished | apply the runtime, apply the proxy, commit; roll both back | both halves are applied or both restored |
| Runtime control lease (`Utils/RuntimeControlLease.swift`) | lock file descriptor | acquire, release | one instance controls the runtime, also next to versions without the lock |
| Validation runner (`Utils/RuntimeConfigValidationRunner.swift`) | child process, timer, finished flag | start, terminate, time out, cancel | one result; no child or directory left |
| Enhanced mode lifecycle (`Managers/StartupProxyRecoveryPolicy.swift`) | launch, close and restore generations; watchdog samples | begin and finish of each, observe | an old token ends nothing new; a transition ends |
| Port planning (`goClash/runtime_port_plan.go`, `port_fallback.go`) | none | choose API and DNS ports | chosen ports are free, valid and distinct |
| Helper core process (`ProxyConfigHelper/ProxyConfigHelper.m`, `HelperTaskRunner.h`) | lifecycle queue, task, launch identity | start, stop, clean up, exit | at most one core; an old exit clears nothing new |
| Application (`ClashFX/AppDelegate.swift`) | everything that ties these together | notifications, menus, wake, terminate | see the components |

Further parts, without a protocol of their own, are in section 7.

### How they interact

```
            notifications, menus, wake, quit (AppDelegate, main queue)
               |                 |                    |
   configuration transaction   automatic recovery   Claude lock
     | files   | HTTP/bridge     | lease (shared)     |
     v         v                 v                    v
  private   embedded core     system proxy manager      tunnel DNS transaction
  queue     lifecycle (Go,    (transition queue)        (main queue, journal queue)
            any thread)            |  requests, late replies  |
                 ^                 v                          v
                 | HTTP          helper (its own main queue and DNS queue)
            dashboard page in a web view
```

* `AppDelegate` submits a candidate to the configuration transaction. Its client
  applies it through the bridge (`clashUpdateConfigWithEpoch`, fenced by the
  lifecycle's epoch) or through the external core's API, then restores the
  proxy selections, and later reads the result back.
* Suspending the embedded core for the enhanced mode closes `cache.db` so that
  the external core, started by the helper, can open it.
* The two recovery controllers observe the system proxy and the outbound mode.
  They write through the system proxy manager and `AppDelegate` and share one
  lease, so that their writes never overlap.
* The Claude lock takes a checkpoint of the system proxy, changes the runtime
  and the proxy, and rolls both back if either fails.
* Everything the system proxy manager and the tunnel DNS transaction ask travels
  to the helper in order and may outlive the process that asked.
* The enhanced mode points the system resolvers at the tunnel through the DNS
  transaction when it starts and restores them when it ends, before the helper
  is replaced, and after a crash. A journal on disk carries the originals over.
* The dashboard page asks the core over HTTP. Two wrappers around `fetch`, one
  bundled with the page and one injected by the web view, stand in between.

### What is hard about it

Interleaving of queues and threads; replies after their timeout; callbacks that
reenter the controller that calls them; writes that report a failure and took
effect; crashes with requests under way; shared leases that a lost callback
would keep for ever; generations that return to an old value. `PROJECT.json`
lists those of the modelled parts, each at its line, with the properties that
would notice it going wrong. Hazards no property covers are in section 7, those
of parts without a module in section 8.

## 2. Modules and their code

`PROJECT.json` maps each definition to its lines. An operator named `D_<Fault>`
is the definition `D` with a plausible bug in it; no action uses it. Each stands
for a fault that some property detects.

### RuntimeConfigTransaction

`RuntimeConfigTransactionController`. Every handler is one turn of the main
queue and one action; snapshot files are written by the private queue
(`WriteSnapshot`, `WriteSeed`); the core answers when it likes (`ServeApply`,
`ServeVerify`) and the replies are received later (`ValidationReply`,
`ApplyReply`, `VerifyReply`, `RollbackApplyReply`, `RollbackVerifyReply`), or are
stale (`StaleReply`, `DiscardLateSnapshot`). `Timeout` is the deadline of each
phase. `RetryHookReturns` splits `completeRollback` at `onRetry`, which runs while
the operation is half way: `hook` says so, and `AdoptConfirmed`, `Invalidate` and
the submissions may be made from within.

* A snapshot and its bytes are one number. A phase token is a number that is
  never reused; the code compares it with a UUID.
* The core is external. It runs `core`: its boot configuration, a snapshot, or
  a mixture a refused apply left behind. A core session is `curScope`;
  `RestartCore` and `ReplaceCore` begin new ones.
* `isCurrent` is a free choice inside the current session and false outside it.
* The controller can be invalidated at any time: `AppDelegate` does it with a new
  core session (`RestartCore`) and in the middle of one (`Invalidate`: a quit that
  is then cancelled, 883-918). The synchronous `adoptConfirmed`, which the
  controller offers and ClashFX never calls, is enabled by `CallsAdopt`.
* `orphans` and `adrift` are history: the applies that were open when the
  controller was reset in a live session, and whether what the core runs was left
  there by one of them. Such a reset also drops the uncertainty, so nothing keeps
  the next transaction from overlapping an orphan.

### CoreLifecycle

`cache_lifecycle.go` with the exported functions of `main.go` that use it. A
thread inside an exported function is at one of the steps of `req[p].pc`; each
atomic load or store that another thread can tell apart is a step. `mu` and
`stateMu` have owners, `state` is the atomic word, `epoch` is
`configUpdateEpoch`. `coreMutationMu` is only taken by the owner of `mu` and is
one with it. Starts and updates may fail, and a failed start may have brought
some listeners up. `cache` is what this process last did with `cache.db`: never
opened (`newCacheDBLifecycle` may find none, and a start that cannot open it does
not mark the core suspended), opened by a start, reopened by `clashReopenCacheDB`
(which ClashFX exports and never calls), closed, or closed with an error. The last
counts as closed for `CacheFile` (`core_overlay.py:912-921`), so nobody tries to
close it again, and the error is only logged (`main.go:1781-1783`): what the
suspension promises is that the close was made, not that it succeeded.

### SystemProxyAutoRecovery, MCSystemProxyAutoRecovery

The controllers `SystemProxy` and `ClaudeRuleMode` and the coordination they
share. A handler that calls other methods is a function from the state before to
the state after it, with one operator per method (`Process`, `BeginApply`,
`Release`, `Invalidate`, `Suspend`), so that nested calls, the wake-up of waiters
included, happen in the turn they happen in. A timer is set or not and carries
the generation and the scope it captured. Delays are abstracted: a timer that is
set fires some time, a cooldown ends some time. The calls are those of
`AppDelegate`: both controllers requested, reset or cancelled together, the rule
controller requested alone, the system controller cancelled alone.

### SystemProxyManager, SystemProxyHistory

Calls 1, 2, ... are submitted to the serialized queue, and each runs as a chain
of stages: `capturing`, `displacing`, `enabling`, `disabling`, `restoring`,
`verifying`, `checkpointing`, `reverting`, `confirming`. A stage that asks the
helper waits for the reply (`Received`), for its timeout or for an error of the
connection (`StageFails`). A reply nobody waits for still confirms the end of a
write (`LateReply`). `pending` is the unconfirmed write that keeps everything
else out (`Quarantined`).

* One network service: a setting is ClashFX's or a member of `External`.
* The helper is a server that does requests in order, as its main queue does. A
  write that reports a failure may have taken effect. Requests already sent
  survive a `Crash` or are lost, and those of the next process come after them.
* A settlement posts its continuation to the transition queue, and `MayWrite`'s
  predicate is evaluated on the main queue. Both belong to the step that
  settles: a predicate may say no at any time, and nothing else of the queue
  runs in between.
* The snapshot and its validity are two keys of UserDefaults, written one after
  the other. In a step that writes both the order cannot be seen, except by a
  crash: `CrashHalfway` is the crash after the first key of a save, a removal or
  a rollback. What reached UserDefaults survives the process, in program order.
* A restore of a snapshot without services, which a removal cut short leaves,
  changes nothing, and every setting matches it.
* `forceDisable`, which no caller passes, is left out.
* `Init` is a clean start, a start after a crash with ClashFX's setting in
  force, or the first start after an upgrade from a release without the
  validity marker.

`SystemProxyHistory` adds the setting the last enable replaced. Nobody else
changes the setting while an operation runs, so that what it shows is no race.

### TunDNSTransaction, RecoverableOverride, MCTunDNSTransaction

`TunDNSTransactionController` over the serialized queue, its journal queue and
the helper's DNS queue. A running call is at a stage: `capturing`, `loading`,
`saving`, `applying`, `comparing`, `pruning`, `flushing` of an apply; `fetching`,
`restoring`, `rechecking`, `clearing`, `refreshing` of a restore. A stage has a
job in `io` or a request in `requests`; the answer goes into `answer` if the call
still waits for it, and the action of the next stage takes it from there. `Fails`
is a timeout, an error, or an operation that is no longer current; what it has
handed to either queue stays there. `ClearBegins`, `ClearEnds`, `Withdrawn` and
`ClearTimesOut` are the clear token.

* The helper's half is modelled from its source: the fences of
  `applyDNSWithSnapshot` (`MayApply`) and `restoreDNSWithSavedInfo` (`Accepts`),
  the check that nothing changed since the capture (`Matches`) and the decision
  what to restore (`IsOurs`, `Settled`). A write that reports an error may be in
  force. The helper may restart and forget its fences.
* One network service, whose setting has addresses and search domains; the
  latter stand for every other field. A transaction is numbered by the call that
  captured it, 0 is one of an earlier process.
* A restore is two requests: the helper is asked for its protocol version
  (`AskVersion`, the set `asked`), and when the version arrives `restoreDNS` is sent
  (`VersionArrives`), whether or not the call still waits, behind whatever the
  helper's queue holds by then. A version that has not arrived is lost with the
  connection, so with either process.
* A restore is a `close`, which advances `enhancedModeGeneration` before it asks, or
  a `restore` at the current generation: the rollback of a launch
  (`AppDelegate.swift:6879`) and a helper update (6971). Every caller of
  `overrideDNSForTun` gives its generation (3674, 5891), so `isCurrent` of an apply
  is false once a close has been submitted after it; otherwise it may say no at any
  time. A restore without a journal ends at once with `nothing`.
* `RestoresHold`: a reported success left no resolver of the tunnel behind, and no
  write of an earlier call brings one back. The second half is claimed of a restore
  that ran, since the queue serialises the calls before it, and of a close that found
  no journal. A restore at the current generation that found none promises nothing
  of an apply under way: the code lets it go on.
* The user changes resolvers and search domains at any time; `own` is what the
  user would have without ClashFX. A crash keeps the journal, drops the journal
  queue, and leaves requests with the helper or not.

`RecoverableOverride` is the promise behind it, in three variables: the owner's
value, whether the program's value is in force, and the value on record.
`KeepsPromise` is the refinement, with the addresses as values and the journal
as the record. That the record is the owner's while an override is in force is a
theorem of the abstract specification and holds in the transaction with it.

### DashboardColors, DashboardCompat, MCDashboardCompat

`clashfx-compat.js`. `DashboardColors` has the pure part: the palette, the
parsing of rendered colours in eight notations, the conversions to sRGB, blending,
luminance and contrast, the colours that stand in for unreadable ones, and the
search for a readable foreground. Numbers are in fixed point (channels in
hundredths, components in ten-thousandths), powers and roots of the sRGB curve
come from a table; hues are multiples of 30 degrees. A text is its notation, its
components and its alpha.

`DashboardCompat` is the script in the life of one document: evaluated before or
after parsing, the probe for `color-mix()`, the fallback with its two mutation
observers and its frames, the batches of theme probes. An action is one turn of
the event loop with its microtasks. The style sheet is the colours it sets, and
is known by what they were read from. `MCDashboardCompat` brings the bundled
themes and the engines. What is assumed of both is stated in the module: what a
mixed or unmixed probe is told as, what CSS text is, and that a theme is dark or
light on all of its surfaces. `ReadableText` is about the text the script makes
readable: muted text, links, the selected link, the round button, and the
slash-opacity utilities of `base-content`. Those with an opacity of zero are
invisible by intent, and those of other variables (a chart's `text-info/50`) are
emitted as translucent as they ask for (`clashfx-compat.js:595`): nothing is
claimed of either.

### DashboardFetch, MCDashboardFetch

The two wrappers of `fetch`. A request is sent, read (the inner wrapper reads the
text), parsed (the outer one reads a clone as JSON) and settled; it fails at any
point before that. A body has one rule, with a count and a date of its matches
and of its misses; what `Date.parse` makes of a date is part of the date.

## 3. Runs

| Run | Instance | Distinct states | Question |
|---|---|---|---|
| `transaction_caller` | 2 operations, 3 snapshots, 2 core sessions, resets in a session below epoch 2 | 1,381,702 | With resets as in `AppDelegate`: is the confirmed receipt what the core runs and do applies never overlap, but for an apply the controller was reset over; are snapshots kept? |
| `transaction_reset` | 2 operations, 3 snapshots, synchronous adoption, resets in a session below epoch 3 | 494,186 | The whole interface, also from inside the retry callback: are readers served, is uncertainty final, is the retry bounded, is the baseline kept, does the deadline always help, does every transaction end without an answer of the core? |
| `transaction_verify_file` | 1 operation, 2 snapshots | ends with a trace | Does an unanswered verification keep its file? No: section 6. |
| `core_lifecycle` | 3 threads, 4 calls; with a cache database at first or without; closing may fail | 407,054 | The safety properties of the lifecycle; is a call stuck only while another thread has its mutex, does every call return? |
| `lifecycle_older_start` | 2 threads, 2 calls | ends with a trace | Does the cleanup of an older start spare the newer core? No: section 6. |
| `proxy_recovery` | 2 controllers that share 2 scopes, 2 attempts; observations free, or a lasting conflict | 200,385 | One write, shared budget, lease accounted for; does a lasting conflict end in suspension, and every lease whatever was reset, cancelled or timed out meanwhile? |
| `proxy_recovery_lease` | 2 controllers, a lasting conflict, silent helper | ends with a trace | Does the timeout end the lease? No: section 6. |
| `proxy_manager` | 3 calls of all six kinds, crashes, also between the two keys of a snapshot | 563,668 | Is the snapshot held, the unconfirmed write quarantined, a reported success the last word? Does quitting enable nothing, is the queue never stuck and does every call end although the helper is silent? |
| `proxy_history` | 3 calls: enable, disable | ends with a trace | Does turning off restore what was replaced? No: section 6. |
| `tun_dns` | 3 calls of apply, restore and close, 2 profiles of the user, lineage of 1 | 782,158 | Can the journal undo what is in force, would the helper accept it, does a restore hold and give back exactly the user's settings, does a clear do what was reported, is the queue never stuck, does every call end? |
| `dashboard_page` | 12 engines, 35 themes, 2 changes of the page, 2 previews | 326,184 | Is the fallback installed exactly where it is needed, does it follow the page and settle, are its colours visible and the text of `base-content` readable, does the frame that is waited for come? |
| `dashboard_fetch` | 2 requests at a time, 3 answers, a core that comes and goes without bound | 50,394 | Are meaningless dates removed and nothing else, do rules that were seen survive the core, does any wrapper wait for what cannot come, does every request settle? |

### Why the bounds are enough

* Transaction: two operations are the running one and a successor, which is
  what a late apply, an uncertain ending and a reused baseline need. Three
  snapshots are a baseline, a candidate and a seed or second candidate. Two
  sessions are the old core and the new one. `MaxEpoch` allows three in-place
  invalidations, one more than a single operation can meet before it is
  detached. The proved invariants (section 5) hold without any of these bounds.
* Lifecycle: three threads are a start, the suspend that overtakes it and a
  third call that comes between them; a fourth call lets one of them return
  with another value of the state word. The proofs need no bound.
* Recovery: two controllers are all there are. Two attempts tell the first
  attempt from the last; the code's three add nothing a second retry would not
  show. `MaxGeneration` bounds only explicit calls of `AppDelegate`: handlers
  never run out. `Worlds` are what the controllers may observe: anything, or for
  each controller nothing but a conflict, chosen at the start.
* Manager: a call whose write is late, the next call that meets it, and a third
  that relies on what the second reported. A rollback needs the checkpoint
  before it and a change between them. Only calls are counted: the user, the
  preference, quitting and crashes act at any time.
* Tunnel DNS: two applies without a prune between them and a third call, restore
  or apply, that meets both; that is also where a lineage of one is full, the
  code's 64 being the same case later. Two profiles let the user change between
  a capture and the write. Only calls are counted: the user, crashes and restarts
  of the helper happen at any time.
* Page: two changes are one that schedules a rebuild and one that comes before
  its frame or after it; more of them only repeat the pair. Every bundled theme
  is in force in some state, and the engines differ in what they do with the
  probe, with custom properties and with `var()`.
* Fetch: two requests overlap in every way; their names are used again, so that
  sequences have no bound.

Where deadlock is not checked, calls, operations, changes and generations are
bounded, so a run that has used them up stops, and so does the program when
nothing is asked of it. That calls never wait for each other in a circle is
`CallsReturn`, `TransactionEnds` and `CallsEnd`. They and `FetchSettles` and
`CatchesUp` have two parts each: that nobody who has something left to do is
stuck (`NoneStuck`, `DeadlineHelps`, `NeverStuck`, `NoneHangs`, `RebuildComes`,
which name the step that must be possible), and that it is done.

## 4. Fairness

* `RuntimeConfigTransaction`: weak fairness of `Timeout`, a timer of the main
  queue, and of `RetryHookReturns`, a synchronous callback that only logs. The
  core, the client and the file queue owe nothing.
* `CoreLifecycle`: weak fairness of each thread inside a call. Go schedules
  runnable goroutines and hands a mutex over to a waiter that starves; with a
  bounded number of calls weak fairness is enough. New calls owe nothing. With
  any number of calls a mutex can be free and taken again for ever, and the
  hand-over itself is needed: `HandOverSpec` is strong fairness of each thread, and
  what the theorem assumes.
* `SystemProxyAutoRecovery`: weak fairness of every timer and of the cooldown.
  `RequestFires` is coalesced: notifications replace the timer, so this assumes
  that they pause for its 0.75 s some time. `TimedSpec` lets the helper be
  silent; `AnsweredSpec`, for `MismatchSuspends` and `LeaseEndsInConflict`, has it
  answer every write, and assumes anything only in the worlds those are about
  (`Hopeless`). `HelperSpec`, of the theorem about `LeaseEnds`, assumes of every
  world that the helper answers a write that is out and that the settle timer its
  answer sets fires or is cancelled, and of no other timer anything.
  Section 6 shows what becomes of the lease if the helper is silent.
* `SystemProxyManager` and `TunDNSTransaction`: weak fairness of `Start` and
  `Turn` together, that is of one queue and of its stages' timeouts: at most one
  call runs, so the queue's progress is that call's. The helper and the disk may
  be silent, and replies may never be received.
* `DashboardCompat`: weak fairness of `Frame`: `requestAnimationFrame` is served
  while the page is shown.
* `DashboardFetch`: weak fairness of each request: the network answers or fails,
  at the latest by its own time limit, and the event loop goes on.

## 5. Proofs

TLAPS checks every step of the proofs in eight modules, for every value of the
constants.

**`RuntimeConfigTransaction_proofs`** proves `TypeCorrect`, which holds by itself
(one lemma per handler, and lemmas about what the operators that end or continue
an operation return), and then `SnapshotsKept`, `ReadersKept`, `UncertainBlocks`
and `HookKeepsBaseline` from `SnapshotInvariant`. None of the four is inductive.
That the baseline is on disk depends on who may delete a file, hence on no
pending write or seed sharing its number (`PendingFilesOwned`), hence on numbers
and tokens having been handed out before they are used (`IdsAllocated`). That a
reader finds its file depends on the file being pinned or the reader being the
current request of the running operation (`ReadersAccounted`, with the shape of
an operation in `OperationConsistent`).

**`RuntimeConfigTransaction_baseline`** proves what the requests say about the
core. `RetryBounded` follows from `RetryHistory`: how often the running operation
has applied its candidate is told by its phase and its retry budget, and a
verified rollback lies between the first apply and the validation of the second.
`OneApplyInFlight` and `CoreMatchesConfirmed` follow from `BaselineInvariant`: an
apply the live core may still serve is the request of the running operation, or
the controller is uncertain, or it was reset over that apply. So the core cannot
change under a verification, a validation or an idle controller unless such an
orphan lands, and a seed whose epoch is still the current one has seen the core as
it is. The theorems assume nothing of the callers; what they leave open is exactly
what a reset in a live session can do (an adoption or a cancelled quit clears the
uncertainty while an old apply is still out), and without the two exceptions TLC
finds both properties violated in the `transaction_caller` instance.

**`CoreLifecycle_proofs`** proves the type invariant, `SuspendedMeansStopped`,
`AppliesHaveCache`, `UpdateInOwnSession` and the action properties
`StaleSuspendHarmless` and `SuspendFencesStart` from `LifecycleInvariant`. Its
parts: who holds which mutex at which step (`LocksHeld`, `StepsInOrder`); epochs
never run ahead (`EpochsBelow`); under `mu` the state word moves only by a newer
suspend (`EntryCurrent`); when the cache is open (`CacheHeld`); a suspension is
in force or somebody is about to serve it (`SuspensionServed`); and
`StaleRequests`, the reason why a request whose generation was started again
finds nothing of the newer core to stop, although the state word may have
returned to the value the request saw.

**`SystemProxyManager_proofs`** proves the type invariant, `Quarantine`,
`SnapshotHeld`, `ReportsTrue` and `TerminatingQuiet` for any number of calls, any
settings and any crashes, from `ManagerInvariant`. `SnapshotHeld` has one
exception, the history variable `cut`: a crash between the two keys of
`clearSnapshot`. `CrashHalfway` is a step of the proof, and each part of the
invariant that depends on the snapshot is conditional on `~cut`; the rest is not. One operation runs at a time
(`Alone`), and what this process writes is the last request and is `pending`
(`WritesLast`). Hence an answered write leaves the helper idle until the answer is
received (`AnswersAlone`), so that what the write did is still so, but for the
user: that is what a success is reported on (`Settled`). An enable that has gone
past its capture, or is still with the helper from a process that died, has a
snapshot if it keeps one (`KeptAhead`), and only a read-back that owes nobody a
snapshot gives it up.

**`SystemProxyAutoRecovery_proofs`** proves the type invariant, `LeaseAccounted`,
`OneWriteInFlight` and `BudgetShared` for any scopes, observations and number of
attempts. A handler is a composition of operators, and so is its proof: most of
them only touch timers (`Touched`); ending an operation is sound whatever becomes
of the request it put off (`SoundBut`, `Settles`); disarming is sound although
waiters may be disarmed half way (`Unarming`). The inductive invariant is
`LeaseAccounted` with the scope of a live operation, and the writes begun bounded
by the attempts counted. Where no run lists a type invariant, here and in the modules of
the transaction, the lifecycle and the requests, it is these theorems that show it.

**`DashboardFetch_proofs`** proves `RuleTimesTrue` and `CacheServes` for any
answers of the core and any number of overlapping requests. `FetchInvariant` says
what has been made of an answer at each point between the inner wrapper and the
page, that the cache holds a list of rules the core has answered without dates
that mean nothing, and which requests may rely on it.

**`DashboardCompat_proofs`** proves every safety property of its run but
`ColorsTrue`. The protocol first: `CompatInvariant` ties the frame that is waited
for to what is out of date (`SheetKept`, `StylesType`), the fallback to the test
that failed (`InstalledOnce`) and the previews to their batch (`PreviewsInv`);
`TypeOK` and `RebuildsAsNeeded` follow for any page and any number of changes.

`FallbackExact` then needs that the probe tells the engines apart (`ProbeTells`).
An engine without `color-mix()` leaves a colour with full opacity, with none, or
no colour, whatever its channels are; one with it may answer as `rgb()`,
`color(srgb)` or `oklab()`, in numbers or percentages, anywhere within the rounding
of that notation. For `oklab()` the proof follows the cubes, the matrix and the
inverse of the transfer curve, which is monotone because its table is
(`LinearGrows`, `EncodedBetween`).

`ReadableText` is shown in three steps. The colours: every way to know a variable
(the text, what the probe element computes, the stand-in of each of the 35
palettes, or inherited black) ends in opaque colours that are not the sentinel,
on surfaces that are all dark or all light, lifting included (`ReadGood`,
`LiftedGood`, `ColorsGood`). The contrast: on surfaces that agree, the better of
white and black has a contrast of at least 4.55 on all of them (`TargetReadable`),
a step towards it is taken at 4.7, and rounding text and surface to 8 bits changes
light by so little that 4.5 is kept (`LightRounded`, `LuminanceRounded`,
`RoundedContrast`, `ReadableOnAll`). The sheet: each text that is made readable is
such a colour on such surfaces, the accent's own background and the button
included (`SheetReadable`). The code's 4.7 where 4.5 is wanted is what makes the second step work.

**`TunDNSTransaction_proofs`** proves `PromiseKept` of `RecoverableOverride`, by
itself inductive (the record is the owner's value while the override is in
force), and every safety property of the transaction's run, for any number of
calls, any settings and any bound on the lineage: the type invariant,
`StillRestorable`, `RestoresExactly`, `RestoresHold`, `ClearsAsReported`, and as
`PromiseImplemented` the refinement `KeepsPromise`, from which `PromiseKept` gives
that the journal has the user's addresses (`UserRecoverable`). The invariant has a
part for each place where something may be late. A job that writes the journal is
the first of its queue (`IoInv`), and while there is one the helper holds no
apply; so an apply that is served late
still carries the journal on disk (`RequestsInv`). A restore whose version arrives
late carries what was the journal when its call ran: until a later call replaces
that, it still is, and while the helper would accept it, its addresses are the
user's (`LateInv`). What a save will write undoes
what is in force by then (`SaveInv`), a clear on its way means that the tunnel's
resolvers are gone (`ClearInv`), a running call knows what its last answer said
as far as nobody else can change it (`KnowsInv`), transactions are numbered in
the order the queue runs them (`OrderInv`), and an apply that may still write is
younger than every restore that holds (`HistoryInv`). The lemmas follow the code:
what ends an operation, asks the helper or enqueues a job keeps the invariant
under stated conditions, and each callback meets them.

The assumptions are those on the constants. Bounds are natural numbers
(`BoundsAssumption`, `LifecycleAssumption`); `None`, `Nothing` and ClashFX's own
setting are no values of the other sorts (`ManagerAssumption`,
`RecoveryAssumption`, `NoneAssumption`), the tunnel's resolver is in no profile of
the user (`TunDNSAssumption`), there is at least one attempt, and what may be observed is
an observation; an answer is a list, an object of rules or other text, and a
rule's hit count a number or missing (`AnswersAreBodies`).

Of the dashboard three things are assumed, and TLC evaluates them for the engines
and the style sheet of its run. `EnginesAssumption`: an engine either renders the
probe, to a step of 255 and two hundredths of opacity, or leaves it unmixed.
`StylesheetAssumption`: the values of the bundled CSS are hexadecimal or `lab()`,
the three surfaces of a theme are all dark or all light, and not both base and
text are nearly black; a sheet whose surfaces lie on both sides of middle grey
leaves no text colour that can be read on all of them. `CompatAssumption`: opacities
of utility classes are natural numbers.

### Liveness

The provers know nothing of `ENABLED`, but from a step that stays possible under
fairness everything else is a temporal argument, for which "it is possible" is an
opaque state predicate. So each liveness theorem but one has the form
`Fair /\ []Possible => Live`. `Possible` says that whoever has something left to do
can take the step fairness is assumed of, and never that it is taken. TLC checks
it in the run of the component, as the first conjunct of the liveness property.
What the theorems prove is the rest of the argument, for any number of calls, threads, requests and sessions: that the step
leads on, that no step of anybody else takes back what was reached, and, where
one step is not enough, how far there still is to go.

| Theorem | Assumes | Argument |
|---|---|---|
| `FetchSettlesCorrect` | `Spec`, `NoneHangs` | A request only moves on from sent to reading, parsing and done. |
| `CatchesUpCorrect` | `Spec`, `RebuildComes` | A sheet that is out of date has asked for a frame, and the frame leaves it current. |
| `TransactionEndsCorrect` | `Spec`, `DeadlineHelps` | A deadline ends a transaction or takes it to a later phase, at most once back to the first ones: each phase of each retry is left for good. |
| `CallsReturnCorrect` | `HandOverSpec`, `NoneStuck` | Whoever holds `stateMu` waits for no mutex and gives it back; so does then whoever holds `mu`, who waits for `stateMu` only. A waiter finds its mutex free again and again, and each step of a call takes it nearer to its end. |
| `LeaseEndsCorrect` | `HelperSpec`, which says of answers and settle timers that they come, not that they are fair | A write that is out keeps the lease until its answer; the answer ends the lease or sets the settle timer, and until the lease ends no step hands it on or begins a write. |
| `CallsEndCorrect` of the manager | `FairSpec`, `NeverStuck` | The running operation only goes on to stages nearer to its end, or ends, so the queue is free again and again; while it is free and a call waits, its next step can only be a start, which ends a call in turn. |
| `CallsEndCorrect` of the tunnel DNS | `FairSpec`, `NeverStuck` | Likewise; a clear of the journal waits, runs, is answered or times out. |

`CallsEnd` says that the queue is idle again and again, or calls end for ever. A
call that has ended stays so (`EndsOnce`), so a bounded number of calls leaves the
first; counting them would be induction over data. The fairness `LeaseEnds` needs in
every world is dear to TLC: its run checks `LeaseEndsInConflict`, the case of a
lasting conflict, and the theorem shows `LeaseEnds` of every world.

The assumption of `CallsReturnCorrect` is stronger than that of its run (section 4),
because a run has finitely many calls.

### Model-checked only

* `NoneHangs`, `RebuildComes`, `DeadlineHelps`, `NoneStuck`, `NeverStuck`: they are about `ENABLED`.
* `MismatchSuspends`, and `LeaseEndsInConflict` under the fairness of its run (for
  `HelperSpec` it follows from `LeaseEnds`): the first is induction over the attempts left, which would take the
  library's induction with a temporal formula as its predicate.
* `ColorsTrue`: that the palette and the two notations of the bundled CSS agree is
  arithmetic about that style sheet's data, without a parameter, and TLC evaluates
  all of it.

## 6. Disagreements between code and comments

1. **An unanswered verification loses its file** (`transaction_verify_file`,
   `RuntimeConfigTransactionController.swift:545`). The comment above
   `retainedSnapshots` keeps "any snapshot that may still be read by an in-flight
   request". A verification that times out is followed by a rollback, and the
   end of that rollback deletes the candidate. `AppDelegate` reads the file when
   the verification begins, so nothing breaks today.
2. **An older start may stop a newer core** (`lifecycle_older_start`,
   `main.go:1254`). Of two starts of the same generation the superseded one may
   get the lock last; it fails its epoch check, and its cleanup takes down what
   the newer one started. ClashFX starts the core from its main thread only.
3. **A timeout does not end the lease** (`proxy_recovery_lease`,
   `SystemProxyAutoRecoveryController.swift:390`). Two comments say "until
   callback or timeout"; the code, and a test, keep the lease until the callback.
   If it never comes, neither controller writes again.
4. **An old snapshot outlives what was replaced** (`proxy_history`,
   `SystemProxyManager.swift:426`). The release notes promise that turning off
   restores the state before taking over. A snapshot that was never restored,
   because another program replaced ClashFX's setting in between, is reused by
   the next enable, and turning off restores settings older than those.
5. **Cached rules may lose their banner** (no run;
   `ClashWebViewContoller.swift:353`). The release notes
   (`docs/appcast.xml:636`) promise that cached rules are clearly marked as
   stale. The banner is removed whenever the text of an answer has been read:
   with two requests for the rules under way, the older answer may be read after
   the newer request fell back to the cache, and the page keeps cached rules
   without a banner.
6. **A snapshot may be cut** (the exception in `SnapshotHeld`;
   `SystemProxyManager.swift:131`). A crash between the two keys `clearSnapshot`
   writes leaves a snapshot that is marked valid and not there. The comment of
   the class (36-39) wants a captured or known-valid snapshot before every
   enable; the next enable trusts the mark and captures nothing, and the next
   disable sends an empty snapshot, which the helper restores by leaving
   everything as it is and which every read-back matches: turning the proxy off
   is reported as done while ClashFX's setting stays. Without `cut \/` in
   `SnapshotHeld` TLC finds the trace: a disable, the crash, an enable. Clearing
   the mark first would close the gap.

## 7. What is not modelled

Components that wait for a module are in the plan. These will stay out:

* rewriting and parsing of configurations, share links and YAML (`main.go`,
  `listener_conflicts.go`, `custom_ipv6_dns_retarget.go`,
  `RemoteConfigManager.swift`, `ClaudeProxyLockPolicy.swift`, `ClashFX/Models`):
  conversions of data with unit tests; where they fail, a model lets them fail;
* stateless policies, diagnostics and readback comparisons
  (`RuntimeConfigReadbackPolicy.swift`, `RuntimeConfigApplyDiagnostics.swift`,
  the decision tables of `StartupProxyRecoveryPolicy.swift`): their verdict is a
  free choice in the models that use them;
* the helper's installation and trust checks (`PrivilegedHelperManager.swift`)
  and how it writes SystemConfiguration preferences (`ProxySettingTool.m`): I/O;
* menus, windows, settings, benchmarks, localization;
* the Mihomo core, which is not in the repository, with the overlay scripts that
  patch it, and the repository's tests and release scripts;
* of `AppDelegate.swift`, everything but its calls of the modelled components;
* of the dashboard, everything but the two scripts: the bundled application is
  third-party code; of the scripts, how CSS and dates are written, a second
  evaluation (it returns at once), and style sheets that load late. The other
  scripts of the web view (API guard, upgrade policy, diagnostics) are not
  modelled.
* of the tunnel DNS transaction, journals of releases before version 2, several
  network services and services that disappear, damaged journals (a load that
  fails stands for them), the absolute deadline before the write, and the
  resolver probe and startup recovery controllers in the same file.

Hazards of modelled components without a property:

* `SystemProxyManager.swift:523`: the captured value and
  `liveSystemPointsToClashFX` are read at different times, so that ClashFX's own
  setting may be saved as the original. The comment there wants loopback
  settings of disconnected services kept, which one network service cannot tell
  from ClashFX's own.
* `SystemProxyManager.swift:298`: a rollback restores the live setting and then
  finds itself superseded; the live setting is the checkpoint's, the snapshot is
  not. Only the Claude lock can do this.
* `ClashWebViewContoller.swift:353`: the banner, section 6.
* `clashfx-compat.js:632`: without `data-theme`, a change of
  `prefers-color-scheme` is observed by nobody; `SheetCurrent` excludes it.

## 8. Plan

Done: configuration transaction, core lifecycle, automatic recovery, system
proxy manager, tunnel DNS transaction with its abstract specification, dashboard
scripts, and the proofs of section 5. Next, in this order:

1. **SerializedOperations**: the queue and the settlement as an abstract
   specification (one operation at a time, one outcome each, all end), which
   SystemProxyManager and TunDNSTransaction implement under a refinement mapping.
2. **ClaudeProxyLock**, composed with the checkpoints of SystemProxyManager:
   the change happens or both halves are restored; what superseding leaves.
3. **ProxySelection** and **SelectionRestore**: the guard all groups share, what
   is remembered, late PUTs, cancel; the three outcomes as an abstraction that
   RuntimeConfigTransaction's apply relies on.
4. **HelperCoreProcess** and **EnhancedModeLifecycle**: launch identities against
   exit handlers; tokens of overlapping launches, closes and restores.
5. **RuntimeControlLease**, **ConfigValidation**, **PortPlan**: small modules; the
   last one operators against a reference definition.
6. An abstract transaction (a confirmed configuration, one candidate, outcomes)
   that RuntimeConfigTransaction implements.

Further hazards of these parts, for the modules to come:

- `AppDelegate.swift:681`: The rule controller's apply hands the shared lease to
  a closure that enqueues an outbound mode change; if the change is dropped
  without its completion, both recovery controllers stop.
- `ProxyGroupSelectionController.swift:576`: A topology change invalidates a menu
  controller while its PUT is in flight: the shared guard must stay until the PUT
  settles, and must not stay for ever.
- `RuntimeProxySelectionRestoreSequence.swift:409`: The deadline passes while a
  selection write is out: the outcome must be uncertain, never a rejection that
  lets the caller roll back as if nothing had happened.
- `ClaudeProxyLockTransaction.swift:75`: The change is superseded while it rolls
  back: the remaining stages, the restore of the system proxy among them, are not
  run.
- `RuntimeControlLease.swift:168`: An instance that knows nothing of the lock file
  starts between the first look for it and the flock; only the second look finds
  it.
- `StartupProxyRecoveryPolicy.swift:140`: Launch, close and restore of the
  enhanced mode overlap; a token of an older one must finish nothing of a newer
  one, and a transition must not stay pending when its owner is overtaken.
- `ProxyConfigHelper.m:1303`: Start, stop and cleanup of the external core are
  queued in the helper, and its exit handler runs outside the queue: the task it
  clears may already be the next one.
- `ProxyGroupSelectionController.swift:432`: The readback belongs to another
  group identity or to another core than the PUT; publishing and remembering it
  would store a choice the user never made.
- `ProxyGroupSelectionController.swift:348`: A PUT that timed out may still be
  applied by the core after the guard is free and the next selection has been
  read back.
- `ProxySelectionMemoryRestorationController.swift:106`: A cancel during a
  selection waits for it to settle; a PUT after the cancel would overwrite what
  the user selects next.
- `ClaudeProxyLockTransaction.swift:40`: The settings are committed after the
  runtime and the system proxy have accepted; a crash in between leaves them
  applied and not recorded.
- `RuntimeConfigValidationRunner.swift:456`: The timeout finds a child that has
  ended and leaves the result to its termination handler; cancel and timeout may
  also come before the child is launched.
- `RuntimeConfigValidationRunner.swift:367`: A validation that ends before its
  child is launched must still remove its directory, and only once the child is
  gone.
- `StartupProxyRecoveryPolicy.swift:564`: A CPU sample of an earlier launch must
  not count towards the recovery of the present one.
- `runtime_port_plan.go:147`: A port found free is bound later: between the two
  another process may take it, and the choices for the API and for DNS must not
  collide.
- `ProxyConfigHelper.m:1374`: A core that does not exit after SIGKILL must keep
  the next start away.
- `RemoteConfigManager.swift:1135`: A download that times out settles while the
  file of the iCloud location is being looked up: nothing may be written
  afterwards, but the renamed model and the stopped watcher stay.

Proofs: what the modules to come promise, beginning with their type invariants;
`MismatchSuspends` once a prover takes temporal induction.

## 9. Running the checks

In this directory, for a run of the table in section 3 and a proof module:

    tlc -workers 2 -config ProxyManager.cfg SystemProxyManager.tla
    tlapm CoreLifecycle_proofs.tla

`PROJECT.json` names the module, the configuration file and the properties of
every run, the mutated definition that breaks each property, and the theorems.
