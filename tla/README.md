# usshtc107: a TLA+ model of the SSH proxy client

`usshtc107` is an Electron desktop client (with a headless command line) that
lets local SSH tools reach a computing portal: it runs an SSH server on a local
port and bridges every accepted channel to the portal over a WebSocket.  The
program keeps identities, profiles and settings in files, and almost
everything it does is a chain of awaits during which the user, SSH clients,
timers, other programs or a crash may act.  This directory models the parts in
which that matters most, checks them with TLC on small instances and proves
central results about the key transaction, the settings store under it, the
credential store, the queue and the publication of file transfers, the admission
of SSH clients and the SCP sessions for every instance with TLAPS.

Paths below are relative to the root of the repository (`electron/...` is
`src/electron/...` in `PROJECT.json`).

## 1. Inventory

| Component | State it keeps | Operations | What makes it hard | Module |
|---|---|---|---|---|
| Settings store `electron/settings-store.js` | root document, hash of the last known content, lock code, hash of corrupt bytes; one JSON file | `load`, `save`, `retryLoad` (with or without corrupt recovery), migration | rename and directory synchronisation are two steps; a failed save may have happened; other writers | `SettingsStore`, `RootStore` |
| SSH key service `electron/ssh-key-service.js` | three identity files, their rollback and stage files, a journal in the root | `initialize`, `recover`, `prepare*`, `execute`, `rollback`, `cleanup`, `writeBackup` | crash and power loss at any file operation, uncertain commits, cancellation, foreign edits, ordering against the listener | `KeyTransaction`, `KeyIdentity` |
| Proxy controller `electron/proxy-controller.js` | the owned instance, its record, a promise queue, a start generation | `start`, `startCandidate`, `activateCandidate`, `stop`, `cancelPendingStart`, `dispose` | synchronous effects of calls against the queue, time-outs, history | `ProxyLifecycle`, `ProxyGate` |
| SSH proxy server `electron/proxy-server.js` | TCP/SSH server, gate, clients, sessions, statistics | `start`, `stop`, accept, authenticate, shell/exec, bridge to WebSocket, SCP | abort of a listen, close time-outs, one bridge ended from many sides | life: `ProxyLifecycle`; admission: `SshAdmission`; bridge: `BridgeChannel` |
| Application controller `electron/app-controller.js` | the exclusive operation slot, pending stop, drafts, epochs and tokens | about thirty actions of the user interface | revocation of authentication during an operation, open confirmations, partial failures of multi-step saves | `AppController`; key actions in detail in `KeyTransaction` |
| Recovery controller `electron/recovery-controller.js` | round, attempt, timer, suspension, waiters, verdicts of earlier rounds | hints, probes, retries with back-off, requested starts, updates queued by publications | late answers to superseded rounds; suspension, held operations and stops that overlap | `RecoveryController` |
| Login controller, auth state `electron/login-controller.js`, `auth-state.js` | windows, cookie queries, partition | login, reset, revocation | unordered answers, resets that are joined, void or fail | `AppController` |
| Session history `electron/session-history-store.js` | records, open sessions, pending flush | register, finalise, clear, flush, load | crash with open sessions, unreadable file, clearing while it is unread | `SessionHistory`; its use in `ProxyLifecycle` |
| Credential store `electron/credential-store.js` | cookie in memory, mark of a revocation; sealed cookie and account in the root | `getCookie`, `saveCookie`, `clearCookie`, `saveSso`, `clearSso` | commits that fail or may have happened; a keyring that comes and goes | `CredentialStore` |
| File transfer controller `electron/file-transfer/controller.js` | list of transfers, those at work, the context of the list, the open dialog | `start`, `execute`, `pump`, `cancel`, `update`, `dispose` | the context changes during dialogs and transfers; places held by cancelled transfers | `FileTransferQueue` |
| File transfer orchestrator `electron/file-transfer/orchestrator.js` | a copy, temporary or in parts, and the target | `upload`, `download` | lost answers, source and target changed by others, cancellation in every phase | `FilePublication` |
| SCP `electron/scp/*` | sessions, temporary files and their quota; reader and writer | upload, download, `close`, scavenging; reads and writes with time limits | shared quota, closing during a publication, events of a stream in paused mode | `ScpSession`, `ScpEndpoint` |
| Update service `electron/update-service.js` | phase, candidate, verified file, the intent of a hand-over, the quit marker | check, download, `install`, `consumeQuitMarker` | the native updater quits the program some time later, or never; other ways out | `UpdateService` |
| Shutdown coordinator `electron/shutdown-coordinator.js` | exit code, the forced exit's timer | `request`, `reportCleanupError` | race of the two exits | `ShutdownCoordinator` |
| Token validation, health probe `electron/token-validation-service.js`, `health-probe-service.js` | round, timer, pauses | periodic rounds, `update`, `suspend`, `resume` | cancelled and armed again by the same publications | `PortalProbes` |
| Diagnostics `electron/diagnostics-service.js` | the run at work and the last one; the record in `main.js` | `run`, `get`, cancel; `save-onboarding` | what was checked may have changed, and changed back, when it counts | `Diagnostics` |
| SSH config `electron/ssh-config-service.js` | one block in the user's file, its backup | `preview`, `inspect`, `write` | a file shared with other programs; confirmed later than computed | `SshConfig` |
| Renderer `src/contexts/RuntimeContext.jsx`, `src/views/SettingsView.jsx`, `src/App.jsx` | snapshot, statistics, draft, the view on the screen | accept, report a draft, run an action, save, navigate | events and answers out of order, views that go while they save, reloads | `RendererRuntime` |
| Autostart, remote sessions, exec codec | see `PROJECT.json` | | files shared with other programs, or pure | not modelled (phases of the codec: `BridgeChannel`) |
| Portal API, schemas, IPC, logging, CLI | none worth a model | | | not modelled |

How they interact.  `electron/main.js` creates the components and passes
callbacks.  The application controller runs at most one operation at a time
and calls the key service, the settings store and the proxy controller in it.
The key service commits its journal through `rootCommit` (the settings store's
`save`) and is handed four callbacks for the listener: `beforeInstall` (stop),
`startCandidate`, `activateCandidate`, `stopCandidate`, and `restoreOriginal`.
The proxy controller owns the proxy server and listens to its events
(`started`, `stopped`, `error`, `session-open`, `session-close`), and reports a
status to the application and sessions to the history store.

What makes the modelled components correct:

- *settings store*: the outcome reported by a save is the true one; the store
  never resumes on a document that may still be lost; nobody's bytes are
  replaced unnoticed where the code promises that;
- *key service*: a transaction can be finished whatever crash interrupts it;
  keys never mix; a client never sees an identity that may be taken back;
- *proxy lifecycle*: never two servers, never an open gate after a stop or a
  superseded start, a truthful status, and a history without dangling entries;
  every call is answered;
- *application and login*: between operations the proxy serves only if it is
  wanted, with a login that holds; nothing of one profile reaches another; no
  login is forgotten and no operation keeps the slot for ever;
- *credentials*: a revoked cookie is not used again, not even after failed
  commits, reloads and restarts; a saved one is there at the next start;
- *file transfers*: never more transfers at work than allowed and no place left
  idle; nothing listed or at work in a context it was not started in; a
  queue that moves;
- *SSH sessions*: places are counted exactly; a bridge tells client and history
  the same end, never sleeps on work, and ends; an SCP client takes for complete
  only what is, and the quota of temporary files is exact;
- *publication and update*: what is published was verified, replaces nothing
  unseen and tells its leftovers; an update is handed over once and verified,
  and the program ends once, prepared and with the right code;
- *history, SSH config, diagnosis*: what was cleared stays cleared and nothing
  else is lost; the user's file is replaced exactly as shown; a diagnosis proves
  only the present;
- *probes and window*: a probe that may run will run, and a paused one does not; the
  window never goes back to an older state, and edits are consumed only with
  consent;
- *recovery*: a round never outlives its context, and a late answer changes
  nothing; no automatic round against an earlier verdict; "checking" is not shown
  for ever; no start that nobody wants; who waits for a round is answered.

`PROJECT.json` lists the hazards behind these, each at its line, with the
properties that address it.

## 2. Modules

```
KeyIdentity   <--implements--  KeyTransaction  --uses-->  RootStore  <--implements--  SettingsStore
                               CredentialStore  --uses-->  RootStore
ProxyGate     <--implements--  ProxyLifecycle
                               AppController
                               RecoveryController
MCFiles     = FileTransferQueue + FilePublication + UpdateService (which extends ShutdownCoordinator)
MCSessions  = BridgeChannel + SshAdmission + ScpSession + ScpEndpoint
MCServices  = CredentialStore + SettingsStore + SessionHistory + PortalProbes
                + SshConfig + Diagnostics
                               RendererRuntime
<X>_proofs  = theorems and proofs about <X>, for KeyTransaction, ProxyLifecycle, AppController,
                RecoveryController, MCFiles, MCSessions, MCServices and RendererRuntime
```

The detailed modules state their refinement at their end, as
`INSTANCE <abstract> WITH ...`.  `RootStore` is the joint between two of them:
`SettingsStore` implements it, and `KeyTransaction`, read through its own
mapping, takes only steps it allows.  So what the key service assumes of
commits, reloads and crashes is what the store delivers, and the two need not be
composed into one large model.  `CredentialStore` takes `RootStore` the other
way: its commits, reloads and crashes are the actions of `RootStore` themselves.

The three `MC` modules at the end check several components in one run of TLC.  The
components in them share no state as they are modelled here, so a behaviour is
one of a single component (`part`), which takes every step of its own
specification while the others stay where they start: their state spaces add up
instead of multiplying, and what the run shows of a component is what a run of
that component alone would show.  Fairness of a component at rest demands
nothing, for its fair actions are disabled in its initial states.

### KeyTransaction (`electron/ssh-key-service.js`)

`pc` is the point reached by `execute`, `recover` or `initialize`; `run` holds
their local variables (`plan`: the bytes found and to be installed; `todo`: the
files of the loop at work; `cancelled`, `uncertain`: the error in hand).
`files` and `rollback` are the durable identity and rollback files.  `mem`,
`disk`, `stable` are the root in memory, as a reader sees it, and as a power
loss leaves it.  `failure` and `locked` are what `assertReady` tests;
`listener` is the gate of the proxy and the keys it presents.

A JavaScript stretch between two awaits is atomic for the program but not for a
crash, so every durable effect (one rename, one unlink, one root commit) is an
action.  `CommitRoot` and `CommitUncertain` are the outcomes of `rootCommit`;
`ExecuteThrows`, `CloseGate`, `Reload`, `Decide`, ... are the catch block of
`execute`, branch by branch.  `Execute` stands for `prepareRotate`,
`prepareRebuild` and `prepareImport` with the user's confirmation.
`Application` are the calls from `app-controller.js` and `main.js` that touch
keys or listener; `Faults` are other programs (`Edit` makes a file `Foreign`),
failing saves of other components, crashes and power losses.

Abstracted: the bytes of a file are the identity they encode; journals have no
id, since there is one at a time; stage files are written, verified and renamed
within one stretch, so only the rename is a step.  `Reinitialize` before a
start is the call in `main.js`.

### SettingsStore (`electron/settings-store.js`)

`root`, `known`, `code`, `corrupt` are the fields of the store; `op` is the save
at work inside `save`, a migration in `load`, or a recovery in `retryLoad`;
`disk`/`stable` as above.  A save goes `write`, `sync`, and on any error
`verify`, where the file is read back and compared with both hashes
(`Verdict`).  `touched` is only observed by the properties: another program
wrote the file.  A reload that synchronises the directory is distinguished from
the first load, which does not.  `ImplementsRootStore` holds for every step but
another program's write, which `RootStore` does not have.  Abstracted: a hash is
its content; a document
is a model value; error codes as far as behaviour depends on them.

### ProxyLifecycle (`electron/proxy-controller.js`, `electron/proxy-server.js`)

`queue` and `job` are the controller's promise queue and the operation at work
(`job.at`: the await it has reached); `record` and `server` are, for each
instance ever created, the controller's record and the server's fields.  The
three calls `stop`, `cancelPendingStart` and `dispose` act at once on the
current instance *and* (two of them) append to the queue.  A server's start
and stop are steps of their own, which settle into `job.at`; a stop that throws
is tried once more by the `catch` before its job ends.  Clients take
channels through the gate and open sessions on them later: a channel accepted
before the gate closed is the interesting case.

Abstracted: statistics, traffic and logs, profile and epoch of a scope, SSH
authentication, more than one unused channel for an instance.

### FileTransferQueue (`electron/file-transfer/controller.js`)

`context` is what `getContext` (`electron/portal-services.js`) returns: profile,
epoch, authentication and cluster, or `None` where it throws, which it also does
while any other operation runs.  `currentKey` is the context the list is for;
`status`, `key` and `running` are the transfers, numbered in the order in which
they enter the list: what the list shows, where they were started, and which
`execute` has not returned yet.  `dialog` is the one native dialog that may be
open.

Everything in this controller happens in stretches between two awaits, and
there are two of these: a dialog (`Open`, `Selected`, `Chosen`, `Dismiss`) and
the transfer itself (`Ends`, with `trim` and `pump`).  `Change` is a change of
the context together with `update`, in one step: the application publishes its
state in the same stretch as the change, and publishing calls `update`
(`electron/main.js:121`).

Abstracted: directions, paths, progress, error codes and how a transfer is
carried out; `Ends` has an outcome and the verdict `execute` reaches on it.

### AppController (`electron/app-controller.js`, `electron/login-controller.js`, `electron/auth-state.js`)

`op` is `active`, the operation in the slot.  `execute` is one long function
with a branch for each action; the model has the *plan* of each action, the
sequence of stages it goes through (`Plan`), and one action for each stage:
`Confirm`, `Halt` (`advanceEpoch` and `stopStage`), `Reset`/`Revoke`
(`resetForProfile`), `Select` (`persist` and `bindProfile`), `Write`, `Secrets`,
`Reload`, `Start`, ...  A stage that awaits sets `op.at` to "wait" until the end
of what it awaits (`ProxyStops`, `ResetDone`, `Confirmed`, `PreflightEnds`, ...),
which may find that the token no longer holds.  What `assertToken` compares,
scopes, draft revisions and authentication generations, is kept as what becomes
of the comparison: `confirmed`, `draftOk`, `authOk`.  `Fails` is the `catch` of
`launch`, with `lockStorage` in it.  An aborted operation is replaced at once,
for it waits in a race against its abort signal; where it awaits something
outside that race (the key service, the rollback of the autostart setting) its
successor waits for it (`behind`, `LingeringEnds`).  An import, an export and a
change of keys that are in use open a native dialog for the file of the backup
(`Choose`, `Chosen`), which is awaited inside that race.

`login` is the login controller: `jar` is what its browser partition holds,
`unclean` is `needsPartitionReset`, `reset` the promise of the reset at work,
"stale" once its generation has passed, and `again` a revocation that joined it
and will begin anew.  `owner`, which decides whether an answer to a cookie query
counts, is kept as its effect: `Captured` and `CookieLost` are possible only
while it is current.  `ask` is `pendingStop`, `drain` the queued
`drainAuthentication`.

The proxy is taken as `ProxyLifecycle` shows it: `stop` closes the gate at once,
a cancelled start never opens it, a failed stop may keep the server.
`proxy.ignored` is only observed: a loss of the cookie was ignored, because the
portal had been shown to refuse the login before
(`electron/app-controller.js:965`).  It stops nothing, so `ServesOnlyIfWanted`
sets it apart: the proxy goes on with the cookie that has just been revoked and
removed.  Nothing in the repository promises otherwise.

Abstracted: which of several actions with the same stages it is; whether the
draft is dirty or clients are connected (a dialog may be shown or not); error
codes; the account used in a login window, which is the profile's own; what is
written within a profile.  A profile that was deleted may be created again, so
that the set of profiles does not change.

### CredentialStore (`electron/credential-store.js`)

`root`, `disk`, `stable` and `locked` are the variables of `RootStore`, of whose
document only the cookie and the account of the profile are kept;
`ephemeralCookie` and `cookieRevoked` are the fields of the store, which lives as
long as the process.  `SaveCookie`, `ClearCookie` and `SaveSso` are its
operations, each with the three outcomes of a commit: durable, failed with
nothing written, or uncertain, which locks the root.  `Start` may find a cookie
of an older version's settings (`takeMigratedCookie`), `Reload` keeps the store
and replaces the root, `Down` is an end, a crash or a power loss, and `Keyring`
the encryption of the operating system coming or going.  `dead` (revoked by this
process and not delivered again), `owed` (a revocation has not been committed)
and `reported` (what `saveCookie` said it saved) are only observed by the
properties.

Abstracted: limits of size and encodings; a sealed cookie is the cookie, which
can be read only while the keyring is there.

### RecoveryController (`electron/recovery-controller.js`, `electron/main.js`)

`context` is what the controller's `context` returns: scope, connection with its
cookie, and whether the user wants the proxy to run.  `app` is what the controller
and `main.js` ask of the application.  `s` has one field for each variable of the
two files that control depends on (`active`, `suspended`, `enabled`, `paused`,
`rearm`, `observed`, `blocked`, `inhibited`, `last`, `disposed`; `updating`,
`asleep`, `held`, `resume` of `main.js`), whether "checking" is shown, by a round
(`checking`) or by anything else (`others`), and `stale`: the superseded rounds that
still await an answer.  Because the functions of the controller call each other and
publish in between, and a publication comes back to the controller through
`main.js`, one stretch of JavaScript is computed by operators that take and return
the whole of `s`; `Cancelled`, `Begun`, `Automatic`, `Updated`, `Published`, ...
have the names of the functions.  The update that `queueRecoveryUpdate` appends as a
microtask runs before every other callback, hence `~s.updating` in the guards.

`Fire` is the timer, `Answer` an answer to a preflight request or a probe,
`Revoked` the probe that finds the cookie refused and lets the application
forget it at once, `StartAnswered` and `StartRuns` what becomes of a requested
start: it waits for the operation that is active, then it is refused, or it runs
and, like every start of the application, begins a new epoch and shows its own
"checking" (`StartChecks`), which it leaves behind if it is cancelled.  The other
callers are `Change`, `Report`, `UserStop`, `Hold`/`Release`/`CancelAgain` (key
changes and updates), `ShowOthers` and `TokenRefused` (the application, the health
probes and the validation of the token, which show states of their own),
`Sleep`/`Wake` and the controller's own methods.

Abstracted: delays, error codes, the notification that the portal is back; a
hint is the automatic call it makes; every reason for which a connection cannot
be used is `Unusable`; a new profile or cookie resets what is shown.

### SshAdmission, BridgeChannel (`electron/proxy-server.js`, `electron/exec-codec.js`)

`SshAdmission` has the connections that are tracked, with their time limit for
the handshake, the channels that are open on them and the bridges that have
begun: `socket`, `channel`, `bridge`, each with its own limit and each ending in
any order.  A bridge outlives its channel while it drains, and an SCP transfer
while it removes its files; `interrupted` are those that were told to stop.

`BridgeChannel` is one call of `_bridgeChannel`: the record `b` has its local
variables (queue, sizes and the end of the input on the way to the portal;
output, verdict and exit code on the way to the client; the state of the web
socket and the timers that are armed).  The functions of the closure call each
other, and a write to the channel may be accepted, full or refused at each call,
so every function is an operator that returns the *set* of states it may leave;
one action is one event of the channel, the socket or a timer.  Of the parser of
commands it keeps the phases.  A disconnect that cannot be sent arms the
send deadline again at each poll; it is the pings that end such a bridge.

Abstracted: bytes (a block or frame is a unit, and whether it is too much is
chosen), traffic, diagnostics, keys.

### ScpSession, ScpEndpoint (`electron/scp/*`)

`ScpSession` runs several sessions beside the temporary files they share
(`reserved` is `reservedBytes`, `stale` what a crash left to `scavenge`).  `pc`
is the await a session has reached; any step may fail, and `Close` (the client,
the proxy, the idle or the lifetime timer) may come at any of them, but does not
interrupt what is being published.  All ways end in the same unwinding:
`Released`, then the record that tells the client.  `ScpEndpoint` is what those
sessions read and write with: a reader that pulls from a stream in paused mode,
a writer that waits for a callback and for `drain`; `stream` is what node keeps
of the stream, in particular whether it owes a `readable` event.

Abstracted: names, globs, the text of records, sizes (each file has size one).

### FilePublication (`electron/file-transfer/orchestrator.js`)

One transfer, up or down: preflight, the copy (whole or in parts), comparison of the
source, reading back, the last look at the target, and the publication (a move, or a
replacement in place).  `source`, `copy`, `target` change under its hands (`world`);
every request may fail, be carried out without an answer (`Lost`), or spoil what it
is sent.  A download removes its private file in the end; the removal may fail,
which fails the transfer even if the target has been published (`Unlink`), and
leaves a copy of which a failed download does not tell.  `retained` and
`mayBeChanged` are the fields of the result.

### UpdateService, ShutdownCoordinator (`electron/update-service.js`, `shutdown-coordinator.js`, `main.js`)

`op` is the operation that `run` serialises, `intent` and `marker` the hand-over
and its announcement, `cache` the downloaded file, which anybody may change
(`Tamper`), `native` what the updater of the platform has yet to do.  The file is
hashed, on Windows its signature asked for, and handed over in three steps
(`VerifyAgain`, `SignatureInvalid`, `HandOff`), between which it may change:
`tampered`, observed by the property, says that it did.  The ways
out are `BeforeQuit`, `OrdinaryQuit`, `Fatal` and those of the coordinator,
whose state is `started`, `code`, `waiting`, `preparation`, `exited`; `left` is
how the program has ended.  The application controller is its slot (`job`) and
`prepareExit`.

### SessionHistory (`electron/session-history-store.js`)

Every operation of the store is synchronous, hence one action, with a set of
outcomes for its file operations (`Flush`, `Load`).  The file is absent, damaged,
a document, or unreadable for a time, in which case `cleared` remembers what
must not come back when it can be read.  `erased` and `confirmed` are observed
by the properties: what was to be cleared, and what was reported as cleared.  The
ids of records are distinct, so the filters of the code are `Without` their ids: the
others, numbered in their order (`Before`), as is what `_prune` lets give way.
The flush of a stop (`electron/main.js:590`) is the flush of the timer at another
time.

### PortalProbes (`electron/health-probe-service.js`, `token-validation-service.js`, `main.js`)

Both services with the state of the application they look at.  A publication
reaches the token service in the same stretch and the health service in a
microtask, which runs before every other callback (`s.queued`).  The fields of
`s` are the variables of the services (`round`, `timer`, `suspended`, `observed`,
...), of `main.js` (`queued`, `held`, `needsResume`, `asleep`), and what the
application shows: the status of the remote, with the service that has it say
"checking" (`owner`), and whether the error is REMOTE_READY_TIMEOUT (`notReady`).
`paused` says why: at a gate (an exclusive operation, a token that was refused)
or for an event (a remote that was not ready, a stop that was asked for, before it
is refused, put to the user or begun).  What the recovery may publish when it is
cancelled from outside is a set of outcomes (`Withdrawn`).

`ProbesKeepOn` has three exceptions because the code has them.  A stop that is
asked for and then refused or declined leaves the health service paused until
something it looks at changes (`electron/app-controller.js:918` comes before the
checks that follow).  So does a remote that was not ready: there the README of
the program wants no probe in the background, and the error that is shown makes the
service ineligible anyway; but the recovery shows the error only if it is not the
last thing it has shown, and the pause holds without it.  And a "checking" of a
round that is superseded by a change of its scope or configuration is left as it is
(`health-probe-service.js:62` compares the authority) until something else is
shown.

### RendererRuntime (`src/contexts/RuntimeContext.jsx`, `src/views/SettingsView.jsx`, `src/App.jsx`)

`doc` is the document in the window, `server` what the main process knows of
its draft and has published, `calls` the calls of the window on their way, `task`
the operation that may consume the draft.  Calls arrive in the order in which they
were made; answers and events arrive in any order, and a document may be
replaced at any time while operations of the old one go on.  `doc.view` numbers the
settings view on the screen: the user opens it (`Enter`) and leaves it (`Leave`,
with the question of `handleNavigate` if there are edits), another profile replaces
it (`Render`) and the setup of a new profile takes its place (`ProfilesLoaded`);
each time the view that goes tells that it has no edits (`Gone`).  A save is
`RunAction`, `SendSave`, `SaveSettings`, `Saved`: the report of the draft, the call,
the operation, and what the view tells afterwards.  `server.given` and
`server.settled` are observed by the property: the edits the user gave up in a
dialog of the program, and those that were saved or given up on leaving the view.

`EditsNeedConsent` says which edits are given up without having been asked about:
those of a profile that is no longer shown, and those in a settings view that is
replaced by the setup of a new profile, which `src/App.jsx:153` opens whatever is on
the screen.

Abstracted: the window does one thing at a time, an action or a save; each part of
a save (profile, program, password) is a save of its own, after which the draft may
be clean or not; a password for another account is an operation that asks.

### SshConfig (`electron/ssh-config-service.js`)

A configuration is absent, not acceptable (encoding, markers, links), or text
with lines before and after the block.  `shown` are the hashes of the last
preview, `job` the write under way: although the program does nothing else
during it, other programs, a crash or a power loss may come between the backup
and the replacement (`stable`, `kept`: what a power loss leaves).  The code
synchronises the directory except on Windows, where the model says nothing of a
power loss.

### Diagnostics (`electron/diagnostics-service.js`, `main.js`, `app-controller.js`)

`run` is `active`, `latest` the last published run, `record` and `valid` what
`main.js` keeps, `world` what a run belongs to: configuration, scope, cookie,
authentication and the proxy.  The ten checks are five, with the dependencies
of the ten (`Needs`; where a check needs only a part of another one, both outcomes
are there); what a check does is its answer.  Whatever follows an
answer without waiting runs before anything else happens (`Waiting`).
`SaveOnboarding` is `assertProof` in its second call, after its await.
`run.current`, observed by the property, is lost when anything the run belongs
to changes, even if it changes back.

## 3. Runs

| Run | Instance | Shows |
|---|---|---|
| `keys` | two identities (symmetric), the host key possibly missing at the start, no double fault | `JournalRecoverable`, `IdentityIsDurable` (the type invariant, a record that matches the files, a durable identity whenever a client is admitted), `ForeignBytesKept`, `KeepsPromises` (implements `KeyIdentity`, uses the store as `RootStore`) |
| `keys_doublefault` | two identities, nothing missing, with `DoubleFault` | `SecondCrashKeepsRollback` is violated (finding 1) |
| `settings_missing` | the settings store with three valid documents, two corrupt contents, every kind of intruder | `MissingIsFreshOnlyAtStart` is violated (finding 2) |
| `proxy` | four calls, hence up to four instances, two sessions | `PortIsOwned` (one owner, the gate's discipline, a truthful status), `HistoryFollowsSessions`, `ImplementsProxyGate`, `OperationsEnd` |
| `recovery` | one connection that can be used, two attempts, one change of scope, one superseded round | `RoundsAreAllowed` (a round is of the present, and against no verdict), `StartWanted` |
| `recovery_end` | as `recovery`, in one scope | `RoundsEnd` |
| `app` | two profiles | `ServesOnlyIfWanted`, `LoginNotForgotten`, `ProfilesStayApart` (identities, and a clean partition after a switch), `SlotFreed` |
| `credentials_saved` | two cookies, one account | `SavedCookieSurvives` is violated (finding 3) |
| `files` | `MCFiles`: two contexts, limits 2 (at work), 2 (queued), 1 (settled), four transfers; two contents, two chunks; three platforms, two versions | `PlacesUsed`, `OwnContextOnly`; `PublishedIsVerified`, `NothingClobbered`, `LeftoversTold`; `ExitsAreClean`; `NothingHangs` |
| `sessions` | `MCSessions`: the bounds below | `ExitIsTold`, `WorkIsPolled`, `BridgeEnds`; `PlacesAccounted`; `QuotaExact`, `CompletionIsTrue`, `SessionEnds`; `ReaderWakes` |
| `services` | `MCServices`: the bounds below | `RevokedForGood`; `DocumentIsSafe`, `ImplementsRootStore`; `HistoryHolds`; `ProbesKeepOn`; `ConfigReplacedAsShown`; `DiagnosisHolds` |
| `window` | `RendererRuntime`: the bounds below | `ViewIsCurrent`, `EditsNeedConsent` |

Where a property is a conjunction, its conjuncts are definitions of their own,
each stated in its module; the runs check all of them.

Bounds, and why they are enough.

- *Identities*.  A transaction relates an old and a new identity; a second
  transaction may go back to the first.  Two values for each of the two keys
  tell all of that apart, and the number of transactions, crashes, edits,
  aborts and commits is unbounded.  A file may also be `Absent` or hold
  `Foreign` bytes.  With `Missing` the installation at the start may lack the
  host key, which is what a rebuild is for.
- *Documents*.  A save relates the old content, the candidate and a third one
  that another program wrote; two corrupt contents are needed to tell the
  reported one from one that took its place.
- *MaxCalls* bounds the calls to the controller (the only counter in the
  model).  Four calls allow a start, its replacement or candidate, an
  activation (not counted: it is bounded by the candidates), and a stop or a
  cancellation followed by another start or the shutdown.  Two sessions allow
  one to end by itself while the other is ended by a stop.  `proxy` does not
  check deadlock because the program really stops when all calls have been
  made and answered and no client acts.
- *Cookies*.  Two tell an old login from a new one, which is all that the store
  compares; the number of logins, revocations, restarts and failures is
  unbounded.  One account is there or not.
- *MaxJobs* bounds the transfers that are ever made.  Four fill the places and
  the queue together, or one place, the queue and the settled transfers, so that
  each of the three limits is reached and exceeded by one, and transfers of
  different ages and contexts are there at once.  Two contexts let the context
  change there and back while a dialog is open.
- *Publication and update*.  Two contents tell the source from what it was;
  two chunks are the fewest that can be of different contents.  Two versions let
  a newer candidate follow one that is downloaded.
- *Sessions of SSH and SCP*.  `BridgeChannel` takes one frame beyond the setup and
  two blocks of output, where pausing and draining begin at one (`Room`,
  `MaxOutput`, `MaxPending`); two sizes, the current and the latest.  Two sockets
  and two channels meet limits of one.  Two SCP sessions meet a quota of one file;
  each transfers a file in at most one directory; one crash.  The endpoint has
  operations of at most two chunks on a buffer of two.
- *Window*.  Two profiles, two revisions, two documents, one edit, one settings
  view that the user opens in a document (those that replace it when the profile
  changes are not counted), and one call on its way when the user does something:
  the hazards are of one thing overtaking another, and a revision, a document, a view
  and a call can each be overtaken once.  `MaxEdits` counts the edits of all
  documents, so an edit is made in the first or in the second.
- *Services*.  Two profiles and two records (four ids) for the history; one change
  of epoch and two cookies for the probes.  Two aliases for the SSH configuration.
  Two configurations, cookies and runs, two changes of scope and one of the login
  for the diagnosis: there and back again while a run goes on. `files`, `sessions`,
  `services` and `window` do not check deadlock: their components wait for good when
  their bounded inputs are used up, the program has ended, or every session is over.
- *MaxAttempts* is a constant of the code (eight delays); two tell the last
  attempt from the others.  *MaxEpoch* bounds the changes of scope: one makes a
  context and its successor, and connection and intent change without bound.
  *MaxStale* bounds the superseded rounds that still await something.  They do
  not know of each other, so one, which may belong to the current context
  again, is enough; those of a scope that is gone are forgotten, for a scope
  never comes back.  `recovery` does not check deadlock: a disposed controller
  waits for good.  `RoundsEnd` lets rounds be superseded for ever, if the
  context changes for ever, and a requested start wait for ever behind an
  operation that does not end, as one that shows a native dialog; a new scope
  would only be one more way to supersede, hence none in `recovery_end`.
- *Profiles*.  Two: the one that is shown and the one it is switched to, there
  and back without bound.  `AppController` has no counter: what its tokens
  compare is kept as the outcome of the comparison.  `app` does not check
  deadlock: after the exit the program waits for good.

  The runs of the other modules check deadlock.

Fairness.  Crashes, cancellations, callers and dialogs have none.
`ProxyLifecycle` assumes weak fairness of the queue's continuations, of the
answer to an activation and of the servers' events and time-outs
(`_closeTcpServer` has a timer; the SCP tasks that `_doStop` waits for end
because their sessions have been closed).  Callers, clients and runtime errors
have none.  `FileTransferQueue` assumes that each transfer at work ends: its
requests have time-outs and an aborted one is given up.  Nobody is assumed to
answer a dialog, and `QueueMoves` does not need it.  `BridgeChannel` assumes
that an armed timer fires unless it is cancelled, except those that events arm
anew (the quiet of the output, the send deadline), and that a socket that is
connecting or closing ends in an event, for which it has timers of its own;
neither the client nor the portal has to act.  `ScpSession` assumes its lifetime
timer, that a session which was told to stop fails at its next check, and that
the unwinding and the last message end, which are bounded; `ScpEndpoint` only
that node delivers a readable event and continues what runs, not its own
time-outs, so that no wake-up may be lost.  `UpdateService` assumes the timer
that forces the exit and the one of the hand-over, not the native updater.
`RecoveryController`
assumes weak fairness of the microtask and strong fairness of the timer of the
round at work and of what it awaits (`Proceeds`): timers fire and requests have
time-outs, however often the application reports something in between (a report
puts the microtask before them, so that they are not enabled all the time).  A
requested start is answered only while no operation is active: the code awaits
the one that is active without a limit, and nobody is assumed to end it.
`AppController` assumes weak fairness of the stages (microtasks) and strong
fairness of the end of what is awaited, which an edit or an answer of the portal
may precede each time.  Nobody is assumed to answer a dialog, neither a
confirmation nor the choice of the file of a backup: `SlotFreed` says that the
slot is free, or such a dialog open, again and again, unless the portal refuses
one login after another for ever, each of which takes the slot anew.

Between them the passing runs take every action of every next-state relation,
and each property is shown to depend on the code it speaks of by a mutant of
that code (`"mutants"` in `PROJECT.json`): the plausible error is an operator
next to the definition it would replace, marked "A plausible error".

## 4. Proofs

Every safety property and refinement of the runs is proved for all values of the
constants; liveness is not (end of this section).  The invariants and action
properties are mostly not inductive; what follows says for each module what had to
be added and why.  Each strengthened invariant was checked by TLC on the instance
of its run before it was proved.

The three modules that compose components prove first that a behaviour of the
composition is one of each component: a step of another part leaves its variables
alone.  The theorems are then about the composition (`FilesSpec`,
`SessionsSpec`, `ServicesSpec`), the proofs about the component.

**`KeyTransaction_proofs`** proves, for every set of identities and every set of
files that may be missing, `TypeCorrect` and, assuming `~DoubleFault`, without
which they are false (finding 1):

- `JournalAlwaysRecoverable`: `[]JournalRecoverable`;
- `IdentityAlwaysDurable`: `[]IdentityIsDurable`;
- `ForeignAlwaysKept`: `ForeignBytesKept`;
- `PromisesKept`: `KeepsPromises`, both refinements: the steps map to steps of
  `KeyIdentity`, and to steps of `RootStore`, or to stutters.

`JournalRecoverable` says that whichever root is on the disk, seen or durable,
the files and rollback files hold what recovery from it needs.  It is not
inductive: that `Unlink` may delete rollback files depends on which journal the
root holds at that point, and that depends on the agreement of the three views
of the root.  The inductive invariant `IInv` adds

- `UncertainLocked`: the error in hand is an uncertain commit only while the
  store is locked and the catch block has not reloaded;
- `RootsAgree`: memory, disk and durable root differ only while the program is
  down, idle and locked, or has an uncertain commit in hand;
- `JournalAt`: which journal the root holds at which `pc`;
- `FilesAt`: which bytes are where at the points the root does not determine.

There is one lemma per group of actions (`ExecuteInv`, `CatchInv`,
`RecoverInv`, `ApplicationInv`, `FaultInv`), each with one step per action;
`PendingRecoverable` says that the root any commit is about to write is one
recovery could finish from.

That the files match a record without a journal is not inductive either: it is
restored when a journal is dropped, so it depends on what the journal's plan says
of the files.  `RecordInv` adds to `IInv`

- `RootsSound`: every view of the root either records what the files hold, or
  has a journal whose plan is sound (`PlanSound`: it installs identities, records
  what it installs and was made when the files held the recorded keys) and the
  files outside the plan are those it found;
- `PointsSound`: what the locals and the files are at the points that the roots
  do not tell, among them that a `catch` that finds no journal finds the original
  keys, and that whoever was serving had its keys recorded;
- `ServedSound`: where the gate may be open, and that the keys behind it are
  those of the durable root and of the files.

`FileChange` and `RootChange` list the few ways in which the steps change a file
or a root, so that the preservation of `RootsSound` needs no step per action.
`ForeignBytesKept` then follows for each kind of `FileChange`.  In `KeyIdentity`
every step with an open gate afterwards is `Admit`, because `IdentityFixed` says
that the recorded keys do not change while somebody is admitted.

**`ProxyLifecycle_proofs`** proves, for every number of calls and every set of
sessions, `PortHasOneOwner` (`PortIsOwned`), `HistoryIsTrue`
(`HistoryFollowsSessions`) and `GateKeepsPromise`, the refinement of `ProxyGate`.
That an instance which is not current holds no port depends on the one operation
at work and on the instances it may still create, so `Inv` says

- `Counted` and `Creation`: every instance comes of a call, and every operation
  that may still create one is a call of its own, so the next instance is fresh;
- `Consistent`, `Recorded`: what the listener, start, stop and sessions of a server
  say of each other, and what the controller's record says of its server;
- `OneOwner`, `GateDiscipline`: only the current instance binds, and when its gate
  may be open;
- `JobKnows`, `Activating`, `ShownKnows`: what the operation at work, an
  activation under way and the state shown may rely on.

For the refinement each step is classified by the change of the gate (`Phase`):
`Onward` lists the changes there are, and each is a step of `ProxyGate`.  The
assumption is that `MaxCalls` is a natural number.

**`AppController_proofs`** proves `ServingIsWanted` (`ServesOnlyIfWanted`),
`LoginsAreKept` (`LoginNotForgotten`) and `ProfilesAreApart`
(`ProfilesStayApart`), for every set of profiles and every bound.  An operation
is a plan, a sequence of stages with awaits between them, whose later stages rely
on what the earlier ones did and on nothing having changed meanwhile.  `Inv` says
of the application, login, proxy, operation and dialog together (`Together`) that

- the plan at work is a suffix of one of the orders in which the code does things
  (`Ordered`, with `ContinuesLemma` for the next stage and `PlanLemma` for a new
  plan), and the operation holds what its stage relies on (`OpSound`);
- nothing of the old profile is at work from the stop to the restart of a
  `launch` or a switch (`Placed`, `Halted`, `Clean`);
- the proxy serves only for a login that holds, or an operation is about to stop
  it or to decide (`Wanted`, `OpWanted`, `Stopping`), also in the `catch` of a
  failed launch (`Failing`).

`ProfilesStayApart` is about steps: `SwitchIsClean` shows that whatever changes
the profile does so from a clean state.  The assumption (`NoneAssumption`) is
that `None` is no profile, no operation and no state of a dialog.

**`RecoveryController_proofs`** proves `RoundsStayAllowed` (`RoundsAreAllowed`) and
`StartsAreWanted` (`StartWanted`), for any number of requests and timers. The
controller's handlers are compositions of functions on one state, so there is a
lemma per function instead of one per action: it keeps `Good` and is `Quiet`, that
is brings no start that was not there; only `Reachable`, the answer of the portal,
asks for one.  `Good` is `Proper` (a superseded round awaits something, and updates
are queued only while they may run), `Restful` (a round is of the observed context,
and there is none while paused, suspended or disposed), `Shown` (a round's
"checking" is shown only if it was published last, so what is published next
replaces it), `Checks` (it belongs to a round that checks) and `Verdict` (no
automatic round for what an earlier verdict inhibits or blocks).  `Followed` adds
that the observed context is the current one unless an update is queued, which makes
the late answer of a superseded round harmless.  The assumption (`NoneAssumption`)
is that `None` is no context, transport or round.

**`MCFiles_proofs`** proves of the queue of transfers, for every set of contexts,
every limit and every number of transfers, `TransfersTyped`, `InflightBounded`,
`PlacesAlwaysUsed` (`PlacesUsed`) and `TransfersOwnContext` (`OwnContextOnly`).
The heart is counting: the transfers that `pump` starts are an initial segment of
the queue.  Those before its greatest member `m` number fewer than the free
places, so with `m` itself they fit (`PumpedFits`); if some transfer stays, those
before the least such number at least the free places, and all of them started
(`PumpedFills`).  `Least` and `Greatest` provide the two, from the
well-foundedness of strict inclusion on finite sets.  The inductive invariant
adds `Waiting`: a transfer in the queue is not at work (else starting it would
take no place), only created transfers are at work or listed (else a new one
could meet itself), and the list is empty after the shutdown (else a transfer
could wait there for good, beside idle places).

Of a publication it proves, for any contents and any number of parts,
`PublicationVerified`, `PublicationClobbersNothing` and
`PublicationTellsLeftovers`, from `OnItsWay` (an upload and a download go through
their own steps, with the first hash in hand), `Verified` (at every step from
which something can be published the copy is what was read back) and `Leftovers`
(before the negotiation there is nothing to tell, after it everything is told);
assumed is that a content is none of the marks for a missing, spoilt or foreign
file or a directory (`ContentsAreFiles`).  Of updates and the end of the program
it proves `UpdatesExitClean` (`ExitsAreClean`), for any number of versions:
`UpdatesInv` says that what was verified is the candidate unless others have
changed it since, that an installation begins only while none was handed over, that
whatever runs natively or has its marker written was handed over, that a program
that waits for a restart neither checks nor downloads, that quitting is allowed
only in a shutdown that was prepared or has failed for good, and that the exit
code is 1 exactly if it has.

**`MCSessions_proofs`** proves `PlacesAreAccounted`, for any number of
connections and sessions and any limits, `QuotaIsExact` and `CompletionIsTold`
(`CompletionIsTrue`), for any number of SCP sessions and any quota, and of the
bridges `BridgeTellsExit` (`ExitIsTold`) and `BridgePollsWork` (`WorkIsPolled`),
for any sizes of the terminal and any room in the queues.  The quota is a sum over
sessions of which each is at another await, so the invariant says of every session
by itself (`Sound`) where it holds quota and has a file (`Consistent`) and what it
may still tell its client (`Truthful`), and of all together that `reserved` counts
the holders; a step changes one session, hence the count by at most one
(`PutLemma`, `AllocateLemma`, `UnwindLemma`).  The admission invariant counts
connections and channels by the sets that are really there.  `BridgeInv` says
what a bridge that was closed or has finished may have told client and history
(`BridgeTold`), how a size, an end of the input and the first data came to be
(`Traced`), and that whatever can be sent has its poll (`Polled`); there is a lemma
for each function of the bridge.  Assumed are
only that connections, channels and sessions are finitely many, that limits are
natural numbers and that a terminal has a size.

**`MCServices_proofs`** proves, for every set of cookies, accounts, documents and
contents and any number of scopes and logins,

- `RevokedStaysDead` (`RevokedForGood`): what the process would use depends on
  what the document holds, so `CredentialInv` adds that without the mark of a
  revocation no revoked cookie is anywhere, in memory, in the root, on the disk or
  in what a power loss leaves (`NothingDeadInUse`).  It holds because only a
  durable commit, which replaces them all, removes the mark; `CandidateLemma`
  says what such a commit writes;
- `DocumentStaysSafe` (`DocumentIsSafe`) and `DocumentsImplementRootStore`, the
  refinement of `RootStore`.  `DocumentInv` says that between the steps of a save
  the file holds what it held or the candidate, that a store at work is not
  locked, that a migration replaces the schema 1 document by its migration, a
  recovery the corrupt bytes that were reported, and a save an accepted document
  unless somebody wrote the file meanwhile (`SaveInProgress`), and what an
  unlocked store believes its file to hold (`KnownIsRoot`).  For the refinement a
  migration or a recovery is one commit at its end, hence `SaveAllowed` asks of
  every end of a save which step of `RootStore` it is, by its caller, and
  `LoadAllowed` the same of every outcome of a load.  `DocumentAssumption` says
  that the default and the migrated document are documents, that the other kinds
  of content are told apart, and that others write nothing outside them.  With
  `PromisesKept` this closes the chain for all instances: what the key service
  assumes of the root document is what the store delivers;
- `ProbesAlwaysKeepOn` (`ProbesKeepOn`).  That a probe is armed depends on every
  change being told in the end: `Good` says that what is not told at once is told
  after the exclusive operation or the sleep (`Told`), that a service that was told
  has seen the context there is (`Seen`), that a pause at a gate which nothing else
  will end is for a refusal that is still shown (`Paused`), that a timer or a round
  is of the context last seen, one to probe, and of a service that is not paused
  (`Timed`), and that a "checking" of the health service belongs to the round of the
  current authority (`Owned`), which is what lets a superseded round take it back.
  What a cancelled recovery may show keeps `Good`, because a change of what the
  services look at is told or queued (`Silent`).  As in the recovery controller
  there is a lemma for each function on the state (`CancelFacts`, `UpdateFacts`,
  `TokenUpdateFacts`, `PublishFacts`), and the actions follow from them;
- `ConfigIsReplacedAsShown` (`ConfigReplacedAsShown`).  `ConfigInv` says that a
  write under way is of what was shown, that the file still holds it unless
  another program wrote it meanwhile, and that a write which has passed the
  backup has a durable one (`Confirmed`).  `ContentFacts` says of the algorithm
  what a write leaves for any text: the other lines in their order, no conflict,
  and a file that `inspect` accepts;
- `HistoryAlwaysHolds` (`HistoryHolds`), for every limit that is a natural number
  (`HistoryAssumption`) and any number of sessions.  Which records give way
  depends on their order, what must not be lost on the set of them: `PlacesNumbered`
  counts the places of a sequence, `WithoutFacts` and `PrunedFacts` say what is left
  when records are taken out or pruned, how many, and that open ones stay.
  `HistoryInv` says that memory holds no more than the limit, open exactly what is
  registered and nothing erased, and that a record in memory and in the file is of
  one profile (`Consistent`); that what could not be read or copied is remembered as
  a failure, so that no clearing is confirmed meanwhile (`Recorded`); and that while
  a file is unread nothing of it is in memory and what was erased of it is what the
  cleared profiles own (`Unread`): that is what lets a later load leave out just
  the erased records, although it only knows profiles;
- `DiagnosisAlwaysHolds` (`DiagnosisHolds`).  That a configuration may change and
  change back makes the comparison of identities too weak by itself:
  `DiagnosisInv` says that a run which has seen a change is of an earlier login,
  or was aborted and is not heard again (`Outrun`), that what it published is not
  valid then (`Published`), and that while the scope of a run lasts the proxy is
  its own or has failed (`Belongs`).

**`RendererRuntime_proofs`** proves `ViewStaysCurrent` (`ViewIsCurrent`) and
`EditsNeedTheirConsent` (`EditsNeedConsent`), for any set of profiles and any number
of scopes, documents, views, edits and calls under way.  The inductive invariant
`IInv` is `WindowInv` and `Kept`.  `WindowInv` says of the view that scopes only go
forward (`Onward`) and that statistics, and the question for them that counts, are
of the scope of the latest snapshot (`Viewed`): a late answer is dropped by
comparing scopes, which is enough only because a scope that was left does not come
back.  Of the draft it says that reports under way are in the order of the drafts
they tell (`Queued`), that what the program knows comes before all of them
(`Covers`) and all of them before the draft of the document (`Drafted`), and that of
one revision there is one draft, which only loses its edits (`Follows`,
`Precedes`); that a document which is not ready has one call under way, so that an
answer is of its own start (`Booted`); and that an operation is about a draft which
the program knew and, while that revision lasts, still is that draft (`Confirmed`).
Hence edits given up for an operation are those the user was asked about, or there
are none.  `Kept` says of saves that one is on its way at a time and that what it
saves is the draft of the view that sent it, as long as that view is on the screen:
the view is busy, so it is neither edited nor left, and a view that was replaced
does not tell the end of its save.  Hence edits that a view no longer has after a
save were saved.

The assumptions on constants are named in the modules that declare them and
evaluated by TLC on every run, except where a theorem states its own (`ASSUME
FiniteSessions PROVE ...`); none excludes a value that the code can have.

Only model-checked: liveness (`OperationsEnd`, `NothingHangs`,
`RoundsEnd`, `SlotFreed`, `BridgeEnds`, `SessionEnds`, `ReaderWakes`), which is
out of the prover's reach under fairness, as is `ENABLED`.  The properties
are about the model's steps, not about what the functions of the code compute on
data that the model abstracts.

## 5. Findings

1. `keys_doublefault`: the first load after a restart reads the root without
   synchronising its directory (`electron/settings-store.js:303` does so only
   for a locked store).  If a crash came between the rename and the
   synchronisation of the committed root, the restarted `recover` takes it for
   committed and removes the rollback files (`electron/ssh-key-service.js:457`);
   a power loss that undoes the rename leaves an "installed" journal with
   nothing to roll back from, although the code copies through the stage "so a
   second crash never consumes the only rollback material".
2. `settings_missing`: `retryLoad` of a store that is not locked takes a
   missing file for a new installation, where the comment at
   `electron/settings-store.js:261` says that it is one only on the initial
   load.
3. `credentials_saved`: every login revokes the old cookie first
   (`electron/app-controller.js:719`), and `clearCookie` leaves a mark that
   `saveCookie` takes away only after its commit.  So `_commit`
   (`electron/credential-store.js:106`) writes an empty cookie in place of the
   new one, `saveCookie` reports it as saved, and a restart has no login, where
   `README.md` says that the cookie is kept by the encryption of the system and
   names its absence as the only exception.

## 6. Not modelled, and the plan

Not modelled, and why:

- `electron/autostart-service.js`: like `SshConfig` a file shared with other
  programs, but every operation reads it again at once before it replaces it,
  and nothing of it is remembered; next in line.
- `electron/exec-codec.js` beyond its phases: a decoder of frames cut at any
  byte.  That it decodes every cut alike is an induction over data.
- `electron/remote-session/*`, `electron/portal-api/*`, `electron/wss-connection.js`:
  requests to a remote service and the validation of its answers, without state
  between them.
- the start of an SCP session from a command (`electron/scp/command-parser.js`,
  `glob.js`), the statistics of the proxy, the export of diagnoses, the contexts
  for profiles and updates in the renderer: pure, or the pattern of a part that
  is modelled.
- `cli/*`: the same services in a fixed order.
- schemas, redaction, IPC registration, tray, encodings of keys and backups,
  user-interface components, logging and packaging: pure functions or
  presentation.

Every safety property and refinement of the runs has its theorem; what is left to
the runs is liveness.
