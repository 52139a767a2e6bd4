# OctoDeck in TLA+

OctoDeck is a self-hosted server through which people talk to AI agents, from a
web page or from chat services (Feishu, Telegram, QQ and others, "IM" below).
Agents run in containers, as processes of the server, or on other machines
through a Go daemon. This directory models the server's core: how a message
reaches an agent, which runs may be in progress at one time, how scheduled
tasks are claimed and run, what becomes of a run on another machine, which model
provider a run gets and which session it resumes, and how users, agents and
background loops share the runs of an issue. TLC checks the models on small
instances; TLAPS proves their main safety properties for every value of the
constants.

Paths are relative to `src/`, so the server's code is under `src/src/`.

## 1. The system

### Components

| Component | State | Operations | What makes it hard |
|---|---|---|---|
| `GroupQueue` (`src/group-queue.ts`) | per group: what runs, pending messages and tasks, retry timer; waiting groups; slot counters; shutdown flag | enqueue messages or a task, pipe into a live runner, stop, restart, interrupt, drain, retry, shut down | six paths start runs; a group's state is shared by successive runs; siblings share a folder |
| Message delivery (`src/index.ts`, `src/web.ts`, `src/message-notifier.ts`, the IPC input of `container/agent-runner`) | stored messages, three cursors, the loop's batch, IPC files, what a runner has read | receive, poll, expand a slash command, pipe, pull, reply, commit, fail, recover | handlers await plugin expansions and replies while others move the same cursors; restarts |
| Task scheduler (`src/task-scheduler.ts`, statements of `src/db.ts`, `src/routes/tasks.ts`) | the task's row with its schedule and claim; running ids; log rows; queued and active runs | poll due tasks, skip, claim, queue, run, finish, trigger by hand, pause, resume, reschedule, delete | runs outlive leases and restarts, wait in the queue unseen, finish after an edit |
| Agent link, server side (`src/agent-link`, `src/backends/agent-link-driver.ts`) | sessions of connections, the registered one; controllers, timers and promises of runs | accept, replace, close; dispatch a run; result, timeout, grace, failed send | four sides end a run, each awaits the delivery of its outcome |
| Daemon (`client/octodeck-daemon/internal`) | connection, pool of runs, supervisor and child process, crash count, update | dial, run, cancel, restart the child, report, drain, update | goroutines, a child process and a network that fail in any order |
| Provider pool (`src/provider-pool.ts`, `src/container-runner.ts`) | health, errors and session counts of providers; sessions of conversations and their provider | predict, select, acquire, report, release, refresh, reset, switch | health outlives members; copies of a session outlive its row |
| Issues (`src/issue-*.ts`, `src/routes/issues.ts`) with orchestration's verdict | status of the issue, of its runs and of the agent's requests; queued tasks; copies of the issue | start, drive, hold, ask, decide, reply, cancel, reap, end | four writers of one status, rows that outlive processes |
| Agent teams (`src/agent-team-*.ts`) | a run's tasks with dependencies, cancellations | start, finish, cancel, time out | cancellation while tasks start and end |
| Billing (`src/billing.ts`) | quotas, balances, subscriptions | check, charge, redeem | the verdict is stale when used |

Streaming cards, IM clients, terminals, plugins, memory and knowledge, routes,
configuration, the web client and the adapters of agent processes are listed in
`PROJECT.json` with the reason why they are left out: they are I/O, text or files,
or third-party code.

### How they interact

The server is one JavaScript thread. A request handler, a timer or the
continuation of an `await` runs without interruption to its next `await`; that
stretch is a step in every model here. What crosses an `await`, a process or a
restart is where things can go wrong:

* IM handlers store a message and call `notifyNewImMessage()`; the message loop
  polls the database, and either writes the message into the IPC directory of
  the chat's live runner (`GroupQueue.sendMessage`) or asks the queue for a run
  (`enqueueMessageCheck`). The web handler does the same for its message without
  the loop.
* The queue calls `processGroupMessages` for messages and a closure for tasks; their
  outcome, and the unread files they leave, decide about retries and further runs.
* The scheduler claims a due task in its row and puts its run into the queue under
  a jid of its own (`...#task:<id>`), without a limit on how long it waits there.
* The server sends a run to a daemon as one frame of a WebSocket connection; its result comes
  back as another. When the connection is lost, the server fails its runs and the daemon kills its
  child process; the next connection begins with nothing.
* A runner is given a provider when it starts; the sessions of its conversation, in a table, in
  a map and in the running process, belong to the provider that made them.
* Issues are driven by a loop that reads their status and that of their runs, and puts runs
  into the queue. The agent's tools, the user's answers, the end of the run, its cancellation and
  the reconciler write the same rows.
* A restart loses everything in memory: runs, queue, timers, waiting handlers. The
  database (messages, cursors, task rows) and the IPC files survive.

## 2. The modules

| Module | Role |
|---|---|
| `RunSlots` | what the queue promises: runs start and end within limits |
| `GroupQueue` | the queue as it is written |
| `GroupQueueProofs` | its invariants, that it implements `RunSlots`, and when it leaves no slot idle |
| `MCGroupQueue` | four chats of two owners, with limits, for TLC |
| `MessageDelivery` | messages, cursors, the loop, the web handler, runs and the runner |
| `MessageDeliveryProofs` | types, and that the committed cursor stays behind the next-pull cursor |
| `DeliveryOrderProofs` | that cursors never move back, nothing is skipped, nothing forgotten |
| `MCMessageDelivery` | which chat a message belongs to, for TLC |
| `TaskClaims` | scheduled tasks, their claims, leases and runs |
| `TaskClaimsProofs` | types, one run of a task, acceptance once, and what keeps them |
| `MCTaskClaims` | one task, for TLC |
| `RunOutcomes` | what a run on a device promises: asked once, one outcome, success only for work done |
| `LinkWire` | the connections between server and daemon and their frames |
| `AgentLink` | the server's end: sessions, controllers, drivers of runs |
| `AgentRuntime` | the daemon's end: connection, pool, supervisor, child, update |
| `RemoteRuns` | the two ends composed; properties and the refinement of `RunOutcomes` |
| `RemoteRunsProofs` | their safety, and that they implement `RunOutcomes` |
| `MCRemoteRuns` | one run, for TLC |
| `ProviderPool` | providers, their health, the choice of one, sessions and overrides |
| `ProviderPoolProofs` | its safety |
| `ProviderTurnsProofs` | that a cycle of turns is fair |
| `MCProviderPool` | a chat and an agent, two providers of weights 1 and 2, for TLC |
| `IssueRuns` | runs of agents on one issue |
| `IssueRunsProofs` | its safety |
| `MCIssueRuns` | small instances, for TLC |

Each definition that stands for code names its lines in `PROJECT.json`, "map".
Operators whose comment begins with "Mutant:" are not part of the models: each is
a plausible defect that makes one property fail.

### GroupQueue

`running`, `pendingMsgs`, `pendingTasks`, `retryCount`, `retryTimer` and the
other per-group variables are the fields of `GroupState`; `waiting`, the two counters
and `shuttingDown` those of the class. `frames` are the calls of `runForGroup` and
`runTask` that have not returned: the code has no such list, and the properties
compare the flags and counters with it. `drainGroup` and the loop of `drainWaiting`
are steps of their own, and while one is due (`pc`) nothing else is enabled, so that
they stay part of the stretch that called them.

Abstracted: the waiting set is visited in any order, where the code has insertion
order. The kill and the timeouts of `stopGroup` are `RunEnd`, which may happen at any
time. Serialization keys are constants. Not modelled: `markContextOverflow` (it has no
caller), `queryInFlight`, activity times and display names, failed writes of sentinel
files, and which file a sentinel is.

### MessageDelivery

A message is its place in the (timestamp, id) order, and a cursor is a place too.
`loop` holds what the loop keeps across its one `await`; `run[c]` is the call of
`processGroupMessages` of a chat; `ipc` the files written for its runner, `inRunner`
what the runner has read and not answered. `fate` is a history variable. The loop's
synchronous stretch, and the wake-up that follows a notification, are `Urgent`: no
other step comes between.

Abstracted: the queue is the set `due` of chats with a run due, and every chat has a
workspace of its own; retries are not counted (`MAX_RETRIES` is in `GroupQueue`). A
turn of the agent answers everything the runner has read. Partial text and errors that
are not retried are `RunGivesUp`. Not modelled: interrupts by the user, switching a
chat's agent, reply routes and streaming cards, clearing of sessions, the counter of
out-of-memory exits, `recoverStuckPendingGroups`.

### TaskClaims

An occurrence of a task is a value of `next_run`, here a number, and the clock is
how it compares with the occurrence: in the future, due, or older than the backfill
grace. A run has the token it was claimed with, the occurrence it was claimed
for and the `next_run` it read when it began. `claim` and `lapsed` are the columns
`claim_token` and `lease_expires_at`; `openLogs` the rows of `task_run_logs` that say
"running". `target` is the jid that `resolveTargetGroupJid` gives for the task now, a run's
field `queue` the one that it was queued under: `enqueueTask` looks for a queued run of the task
under the first only. `MoveTask` changes it. `moved` is a history variable, the tasks that were moved
while a run of theirs was queued, until they have no run.

Abstracted: the policy that may hold a task is a choice, as are the owner's account
and the end of a run. A script whose owner is denied begins and finishes in one step in
the code, in two steps here. Tokens are reused once nothing holds them, where the code
makes a fresh UUID. Moving a task is one action, whether `chat_jid` is edited or the registered groups
change. Not modelled: the capacity for scripts, tasks whose workspace is not
registered, mirror rows of `agent_tasks`, autopilots, clean-up of the workspaces of once
tasks, creation of tasks, a change of a task's schedule type or kind.

### LinkWire, AgentLink, AgentRuntime, RemoteRuns

A link is one device; connection *c* is the *c*-th that its daemon dials, and each
direction of it is a queue of frames. On the server, `sess` is the state of a connection's session
and `registered` the entry of the map `sessions`; `controllers` are the runs in
`agentControllers`; `timer` is a run's timer, first for `timeoutMs`, then for the grace of five
seconds after it sent a cancellation. Results, the end of a session, a failed send and the timer each
call `finalize()`: `answers` records the outcomes it was called with, `emitting` those whose delivery
it awaits, `outcome` what the promise resolved to. On the daemon, `pool` holds the
reservations of `state.RunPool`, `stage` tells how far the goroutine of `Handle` is with a run,
`job` what the child process makes of it, `child` whether a supervisor has a process. An update that the
server asks for waits in `updates` for the mutex of updates, then holds it while its pool is
`draining`. `conn`, shared with the wire, is the daemon's side of a connection: what is sent over one that
is gone is lost. `ChildExits`, `DaemonCrashes` and `LoopExit` may happen at any time.

The composition interleaves steps of the two ends; only frames connect them. The
abstract run of `RunOutcomes` is asked for when its request was sent and worked on when the child
has succeeded.

Abstracted: the supervisor's health checks and timeouts of the child are exits of it; what an
adapter does is a choice of the run's end; the time of a back-off is a step. Not modelled: events and
streaming output of runs, tools, models and skills RPCs, the legacy request path, heartbeats and
their timeouts beyond the loss of a connection they lead to, the abort signal of a run, the
automatic check for updates (its graceful update is), a stop of the server.

### ProviderPool

`configured`, `enabled` and `strategy` are the configuration; `unhealthy`, `errors` and
`activeSessions` the entries of `healthMap`; `turn` is `roundRobinIndex`. A conversation is a chat or an
agent of a chat's folder; a session is known by the provider that made it. `bound` and `saved` are
the columns of its row in `sessions`, `cached` the map of the same name in `src/index.ts`. A run is
prepared (its prompt is built on `selectedProviderWillClearSession`), then starts
(`selectProvider`, the switch of the session, `acquireSession`), has output, and ends by one of three
paths.

Abstracted: recovery after time is a choice (`Recover` takes any set of unhealthy providers);
whether a failure is one of the provider is a choice. The clearing of the session and the report after a
noticed provider failure are one step. Not modelled: changes of strategy, threshold and weights while
the server runs, overrides by an environment variable of a folder, a configuration without enabled
providers, an override whose provider was deleted.

### IssueRuns

One issue with an executor. `status` are the rows of `issue_agent_runs`, numbered in the order of
their creation; `requests` those of `issue_agent_requests`; `waiting` the runs whose task is in the
queue, `elsewhere` those the autopilot queued under its own jid; `seen` is the issue's
status in the copy that an executing run took when it began; `stale` are open rows not seen for 90
seconds, which the reconciler takes for lost; `canceling` are cancellations that await the stop
of a process. `asked` are the runs whose question to the user is in a file that the server has not read
(`AskUser`), or not deleted: `TakeQuestion` handles it at any later time, asks nothing about the
row or the process, and may find the file again, after a restart too. `DriveForApproval` and `DriveBlocked` are the driver under the two other verdicts of the
orchestration policy.

Abstracted: "done" and "canceled" are one status, `closed`; the policy's verdict is a choice; a row that
was just set to running can be found silent at once, since `last_seen_at` is not refreshed with it. The
copy of the issue that a decision compares (`src/routes/issues.ts:2012`, read before the body of the request)
may show any status.
Not modelled: several issues in one tick, inheritance of sessions and parents, comments, delivery,
releases, notifications, deletion of an issue, issues without an executor.

## 3. The runs

| Run | Checks | Instance |
|---|---|---|
| `group_queue` | types, slot accounting, one flagged runner of a key, tracking of pending work, `RunSlots` | a web chat, another owner's IM chat of the same folder, an agent of it, a task run; 2 container and 1 host slot, one owner limited to 1 run; 3 requests, 1 control, 1 retry |
| `group_queue_live` | no idle slot beside waiting work; pending work is served | web, IM and agent of one folder, 1 slot of each kind |
| `two_runs_of_one_key` | refutes "one runner of a key" | web and IM of a folder and another chat |
| `delivery` | types; the committed cursor is behind the next-pull cursor | two chats, a late IM message, two web messages, slash commands, lost access, 1 failure, 1 restart |
| `delivery_im` | nothing skipped, nothing forgotten, cursors advance, every message is given | two chats, 3 IM messages, 2 failures, 1 restart, lost access |
| `web_message_skips_earlier` | refutes "all messages since last agent interaction" | one chat, web messages |
| `task_claims` | types, one run of a task that is not moved while it waits, acceptance once for every task, no orphaned marks, occurrences settle | one task of each of the 6 kinds, with and without grace; 2 occurrences, 1 manual run, 2 edits or moves between two jids, 1 dropped or over-long run, 1 restart |
| `queued_task_skipped` | refutes "skipped tasks are not executed" | one task, no edits |
| `remote_runs` | types, one live session, runs failed for their own link only, one outcome, nobody forgotten, reservations, updates spare runs, runs settle, `RunOutcomes` | one run, two connections, restart budget 2 |
| `provider_pool` | types, session counts, health and errors agree, sessions resumed under their own provider, fair turns, the prediction, avoidance of unhealthy providers | one chat, one agent, two providers of weights 1 and 2, threshold 2, one change or restart, turns up to 3 |
| `issue_runs` | types, held runs do not run, canceled runs stay so but for three exceptions, issues to do are taken up, rows settle | 2 runs, 1 question on its way or request, 1 edit, 1 restart |
| `answers_not_resumed` | refutes "resume automatically once the user replies" | 2 runs, 1 request |

Deadlock is not checked: every part stops when its bounded environment does.

*Why these bounds are enough to be of use.* The interactions are pairwise: two groups of one
key, or two groups and one slot; two messages and one run that fails or is closed
between them; an old run and a new claim. Three requests fill a slot, its waiting list
and a retry at once. Three messages allow a batch, an injected message and a late one.
Three tokens are as many as one task needs: its two runs after a move, whose logs have the same tokens,
and a claim. Two jids are one to leave and one to move to; nothing tells them apart, so that the
task begins under the first (`MCInit`). Runs on a device share the pool, the
child and the connection, but their steps touch only their own entries; two connections allow
a replacement and everything late from the one before. Two providers allow a switch, an agent and a chat
the two rules for sessions; a threshold of 2 lets a count rise without a verdict. Two runs of an issue are a
lost one and its successor; two requests of one issue, an old and a new one, are covered by the
proofs only. Every action fires
in some passing run, and every property has a mutant that one of these instances
catches. The bounds do not reach long cascades, such as several groups that are woken in
turn; the proofs below do not depend on them.

*Fairness.* A drain that is due runs before anything else, as part of one stretch of
code. Runs end: `container-runner` and the queue give every runner an idle timeout and a hard
timeout. Armed timers fire; the loops come round every few seconds; an `await` of an
expansion or a reply returns, since both have timeouts; leases expire with the clock.
A runner that is started again and again reads its directory at one of the starts
(strong fairness): the agent runner drains the directory before its first query. The server's timers of a remote run fire, and the delivery of its outcome comes
to an end; nothing is assumed of the daemon or the network. The issue driver and the reconciler tick
(`setInterval`), the queue starts the runs it holds, a run of an issue ends at the latest by its time
limit, and 90 seconds pass for a row that nobody works on. Nothing says that a question's file is
read. Nothing
is assumed of users, of the environment's failures, or of a task becoming due.

## 4. The proofs

*GroupQueue.* The invariant `SlotInv` is the type invariant, `ScanOpen` (a scan of waiting
groups is due only while the server is open), the finiteness of the set of frames,
`SlotAccounting` and `OneFlaggedRunner`. `SlotAccounting` alone is not inductive: a start needs
a free frame number, which needs the counters, and an end needs the frame to be one of the
counted. From it follow `Typing`, `SlotsAreCounted`, `FlagsAreExclusive`,
`PendingIsTracked` and, step by step, `QueueImplementsSlots`: every step of the queue starts a
run as `RunSlots` allows, ends one, shuts down, edits a mode, or stutters. The proofs
assume `ConstantsAssumption`: that there are finitely many groups, that keys, limits and
owners are functions of them, and that bounds are numbers.

`WorkConserving` is not true of the queue without conditions (section 5), and the two theorems on it
name them: modes are not edited (`ModesStay`), the limit of an owner is at least the number of slots
(`LimitsAreWide`: billing is off, the owner is an administrator, or has a plan as wide as the server), and no
key has two runs. `EndsWakeWaitingWork` takes the last as a hypothesis about the behavior, for any number of
slots; `OneSlotConserves` proves it for servers with at most one slot of each kind, where the run that
`drainWaiting` overlooks holds the slot that a second would need. The invariant `ConservingInv` has three parts:
a run is flagged, and counted under the mode of its jid (`FramesFlagged`); while a group's drain is due,
the group can start, and what else could start waits for its key or for the last slot of its kind
(`DrainReady`); otherwise, what could start is still ahead of the scan (`ScanReaches`). The scan's candidates
are the waiting groups, so that this part needs `PendingTracked`.

*MessageDelivery.* `DeliveryInv` is the type invariant, `BatchesHold` (a batch that is
waited for is not empty, so that its last message exists) and `CommittedBehindNextPull`.
The cursors move in three ways only: both to one place, the next-pull cursor
forward alone, both to the larger of two places; each lemma of the module assigns an
action to one of them.

The theorems of `DeliveryOrderProofs` have hypotheses, since their properties fail without.
`CursorsNeverRegress` is for messages that no plugin has to expand (`Slow = {}`): a web handler that
awaited an expansion sets both cursors to its message, which others may have passed.
`NothingIsSkipped` and `NothingIsForgotten` are, in addition, for messages from IM (`Web = {}`) that
are stored in the order of their timestamps (`Late = {}`): a web message is piped into a live run ahead of earlier
ones that wait for the next, and a late one is stored behind the loop's cursor. The run
`delivery_im` is such an instance; in the theorems chats, messages, failures, restarts and
losses of access are as many as the constants say.
`OrderInv` is `DeliveryInv` with three facts: nobody awaits an expansion (`NothingExpands`); cursors stand at
stored messages of their chat, and a run's batch has such messages (`PlacesTaken`); what the loop
has in hand are the last messages of a chat (`PolledLast`), so that a cursor set to
one of them moves forward. `SkipInv` adds that a run's batch is all there is up to its last message, or was
passed before (`BatchTakesAll`), and was handed over once the runner is live (`BatchHanded`). `HeldInv` says
where an open message is that the loop has passed: in a file, in a starting run's batch, in
the runner, or before a cursor whose chat has a run due that will pull it (`UnsettledHeld`); the last needs that
no run has pulled what the loop still has to hand on (`PolledIsFresh`).

*TaskClaims.* `RunInv` is the type invariant with six facts about runs (`RunFacts`):
`OneRunPerTask`; no two runs share a token; only agent tasks are queued (`QueuedAreAgents`); the task of a
run that has begun is in `runningTaskIds` (`BegunIsKnown`); a queued run waits under the jid that its
task has now (`QueuedHere`); and `RunsAreTracked`. `BegunIsKnown` keeps the scheduler from claiming beside an
active run, although its lease may have expired; `QueuedHere` makes the check of `enqueueTask` find the queued
one. The claim itself plays no part. The first, the fourth and the fifth except tasks in `moved`, which have lost
`QueuedHere` and with it the rest (section 5), and a task's kind is not changed.
`OccInv`, for `AcceptedOnce`, excepts no task. It says that what was accepted is past: it is neither a task's next
occurrence nor one that a run is for, or would write back (`NextOpen`, `RunsOpen`), and occurrences are counted
upwards (`AcceptedPast`). `RunsOfDue` adds that, while a scheduled run's occurrence is the next one, its time
has come, so that the run's end cannot take it for the next firing of a cron task. What it says of runs it says of
those that hold their claim, at most one of a task: tokens differ, and the others' ends change nothing
in the row. Manual runs write back an old `next_run`; that is harmless because every later claim, and
so every later acceptance, takes the claim away from them first.

*RemoteRuns.* The invariant has a part for each end and one that joins them. `LinkInv` (server) is
the four safety properties with three facts: nothing is known of a run that was not sent; the
session of one that was has begun, so that it cannot begin again after its end; and what is
told through the controller takes the controller away (`ToldOnce`). `RuntimeInv`
(daemon): a request on its way belongs to a run that was sent and has not arrived, and is the only one
of it (`Requests`); a run that was not sent has not arrived; each stage says whether the run is in the pool
(`Reserved`). `WorkInv`: a run that was not written to the child has no job, and a frame `ok`
on its way, or a success that is being delivered, is of a run whose job is `ok`. The last is what makes
`RefinesRunOutcomes` work: a settled success needs the work, the work needs the request. Each
step of the server or of the daemon is an abstract step or a stutter, since at most one run changes.
The assumptions are those on the constants (`WireAssumption`, `LinkAssumption`, `RuntimeAssumption`).

*ProviderPool.* `PoolInv` has the types, with the agreement of health and errors; `CountsOK`, that a
provider's count is at most the number of runs under it; and `AgentsOK`, that an agent's row, what
a prepared run has read from it and what a running one resumes belong to one provider. `OwnSessionResumed`
alone is not inductive: a run may be prepared from a row long before it starts.
`PredictionSound` and `AvoidsUnhealthy` are action properties: each kind of start is taken apart into
what the selection looks at and what the prediction says of it. They assume `PoolAssumption`:
finitely many conversations, positive weights and threshold.

`FairTurnsHolds` is about the choice itself: for any set of providers, any weights and any
value of the counter, as many successive turns as the pool has shares give every provider its
weight. The shares of a pool lie side by side on *0 .. n-1*; a turn falls to the provider whose share the counter
hits modulo *n*, which the recursive definition of the choice is shown to mean (`PickMeans`); *n* successive numbers
hit each place once (`PlacesHit`). The same proof with shares of 1 is the unweighted rotation.

*IssueRuns.* `IssueInv` is `RowsOK` and `RequestsOK` (the types), `HeldOK` (`HeldRunsDoNotRun`, and a
run held for approval has asked for nothing else, so that no other route decides it), `AskedOK`, `CanceledOK` (a
canceled run has no task and no process left, but for the autopilot's) and `AwaitingHasRequest`. `AskedOK` keeps questions that are read late from the runs held for
approval: only a run that was executed has asked. `CanceledStays` has three exceptions, of which `CanceledOK`
needs the first only: a permission decided late and a question read late change the row, and start nothing.
The lemma `DriveKeeps` shows in passing that the driver never uses an answer: a run that awaits one
keeps the issue from being drivable. That is the reason of `answers_not_resumed`.

Only model-checked: the liveness properties `QueuedWorkServed`, `MessagesAreGiven`, `OccurrenceSettles`,
`SentRunsSettle`, `TodoServed` and `RunsSettle`. TLAPS cannot prove liveness under fairness, which needs ENABLED. Every invariant and
every action property of a passing run is stated by a theorem, some under the hypotheses named above. The
properties of the other four runs are refuted, and have no theorem.

## 5. Weaknesses the models show

Refuted by a run, with a finding in `PROJECT.json`:

* `two_runs_of_one_key`: `drainWaiting` lets a group pass whose own runner is active
  (`src/group-queue.ts:1404`), so that a second run of the same group starts beside it.
* `web_message_skips_earlier`: a web message injected into a live runner moves the cursor past
  an earlier one that was only queued.
* `queued_task_skipped`: a task that waits in the queue longer than the grace is skipped while
  its run is on its way; a once task is then completed and never runs.
* `answers_not_resumed`: a run that asked and ended stays at `awaiting_input` after the
  answer, and the driver is not offered an issue that has such a run (`src/db.ts:4866`).

Further deviations from comments in the code, found with the same models and not kept as
runs of their own. *Queue and delivery:*

* A stopped group does not stay stopped: its failing run arms a retry again.
* A failed run's messages, and those piped into it, are behind the cursor when the retry
  pulls: the retry reads nothing.
* A run closed at work leaves its message behind both cursors of the loop, and
  nobody retries it (`src/index.ts:4124`).
* The queue is not work-conserving: a slot can stay free, beside work that may take it, until another run
  ends. `drainGroup` returns without a scan of the waiting groups when the key is busy or the group has no
  capacity (`src/group-queue.ts:1347`, `:1351`). So it is when one of two runs of a key ends; when the run of an agent, which does not count
  against its owner's limit, ends while that limit is reached; and after an edit of a mode. TLC finds each of the
  three alone; without them the property is proved (section 4).
* Committed is not processed. `advanceCursors` (`src/index.ts:515`) moves
  `lastCommittedCursor` to at least `lastAgentTimestamp`, which already covers messages that were
  only written to the runner; the comment at `:462` says it "only advances when an agent
  actually finishes processing".
* Answered is not committed. `commitCursor` (`src/index.ts:3329`) commits the initial batch, once
  per run. Later replies of a long-lived run stay uncommitted, although `:3964` wants the cursor
  persisted "as soon as a visible reply is emitted"; after a restart they count as pending and
  the chat's session is deleted.
* Recovery reads nothing. `recoverPendingMessages` finds messages after the committed cursor,
  but the run it queues pulls after `lastAgentTimestamp` (`src/index.ts:3007`). The same holds for
  the run that `recoverUnconsumedIpc` and `hasIpcInjectedMessages` ask for
  (`src/group-queue.ts:693`, `src/web.ts:705`).
* A first message is lost by a restart during its run: chats without a committed
  cursor are left to the loop (`src/index.ts:8402`), whose own cursor has passed it (`:8075`).
* IM messages with an older timestamp than one already polled are never polled (`src/index.ts:8071`,
  `src/telegram.ts:566`); so are those stored while the loop awaited an expansion and a web
  message of another chat advanced the loop's cursor (`src/web.ts:711`).
* A plain message polled together with a command that a plugin answers is passed by when no
  runner is live (`src/index.ts:8241`).
* A slow slash command that is injected after a later message sets both cursors back
  (`src/web.ts:708`).
* A group gives up twice: the second failure after `MAX_RETRIES` starts to count anew, since
  giving up resets the count (`src/group-queue.ts:1312`).
* Agents wait for the limit of their owner although they do not count against it: `HasCapacity`
  asks for it for every group.
* A drain requested before the runner has registered is not written, nor later
  (`src/group-queue.ts:223`); and an interrupted runner deletes the sentinel while the queue
  believes that it is there (`container/agent-runner/src/index.ts:2197`).

*Tasks:*

* The close request at a task's first result goes to `#task:<run id>`, its runner is
  filed under `#task:<task id>` (`src/task-scheduler.ts:517`, `:1288`), so the "idle agent process"
  that `:644` wants to exit "promptly" waits for its idle timeout.
* A run of a task writes back what it computed from the row it read at its beginning: a manual
  run reverts a rescheduling made meanwhile, a scheduled one overwrites it, and a once task that was
  moved is completed (`src/task-scheduler.ts:803`).
* `PATCH /api/tasks/:id` accepts a new `execution_type` at any time. The check of `enqueueTask`
  protects agent tasks only: a task whose run waits in the queue past its lease, and which is made a
  script task meanwhile, gets a second run beside the queued one (`src/task-scheduler.ts:1229`,
  `src/routes/tasks.ts:615`). `TaskClaims` keeps the kind of a task, and `OneRunPerTask` says so.
* `enqueueTask` means to "Prevent double-queuing of the same task" (`src/group-queue.ts:477`), but looks
  only at the list of the jid that it is given, which is made from the chat that the task has now
  (`src/task-scheduler.ts:1288`). A task whose run waits in the queue past its lease, and which is moved
  meanwhile (a new `chat_jid`, `src/routes/tasks.ts:546`, or other registered groups,
  `src/task-scheduler.ts:54`), is queued a second time. Both runs may then execute, and the first
  to end takes the id out of `runningTaskIds` although the other goes on (`src/task-scheduler.ts:819`), so that
  a third may start. Only the one that holds the claim is accepted. `OneRunPerTask` excepts such tasks until
  they have no run.
* A queued task that is dropped, or a restart, leaves the claim in the row: the task can run again
  when its lease of six hours is over, and not before. `OccurrenceSettles` holds only
  through that expiry.

*Runs on devices:*

* A run whose child dies after it acknowledged the run is never reported (`EndsRelease` leaves it
  out); the server's timer ends it, and its entry stays in the pool of that
  connection. Nor are the runs of a replaced session failed when it ends
  (`src/agent-link/registry.ts:496`): they wait for their timer, or for the end of the new session.
* The graceful update waits for the pool of the connection it began with: when that is lost, it waits
  on a pool nobody empties, while the new connection's pool is not drained (`update.go:56`).
* A child that exits between `ensureStarted` and the write leaves `stdin` nil: the daemon
  panics (`supervisor.go:342`).
* A run that waits in the back-off starts a child although the budget was used up meanwhile
  (`supervisor.go:215`), and one started after `Close` is nobody's.
* `CancelRun` is an RPC made in the read loop: frames wait behind it for the child.

*Providers:*

* A chat resumes the old provider's session after a switch when the first run under the new one saves none:
  the row is cleared (`src/container-runner.ts:1034`), the map `sessions` is not, and the next run
  takes the map's (`src/index.ts:4423`). `OwnSessionResumed` therefore speaks of agents.
* A prompt may lack the history of the session that is then cleared: another run changes health or
  override between prediction and choice. `PredictionSound` is about one moment.
* Session counts are forgotten by a reset, and by disabling; `SessionsNotOvercounted` is an inequality.
* A run killed after its provider failed ends as a success and makes the provider healthy again
  (`src/index.ts:3749`).
* The sessions of an edited provider are dropped only if it is enabled; a run that is stopped for the
  drop may save its session afterwards, which is resumed elsewhere. `OwnSessionResumed`
  excepts edited providers.
* An override of a deleted provider runs under another provider's configuration, on the account of the first
  (`src/runtime-config.ts:1697`).

*Issues:*

* A run that waits in the queue for 90 seconds, or works as long in silence, is marked lost, and a second run
  starts beside it: heartbeats are filed under the link's id of the run
  (`src/agent-link/registry.ts:250`, `:289`). A decision after 90 seconds leaves its row to the next tick in the
  same way.
* A run held by the policy can never be approved: the decision needs a token its request does
  not carry (`src/routes/issues.ts:2040`, `src/issue-auto-driver.ts:194`). A reply to it
  leaves the run awaiting for good; a rejected one is asked again at the next tick.
* A successful run moves an issue that was closed meanwhile to review, from its stale copy
  (`src/issue-runner.ts:680`); one that asked permission on an issue in review leaves it
  in progress with no run.
* A run that ends in an error leaves its issue in progress, and the driver takes
  only issues to do.
* A cancellation does not find a run that the autopilot queued (`autopilot#issue:`); it begins
  anyway. One that waits for a process to stop writes over a success that came first.
* A decision on a request that was left over sets a canceled or finished run to running;
  `CanceledStays` excepts it, and the autopilot's runs.
* A question of an agent is a file that the server reads later and handles whatever became of the run
  (`src/index.ts:6557`): a run that was canceled or has ended goes to `awaiting_input`, and its issue to
  `waiting_for_human`. A file that was handled, but not deleted when the server stopped
  (`src/index.ts:5517`), is handled again. `CanceledStays` excepts runs with such a file.
* A decision on a permission compares a status of the issue that was read before the body of the
  request (`src/routes/issues.ts:2012`, `:2206`): an issue that was closed or moved meanwhile is set to
  in progress, or one that has come to wait stays waiting.

## 6. Not modelled

* *Agent teams* and *billing*: sequential rows of a run's tasks and of balances; their verdicts enter the
  models as choices (`SetAccess` in `MessageDelivery`, `RunDenied` in `TaskClaims`). They are the next
  candidates, with `cancel` of a team against tasks that start and end as the question.
* *The orchestration policy*: a pure function of settings; its verdict is a choice in `TaskClaims` and
  `IssueRuns`.
* *Pure algorithms* (interval arithmetic of the schedule, order of a team's tasks, the runtime pool's
  choice of a device): no state, and covered by unit tests of the repository.
* *TaskClaims with GroupQueue*: the queue's drop and stop are the steps `QueueDrops` of `TaskClaims` already;
  the product of both would multiply states and add no step.
* *Streaming cards, IM clients, terminals, plugins, memory and knowledge, routes, configuration, the web
  client, runners*: processes, files, text and network services. Where they interrupt the modelled parts (an
  expansion that awaits, a runner that dies, a reply that takes time), a step stands for them.

Runs are few: each asks one question of one component, and variants of the same question
share a configuration.
