# OpsSentry in TLA+

This directory holds TLA+ models of the parts of OpsSentry whose correctness
depends on interleavings, crashes, retries and time, the TLC runs that check
them on small instances, and TLAPS proofs of the properties that must hold for
every instance. `PROJECT.json` maps every definition to the source lines it
models and lists the runs, mutants, findings, hazards and theorems.

To check a run: `tlc -workers 2 -config <run>.cfg MC<module>.tla`.
To check the proofs: `tlapm <module>_proofs.tla`. `SyncBuffer_proofs` is also about
`ConfigShieldFile`, which it is built on, and `Cluster_proofs` about both machines of
`src/cluster` that run on it, `Cluster` and `AlertAggregator`.

## 1. The system

OpsSentry is a FastAPI service for operations agents. Several processes (nodes)
may share a data directory and a Redis server; inside a process there are an
asyncio event loop, a thread pool for synchronous routes, and background
threads.

| Component | State | Operations | Interacts with |
|---|---|---|---|
| OpsLedger (`ops_ledger.py`, `ledger_entry.py`, `sqlite_ledger_storage.py`) | SQLite table `ledger`, one RLock per process, one connection per thread | create, transition (mark_running, mark_completed, mark_failed, retry), checkpoint, delete, list | every component that acts; mark_failed emits an alert |
| AuditShipper (`cluster/shipper.py`) | cursor (created_at, id) in memory, checkpoint file, thread | start, stop, loop of fetch / pipeline / advance / save | reads the ledger table, writes a Redis stream |
| ConfigShield (`config_shield.py`) | a Redis key or a lock file per resource, `_heartbeat_threads`, `_state_lock` | acquire, heartbeat, release, inspect | SyncBuffer |
| AlertAggregator (`cluster/alert_engine.py`) | Redis list or Python list, the batch in progress, stop event | emit, loop of fetch / aggregate / dispatch, stop | ledger (emit), channels, WebSocket manager |
| SyncBuffer (`global_sync.py`) | a JSONL file | append, read_all, clear, each inside acquire ... release | ConfigShield with lock files |
| CronEngine (`cron_engine.py`) | jobs dictionary and `jobs.json`, APScheduler jobs, a semaphore | add, remove, start, stop, execution wrapper with backpressure | ledger, ToolRegistry, AgentVM |
| AgentManager (`agent_manager.py`) | a directory per agent with a config, a tool registry and core files; one RLock per process | create, update, bind, unbind, read, delete, list | the file system that processes share |
| HeartbeatSender, cluster status, failover (`cluster/heartbeat.py`, `routers/cluster.py`, `AgentManager.perform_failover`) | a Redis key per node, 45 s TTL; task registry and task locks in Redis | send every 10 s; ACTIVE, SUSPECT, DEAD from the age; reclaim the tasks of a DEAD node | alerts; workers that take tasks (not in `src/`) |
| ToolRegistry, sandbox (`tool_registry.py`, `sandbox.py`) | ledger entries of tool calls, a pool of commands, process groups | dispatch, execute, kill | ledger, operating system |
| AgentVM (`agent_vm.py`) | conversation in progress | chat loop | ToolRegistry, model provider |
| MessageRouter, webhooks (`message_router.py`, `routers/webhooks.py`) | a background task per mention | announce, route to agents, card actions | ledger, AgentVM, connection manager |
| WebSocket endpoints, connection manager (`routers/sessions.py`) | sockets per session | chat, register, disconnect, broadcast | AgentVM, history files, alerts, Redis subscription |
| SessionManager, EvolutionManager, KnowledgeCore, SkillLoader, key vault, auth, start-up | files, singletons | store and load | - |

### What is hard in it

* **Processes that share a file or a key.** The ledger's RLock and the shield's
  RLock protect one process only. What arbitrates between processes is a WHERE
  clause, a primary key, `SET NX`, `O_EXCL`.
* **Two commands where one is needed.** Owner check and refresh, stale check and
  rename, duplicate check and insert, removal from a list and its processing.
* **Crashes between two writes**, and lost replies of writes that took effect.
* **Order.** Cursors over timestamps and random ids, first-wins deduplication.
* **Time.** Leases, heartbeats that may stop or come late, joins that time out.

What makes each component correct:

* ledger: only legal status changes, at most one winner of a race, error text
  exactly on failed entries, completed entries immutable, alerts only for what
  did fail, every call atomic;
* shipper: nothing skipped except what nobody can see yet, a restart behind the
  running cursor, progress whenever Redis answers;
* shield: one holder per resource, a holder's lease stays alive, a heartbeat
  never takes over or outlives its holder, a crashed holder's lock comes free;
* alerts: each told at most once per channel, none lost without a fault, each
  told while a task runs;
* SyncBuffer: a file of whole lines, one for every append that returned;
* tools: the ledger says "running" as long as a command is executed, the pool is
  not exceeded, every call ends that no background process holds;
* conversations: the connection lists hold the served sockets, a broadcast misses
  nobody it need not miss, clients that left are forgotten;
* cron: at most N executions at once and none stuck, the scheduler follows the
  dictionary wherever a definition makes a trigger, confirmed definitions kept;
* agents: the files agree with each other and with the answers, no update of the
  same process lost, a delete clears whatever a crash left;
* cluster: a node that beats is not declared DEAD, a failover gives no task a
  second runner.

## 2. The modules

| Module | Models |
|---|---|
| `LedgerService` | abstract ledger: a call takes effect at most once, in one step, if the life cycle permits it; "ok" only after it did |
| `OpsLedger` | the ledger, one step per SQL statement, threads of several processes |
| `OpsLedger_proofs` | its theorems |
| `AuditShipper` | writers, incremental query, shipper thread, checkpoint file, Redis stream |
| `AuditShipper_proofs` | its theorems |
| `ConfigShield` | what the two lock stores share: threads, state lock, acquire loop, heartbeat threads |
| `ConfigShieldRedis` | the lock as a Redis lease, one step per command |
| `ConfigShieldRedis_proofs` | its theorems |
| `ConfigShieldFile` | the lock as a file, one step per file operation |
| `SyncBuffer` | append, read_all and clear on top of `ConfigShieldFile` |
| `SyncBuffer_proofs` | the theorems of the buffer and of its lock file |
| `AlertAggregator` | buffers, aggregation tasks, channels |
| `CronEngine` | job definitions, `jobs.json`, scheduler, semaphore, executions |
| `CronEngine_proofs` | its theorems |
| `ToolCalls` | dispatch with its ledger entry, the bounded pool, commands under the three runners |
| `ToolCalls_proofs` | the theorems of `ToolCalls` and of `Conversations` |
| `Conversations` | WebSocket endpoints, chat loop, connection manager, webhooks and inferences |
| `AgentManager` | the directory of one agent, threads of several processes, one step per file operation |
| `AgentManager_proofs` | its theorems |
| `Cluster` | heartbeats, node status, failover of tasks |
| `Cluster_proofs` | the theorems of `Cluster` and of `AlertAggregator` |
| `MC...` | instances for TLC |

### OpsLedger

A thread's call is a sequence of labels (`pc`): `lookup` and `insert` for
create_entry, `update`, `explain` and `reread` for transition and
update_checkpoint, `lookup`, `delete`, `deleted` for delete_entry, and `emit` for
the alert of mark_failed, which runs outside the lock. `lock[p]` is the RLock of
process p: held through the statements of a call, it keeps the threads of one
process apart and nothing else. `Crash(p)` kills a process between any two
statements. `DatabaseLocked` is an OperationalError that outlasts `with_retry`.
`everFailed` is a history variable.

Requests are the calls the repository makes: a move to "failed" goes through
mark_failed and carries a text, other transitions carry none. (The public
`transition` would accept `transition(id, "failed")` without a text, and an
error together with another status; nothing calls it that way.) `action`,
`metadata`, `accio_ref` and the timestamps are left out: no branch reads them.
Listing and counting change nothing and are left out.

### AuditShipper

Keys are pairs (created_at, id). A writer reads the clock when it builds the
entry (`Draft`) and the row becomes visible at its commit (`Insert`). The shipper
is `wait`, `send`, `advance`, `save`. `late` collects the rows that become visible
behind the reading position: the query can never return them in this pass, and
the properties say that these are the *only* rows ever passed over.
A corrupt checkpoint file (power loss while saving, there is no fsync) makes the
shipper start from the beginning.

### ConfigShield

`pc` of a client thread: `idle`, `want` (waiting for the state lock), the store's
steps from `try` to `start` or `backoff`, `held`, `leave`, `stop`, the store's steps
from `rread`, `idle`. A heartbeat thread: `wait`, `due`, `hread`, the write, `dead`.
`release` joins the heartbeat for one second while holding the state lock: a
thread that is waiting for its interval ends at once, one that is waiting for
the state lock survives the join and runs once more (`StopHeartbeat`).

`calm` is a history variable: TRUE as long as nothing happened that the design
does not withstand. In Redis mode that is a Redis error, time that passes while
a thread is inside a command, and a lease that runs out although a heartbeat of
its owner is alive. In file mode it is a failed write, time that passes inside a
call, a late heartbeat, and two reclaims of a stale file that overlap. Crashes
are allowed in calm times, the takeover of what a crashed node left as well.
`CalmLock` says what holds in each mode until calm ends: one holder, its lease or
file in place, nothing taken over; the run `ConfigShieldRedis_seized` shows what
happens afterwards. `HeartbeatsMatchHolders` holds calm or not.

Left out: `release(force=True)` and `inspect`, which nothing in `src/` calls, and
`on_lock_acquired`, which nothing sets. The nodes have distinct ids and one
clock. redis-py is installed (a dependency in pyproject.toml), which decides
which exceptions `acquire` handles.

### SyncBuffer

The module extends `ConfigShieldFile`: its `BufferNext` contains every step of the
lock, and the buffer's own steps happen while `pc` is `held`. A record is written in two
chunks (a line longer than a write is), so a crash, a full disk or another
writer can get between them. The file is the number of readable lines, whether
some line is unreadable, and whose first chunks stand in the unfinished line
(`lines`, `garbled`, `tail`); `acked` counts the appends that returned since the last
clear. `AppendToUnlinked` is a writer whose file was cleared while it had it open.
With an unreadable line `read_all` raises until the file is cleared.

### AlertAggregator

`Shared` are the processes with a Redis URL: their buffer is one list. A batch is
taken page by page (`FetchRedis` until a page is empty) or at once (`TakeBuffer`),
and sent to the channels in turn. `gone` names each alert no channel will get
and why: a crash, an exit with a list of its own, a lost reply, failed sends.

### CronEngine

The engine lives in one event loop, so the unit of interleaving is the code
between two awaits: `AddJob`, `UpdateJob`, `DeleteJob` are one step each, an execution
is `fired` (a task that has not run yet), then it ends at once (job gone or
disabled, backpressure), waits in `queue` for the semaphore, is `granted` a slot
or `running` its payload. The semaphore follows asyncio of Python 3.12
(pyproject.toml requires it): `locked()` is true as long as someone waits or has
been woken without having resumed, a release wakes one waiter, and an acquire
that had to wait wakes all that find a slot. A low-priority job can thus be
dropped although a slot is free for a moment.

`_schedule_job` has three outcomes: a trigger (`Scheduled`), an exception (`Rejected`),
or, for an unknown kind or a cron expression without 5 or 6 fields, neither. Such a
definition ("unknown" in the model) is stored, saved and confirmed; a POST leaves the
trigger of an earlier definition of the id in place, a PATCH has removed it before.

`up = "dead"` is an engine whose `start()` raised: the API goes on, nothing is
ever fired. `acked` holds the definition last confirmed to a client, `excused` the
ids for which the engine does not keep it (a rejected change, a death between the
two saves of an update, a `deleteAfterRun` that belongs to an older definition of
the id). "at" jobs are left out: whether they fire after a
restart depends on the date only. The ledger calls of an execution appear as the
exceptions they may raise; what they do is in `OpsLedger`.

### ToolCalls

A step is what happens between two awaits. A call is refused, blocked by policy
(`Block`: recorded, not run) or executed: entry and mark_running, `waiting` for the
pool, `starting`, `running`, `terminating` (the grace after SIGTERM), `aborting` (the
same after another error), `draining` (the second `communicate()`). A command is its
shell and at most one background process, `attached` to the output pipes or
`detached`: `communicate()` returns when both shell and attached process have ended.
Every ledger call may raise, without effect or after it; a `mark_completed` that
raises after it took effect makes `mark_failed` raise as well.

`runner` is what `create_sandbox_provider` chose. DirectRunner puts the command in
a process group of its own: its timeout goes through `Timeout`, `Kill` and `Drain`, the
end of the server leaves the command running. Under nsjail and bubblewrap shell and
background share a pid namespace and end together (`KillGroup`): at nsjail's
`--time_limit` (`TimeLimit`; the code waits without a timeout of its own), by
bubblewrap's `process.kill()` (`KillNamespace`), and, with `--die-with-parent`, with the
server. These two runners catch nothing but the timeout, so that any other
exception of `communicate()` leaves the command running with its entry failed
(`Abandon`); the properties leave such commands out by name.

The pool's semaphore is modelled in detail in CronEngine; here a waiting call may
take any free slot. Which commands the policy levels refuse is text matching: each
call may be refused, blocked or executed.

### Conversations

`stage` of an endpoint is what it awaits: `greeting` (the first message), `idle` (a
question), `ask` (the model), `tool` (dispatch), `error` (the send of an apology).
Sends of chunks fold into the step that follows; to a client that has left they
raise or are lost, so both continuations are allowed. `active` holds the lists of
the connection manager, `cast` the broadcasts: of a webhook's announcement
(`<<w, 0>>`) and of the inferences its mentions start (`<<w, i>>`), or of a card
action. Between two sends a broadcast keeps an iterator of the dictionary and one
of a list (`Walk`, `NextKey`), which `Register` and `Unregister` disturb as they do in
CPython: another size raises, a removal behind the iterator skips one socket.
`steady` and `owed` are history: whether keys came or went, and who still has to get
the message. Routing follows the announcement in the same step; its tasks start
later. Only the first chunk of an inference is sent: the ledger call after it has a
wrong signature (`message_router.py:92`) and raises.

Left out: contents of messages and histories, the compaction of the context, the
broadcasts of alerts and cluster events (they walk the same lists).

### AgentManager

One agent id; every method is a sequence of labels (`pc`) under the lock of its
process: `resolve` (the first check of the directory), `mkdir`, `load`, `write`
(mkdir and mkstemp) and `replace` for each file still in `todo`, and for rmtree
`scan`, `unlink`, `rmparent`. Threads of one process exclude each other; those of
other processes interleave at every file operation, among them a writer that
re-creates the directory which a delete is emptying. `Crash` kills a process
between two operations and leaves its temporary files as `litter`.

`told` is the history that carries the properties: the agent that the answers so
far add up to. It is `Unknown` after a crash or a failed write in the middle of a
change, an update that was refused after its first file was written
(`agent_manager.py:325-327`: the skills are validated after the registry was
replaced), or writers of two processes at once; a create or delete that no other
process disturbs makes it known again. `alone` and `writing` say which calls overlap.

Left out: the five core files are one, the empty `skills` directory, and the
fields that no file shares. `perform_failover` is in `Cluster`; `validate_heartbeat`
has no caller.

### Cluster

A sender's thread is at `send` (about to stamp), `set` (inside the metrics and the SET)
or `wait`; `timer` counts what it has spent there, `stamp` the age of the timestamp it
is about to write, `key` the age and the remaining TTL of what Redis holds. `Tick` is
one unit of time for all. `prompt` is a history variable: FALSE once a thread
was later than `Slack`. With it, `Join` may return while the thread still runs, and the
next `Start` finds a thread that is alive and starts none.

`CallFailover`, `Scan`, `Reclaim` follow `perform_failover` command by command; a
Redis error ends it (`FailoverFails`) before or after its command took effect. Who
takes tasks and who calls the failover is not in `src/`: `Take` does what
`tests/test_failover_logic.py` sets up (lock and registry entry together), by a
node that beats, and a failover is called for a node that was seen DEAD.

`orderly` is the second history variable: no two failovers of a node overlap, the node
does not come back during its failover, it is not stopped while it works, and no more
heartbeats are lost in a row than `DeadAfter` allows. `OrderlyOneRunner` says that then no
task has two runners. Each of the conditions is needed: the code has neither the
leader lease of `docs/Phase7_Redis_Schema_Sequence_Spec.md:72-74` nor a check that the
registry still names the dead node when a task is released.

## 3. The runs

| Run | Instance | Checks |
|---|---|---|
| `OpsLedger` | 2 processes, 3 threads, 1 id, 2 checkpoints; 600 000 states | TypeOK, ErrorMeansFailed, NoFalseAlarm, LifeCycleRespected, ImplementsService |
| `AuditShipper` | 3 ids, 2 writers, 2 ms, pages of 2, 2 faults; 530 000 states | TypeOK, SentBeforePassed, EventuallyShipped |
| `AuditShipper_zero_loss` | 1 writer, no fault | violation of NoRecordLost |
| `ConfigShieldRedis` | 2 nodes, 3 clients, 4 heartbeat threads, TTL 2, 1 error; 1.2 million states | TypeOK, CalmLock, HeartbeatsMatchHolders |
| `ConfigShieldRedis_seized` | 2 clients, no error | violation of NeverSeized |
| `SyncBuffer` | lock files and buffer together: 2 nodes, 2 clients, 3 heartbeat threads, TTL 1, clock to 2, 2 lines, 1 fault; 3.4 million states | BufferTypeOK, CalmLock, FaultlessEmptyWritten, CalmBufferIsLog |
| `AlertAggregator` | 2 processes on Redis, 1 standalone, 2 alerts with one key, pages of 1, 2 channels, 2 faults; 210 000 states | AlertTypeOK, ToldOnce, NoneVanishes, EventuallyReported |
| `AlertAggregator_latest` | 1 process, 2 alerts with one key, no fault | violation of LatestSpeaks |
| `CronEngine` | 1 job with 4 definitions and 1 that is rejected, 3 executions, 2 slots, 1 fault; 210 000 states | TypeOK, SlotsAccounted, ScheduleFollowsJobs, ConfirmedSurvives, EveryRunEnds |
| `Agents` | 3 runners, 3 calls, 1 slot, 2 faults; or 3 sockets in 2 sessions, 1 webhook, 1 mention, 2 rounds of a chat; 305 000 states | TypeOK, ExecutedIsRecorded, PoolBound, EveryCallEnds; ConversationTypeOK, TablesMatch, NobodyMissed, GoneIsForgotten |
| `AgentManager` | 2 processes, 3 threads, 2 tool sets, 1 skill, 2 texts, 1 fault; 3.5 million states | TypeOK, QuietIsConfirmed, AnswersMatch, LoneDeleteWorks |
| `Cluster` | 1 worker that beats and may die, 2 watchers, 2 tasks, 2 lost heartbeats, 1 error; 4.7 million states | TypeOK, NoFalseDeath, OrderlyOneRunner |

Why the bounds are enough. In the ledger no operation relates two ids, so one
contended row shows every race; two threads in one process and one in another
give both kinds of concurrency. A cursor that goes wrong needs two rows around
it and a third to move it, a tie in the millisecond and a difference: three ids
and two ticks. A lock needs two nodes; the second client of node A shows what
the state lock is for; TTL and clock bounds let a lease be renewed once and run
out afterwards, and the lock be taken over. Two heartbeat threads on a node are
needed to have two alive. Two alerts with one key and pages of one let two
processes split what is to be deduplicated. A wake-up can be lost only with two
slots and a third execution: one that was woken and has not resumed, a slot that
comes free meanwhile, and an arrival in between. Three calls for one slot let one
command be executed while a second waits and a third barges in; two faults let
mark_completed and mark_failed both fail. A broadcast can skip a
socket of a list of two, and raise when the only socket of another session comes or
goes: three sockets in two sessions. Two threads of one process and one of another
let an agent's calls be serialized by the RLock and raced past it; two tool sets
show an update that is lost and a registry that disagrees; one fault puts a
directory into every half-made state, since a crash may come between any two file
operations. In the cluster an interval of 1, DEAD beyond 2 and a TTL of 4 keep the order
of the real 10, 30 and 45 seconds: one lost heartbeat is survived, two are not, and the key
outlives the verdict; two tasks make a failover that is interrupted between them;
two watchers make two failovers. In the buffer a second append follows a broken one.

The run `Agents` is about two machines, `ToolCalls` and `Conversations`, which share no
variable: a behaviour is one of the former or one of the latter (`MCAgents`), and every
property speaks of one of them.

Symmetry is used for interchangeable threads, watchers, tasks and contents only, in
runs without liveness properties; in `Agents`, which has two, calls and the sockets of
one session begin in a fixed order instead (`BegunInOrder`), which loses no behaviour but
for their names. `CHECK_DEADLOCK FALSE` stands where the instance may come to rest: all
calls of `ToolCalls` ended, all sockets of `Conversations` closed.

Fairness. `AuditShipper!FairSpec`: the shipper's thread runs (weak fairness of its
own steps), and Redis, tried again and again, does answer (strong fairness of
`Execute`; the retry loop has no limit). `AlertAggregator!FairAlertSpec`: the event
loop schedules the task (weak fairness of its steps); faults are bounded, so a
pipeline succeeds in the end. `CronEngine!FairSpec`: the event loop schedules every
execution, and payloads come to an end (the sandbox kills commands at their
timeout, but for what EveryCallEnds excepts; for a conversation with a model it is an
assumption). `ToolCalls!FairSpec`: event loop and timers go on, nsjail's time limit among
them. Nothing is assumed about the commands: neither a shell nor a background process
need ever end by itself. `Conversations!FairConversationSpec`: endpoints go on; models
and tools answer (a tool call that a background process holds would not), and a send to
a stuck client ends (uvicorn's keepalive closes the connection). Nothing is assumed about writers, emitters, stops
and crashes.

What the violation runs show (each is quoted in `PROJECT.json`, "findings"):

1. the audit stream loses rows without any fault: a row of the same millisecond
   whose uuid sorts below the cursor, or one committed late, is never shipped;
2. a Redis heartbeat suspended between GET and SET takes the lease back from the
   node that got it meanwhile;
3. of the alerts of one window with one key the summary keeps the oldest, where the
   comment at `alert_engine.py:145` says the latest (`LatestSpeaks`). The theorem
   `AlertsOldestSpeaks` is what the code does instead.

Also met while modelling, without a run of its own:

* shield: one Redis error ends the heartbeat thread of a working holder for good (the
  loop handles LockAcquisitionError only); a file heartbeat has the same window as
  (2); two nodes that reclaim one stale lock file can both end up holding it, because
  the rename moves whatever is at the path (calm excludes overlapping reclaims); a
  node that dies between creating and writing its lock file leaves a file nobody can
  parse, reclaim or release (`FaultlessEmptyWritten` holds up to then);
* sync buffer: a line left unfinished makes every `read_all` raise until `clear`;
* alerts: a crash of the engine loses the alerts it had taken from Redis, against
  `docs/Phase8_Alert_Aggregation_Engine_Spec.md:54` (`NoneVanishes` names the reason);
* cron: a job rejected with an error stays in memory (`cron_engine.py:164`), is
  persisted by the next save of any job, and makes the next start of the engine fail
  for all jobs (l. 100); a job of an unknown kind, or with a cron expression of other
  than 5 or 6 fields, is stored and confirmed but never scheduled (l. 152), although
  start is said to load all enabled jobs (l. 100);
* tools: a command whose shell has ended but whose background process keeps the pipes
  open is not killed at its timeout (`_kill_process` returns at once, `sandbox.py:157`)
  and holds call and slot as long as that process lives, since the second
  `communicate()` (l. 121) has no timeout; `docs/Sandbox_Resource_Evaluation.md:47` keeps
  the timeout to prevent just that. EveryCallEnds excepts such calls (`Held`). A
  background process that has redirected its output outlives its call, whose entry is
  closed. The nsjail and bubblewrap runners abandon a command whose output they fail to
  read;
* conversations: of several agents that a message mentions only the last runs, once
  per mention (the closure at `message_router.py:68` against
  `docs/PRD_OpsSentry.md:151`); a broadcast that a session joins or leaves ends with
  an exception, and a webhook then is not routed; the results of tools never enter the
  history, so the next turn shows the model tool calls without results;
* agents: `update_agent` validates skills after it has replaced the registry, so that a
  refused update leaves registry and config in disagreement;
* cluster: two heartbeats lost in a row are enough for DEAD (the next comes 30 s and
  two sends after the last), although the node beats on; 45 s after its last heartbeat
  a node is not DEAD but gone from the list; nothing in `src/` writes the task registry.

## 4. The proofs

`OpsLedger_proofs` proves, for any ids, processes, threads, checkpoints and error
texts (assumptions `ThreadAssumption`, `DataAssumption`, `RowAssumption`,
`RequestAssumption` of `OpsLedger`), all five properties the run checks. The inductive
invariant `IInv` adds to TypeOK what each label knows of its request: a thread at
`insert` is creating, one at `emit` marked its id failed before, only an idle thread
has no request. Without it the step of `EmitAlert` could alert anything. The
life-cycle properties follow from `RowChange`: the only steps that change a row
are Insert, Update and Delete, with the guard each evaluates in the same
statement. The refinement maps a step of the statement that takes effect to
`Apply`, an answer to `Refuse` or `Confirm`, a crash to `Die`, every other step to a
stutter.

`AuditShipper_proofs` proves, for any ids, writers, page size, clock and number of
faults (`ShipperAssumption`), the two safety properties of its run, and that the
checkpoint never runs ahead of the cursor. Neither is inductive: `IInv` adds what the page
in memory means (`PageInv`). Its last key is not behind the cursor, every visible
row up to that key is in the stream, late, or in the page, and from `advance` on
the page is in the stream; so Advance, which moves the cursor to that key, passes
over nothing. A Crash moves the cursor back to the checkpoint, which is covered
by the invariant as well, or to the start, which no row precedes. `Order` states
that the query's order is a strict total order; `Sent` what a batch appended to
the stream ships.

`CronEngine_proofs` proves, for any ids, definitions, executions, slots and number
of faults (`CronAssumption`; the executions that exist at one time are finitely
many), the four safety properties of its run. The invariant has three parts.
`RunInv`: the queue holds the executions that wait, each once, every execution
beyond "free" has a job id, and SlotsAccounted. `Woken` says what waking the first
n of the queue does to it and that it takes at most n slots; `PlainStep`,
`QueueStep`, `RunStep` and `WakeStep` are the four ways an execution changes. The
step that matters is `QueueStep`: an execution that starts waiting found `Locked`,
so either the slots are taken or somebody was woken. `IInv`: besides the two
properties, what a restart would load is what was confirmed (`DiskConfirmed`) and a
process that is down has nothing in memory; without the former Start could bring
back anything. `Rest`: the counters. ScheduleFollowsJobs claims a trigger for those
definitions only of which `_schedule_job` makes one (`Scheduled`); the others are among
the definitions the theorem ranges over.

`ToolCalls_proofs` proves, for any number of calls, slots and faults
(`ToolAssumption`), the three safety properties of that module. The invariant `IInv`
says which stages a call with a living shell can be in (`Stages`) and bounds the
calls that hold a slot (`SlotBound`); a shell lives only while its call is running
or about to kill it, and until then the entry, which TypeOK ties to the stage, is
running. The theorems hold for each of the runners.

`Cluster_proofs` proves, for any nodes, tasks, senders, interval, delay, thresholds and
TTL (`ClusterAssumption`, and `TimingAssumption`: a sender that is on time and loses
nothing is not DEAD), all three properties of its run. `TimeInv` bounds the age
of a key by the heartbeats lost since it was written and by what has passed of the
current round (`AgeBound`), and a timestamp by the time since the thread woke up
(`OnTime`); without the second a heartbeat could write a key that is old already.
NoFalseDeath follows (`TimelyIsAlive`). `TaskInv` then needs it: a node that is seen DEAD
in orderly times does not beat (`DeadIsSilent`), a node that does not beat executes
nothing (`Careful`), the snapshot of a failover names tasks that are still the dead
node's, and no other failover is about that node (`Settled`); so `Release` takes a
task from nobody who executes it (`ReleaseTasks`), and the registry names the only
node that does (`Owners`).

`AgentManager_proofs` proves, for any processes, callers, tools, skills, texts and
number of faults (`AgentAssumption`), all four properties of its run. `Frame` says who is
inside: a caller that is not idle has the lock of its process, only writers have
temporary files and are at the labels that touch the disk, no directory means no
files. From it follows what carries the rest, `LoneWriter`: a writer that no writer
of another process overlaps is the only writer there is. So the others cannot
disturb it (`Passive`, `Undisturbed`), and `Work` says how far it has come: the files on the
disk together with those still in `todo` are the agent it will answer (`Leads`,
`ReplaceLeads`, `UpdateLeads`), whatever the directory held before if it creates, and
what its scan has listed is what is there if it deletes. `Known` ties `told` to the
disk while nobody writes, and to what readers have seen.

`ConfigShieldRedis_proofs` proves, for any nodes, client and heartbeat threads, TTL and
number of Redis errors (`ThreadAssumption`, `LeaseAssumption`; `None` is no record), the
three properties of its run, and that in calm times no record is replaced by another
acquisition's, which outside them the run `ConfigShieldRedis_seized` refutes. The
invariant `LockInv` has three parts. `Types`: besides TypeOK, a thread inside a command
holds the state lock of its node, so no other thread of the node is inside one. `Entries`: the
dictionary names the only heartbeat that was not told to stop, dead or alive, and one
that is alive has a thread to work for; HeartbeatsMatchHolders follows, and needs nothing
of Redis. `Leases`: in calm times the record is the owner's from SET NX to DEL, the owner's
entry names a heartbeat that is alive, and what a heartbeat is about to write is what Redis
holds. CalmLock alone is not inductive: without the entry a lease could run out under a
working thread, without the last part HeartbeatSet could put an older record back.

`SyncBuffer_proofs` proves, for any nodes, threads, lines, clock and number of faults
(`FileAssumption`, `BufferAssumption`; clients are finitely many), the four properties of
its run, and HeartbeatsMatchHolders with lock files. `LockInv` differs from the Redis one
where files differ: `OneOwner` has the owner's file empty while it is written and fresh
afterwards, and `NothingStale` says why nobody takes it away: in calm times an attempt
sees the clock it started with, one reclaimer at most is between the stale check and the
end of its call, the record it is about to rename is still the stale one, and no heartbeat
is on its way with a stale record. `BufferInv` adds `Whole`: whoever is in the middle of an
append has its first chunk in the unfinished line, and each fault has cost one append
at most, one that returned or the one that will be glued to an orphaned chunk.
`acked + Cardinality(Halves) <= MaxLines` keeps the bound of the model when several appends
are under way, outside calm times; for this the clients must be finitely many.

`Cluster_proofs` proves in its second half, for any alerts, keys, processes, channels, page
size and number of faults (`AlertAssumption`; a channel stands in the list once), the three
safety properties that the run `AlertAggregator` checks, and OldestSpeaks, what the code
does where `LatestSpeaks` is violated. `Apart`: no alert is in two buffers or batches,
and what a channel got is in no buffer and in no batch that is still to reach that
channel; ToldOnce, which alone is not inductive, is preserved by Send because the position
`next` of a batch separates the channels it has been sent to from the others. `InOrder`:
buffers and batches are in the order of emission, and what a process holds was emitted before what is
left in its buffer; this makes the pages of one list a batch in order (`InOrderTakes`).
`FirstSpeaks` is the lemma about `Aggregate`: in a batch in order, every alert has one of
its key that is kept and is no later, by the least index with that key (`LeastNumber`, from
the library's well-foundedness of <); OldestSpeaks says this of every summary that was sent.
`Accounted` is NoneVanishes as an inclusion of sets, and each step moves alerts between them
(`AccountedMoves`, `DropAccounts`).

`ToolCalls_proofs` proves in its second half, for any sockets, sessions, webhooks,
mentions and rounds (`ConversationAssumption`; the sockets that exist at one time are
finitely many), the three safety properties of `Conversations`. TablesMatch is inductive
with the types. NobodyMissed is not: it speaks of the end of a broadcast. `Sound` says
what holds while one is under way: it stands in a list that is there; while no key came
or went it knows how many there are; and every socket it still owes the message is
registered, under a key it has not visited, or in the list it is sending to, at or behind the
position it continues with. Each walk and each change of the lists keeps this
(`WalkFine`, `NextKeyFine`, `JoinFine`, `ForgetFine`); the case that matters is `ForgetFine`,
where a removal before the position moves the socket that was next behind it: that one,
and no other, is skipped. `Removed` states what RemoveAt does to a list without
repetitions. When all keys have been visited nobody is owed anything; and as the number
of keys can differ only if one came or went, a steady broadcast is not broken.

Model-checked only: the liveness properties EventuallyShipped, EventuallyReported,
EveryRunEnds, EveryCallEnds and GoneIsForgotten. Liveness under fairness, ENABLED and
induction over data are out of the prover's reach.

## 5. What is not modelled, and the plan

Left for later:

* operations: the one-off migration of a JSONL ledger (`_migrate_from_jsonl`,
  `ops_ledger.py:35`), the Redis subscriber behind the WebSocket manager, appends to
  session files, the senders of the channels;
* proofs: that both locks implement, in calm times, one abstract lock with an owner,
  step by step as `OpsLedger` implements `LedgerService`; `LockInv` of either is the
  invariant this needs.

Not modelled, and why: EvolutionManager, KnowledgeCore and SkillLoader turn text into
text and keep it in files one caller writes; HTTP routers parse a request and make one
call of a component above; authentication and the key vault are lookups; which
commands a policy level refuses is pattern matching; the start-up code, scripts, demos
and configuration have no state of their own.
