# Remote jobs: a TLA+ model of the dispatch app, its workers and its logs

This directory models the Nautobot remote jobs app, its workers and the SDK that
jobs are written with (`src/`): the dispatch engine on the server, fan-out
parents, schedules, the placement of runs and the wake-ups of workers, credentials
and calls through the gateway, the agent that executes a run, and all that comes
out of it: console lines, log entries, artifacts, text with secrets in it; and
the command that publishes definitions.  TLC checks each model on small
instances; the theorems in the `*Proofs` modules hold for every value of the
constants.

## 1. The system

A user submits a *run* of a *job definition*.  The app stores it as a
`RemoteJobRun` row (PENDING, in a *zone*) next to a core `JobResult`.  *Worker*
agents outside Nautobot hold a WebSocket to a *gateway*, which relays JSON-RPC
frames through Redis pub/sub to a pool of *bridge* threads in the app.  An agent
claims runs, executes each as a container, reports status (which renews its
lease) and completion, and ships logs over HTTP or Kafka.  A beat task reaps
leases that expired.

| Component | State it keeps | Operations | Interacts through |
| --- | --- | --- | --- |
| Run and mirror, `models/runs.py` | run row, JobResult row | `transition`, `sync_job_result`, `refresh_parent_state` | called by all of dispatch |
| Dispatch engine, `dispatch/claims.py`, `rpc/handlers.py` | owner, lease, token of a run | `job.claim`, `job.status`, `job.complete`, `worker.hello` | rows, definition rows, row locks |
| Tokens, `dispatch/tokens.py` | `users.Token` rows | mint, delete | claim and every path that ends a run |
| Reaper, `dispatch/reaper.py` | none but its lists | `reap_expired`, `_reap_wait_timeouts`, `abandon_run` | rows, SKIP LOCKED |
| Cancellation, `cancel.py` | the cancel flag of a JobResult | `cancel_run`, `_cancel_children`, the core strategy | rows, a push over Redis |
| Submission and zones, `dispatch/submission.py`, `dispatch/zones.py` | none | `submit_run`, fan-out, failover | creates rows |
| Workers, `models/workers.py`, `crypto.py`, `api/` | credential generation, enrollment tokens, last seen | enroll, rotate, authenticate, drain | REST, `worker.rotate` |
| Schedules, `models/schedules.py`, `tasks.py` | last_run_at | `dispatch_scheduled`, edits of a row | Celery beat, submits runs |
| RPC bridge, `rpc/bridge.py` | a thread pool | one frame per thread | Redis, handlers |
| Presence and nudges, `Worker.touch`, `dispatch/notify.py` | last_seen, the claim loop's event | hello, status, claim; job.available | rows, Redis |
| Gateway, `gateway/` | pending replies per connection | handshake, relay, reply timeout | WebSocket, Redis |
| Agent, `worker/remote_worker/agent.py` | runs, journal, drain flag | claim loop, supervise, recover, cancel, complete | gateway, container runtime, sink |
| Console, `worker/remote_worker/runtime/`, `_pump_console` | a queue of lines, two pumps | follow a container's logs, drain them at its end | container engine, sink |
| Sinks, `worker/remote_worker/sinks/` | buffers, sequences | batch, send, retry, drop | ingestion API, Kafka |
| Ingestion, `api/ingestion.py`, `api/worker_views.py`, log consumer | written entries, dedupe cache, artifact rows, storage | write a batch once; slot, content and completion of an artifact | HTTP, Kafka |
| SDK logs, `sdk/.../logs.py`, `job.py` | entry buffer, sequence | log, flush every 2 s, final flush | ingestion API |
| SDK secrets, `secrets.py`, `redaction.py` | provider registry, known values | `get`, redact what is written | REST API, files, environment |
| SDK artifacts, `artifacts.py` | none | `upload` | artifact endpoints |
| Publish command, `sdk/.../cli/publish.py` | none | resolve a digest, create or change a definition | registry, REST API |

What is hard about it:

* **Concurrency without a common lock.**  Claims, frames, the reaper, users and
  hellos all move the same rows.  Some paths lock first and read after; others
  read, then lock, then check less than they read; `worker.hello` does not lock
  at all.
* **Write skew.**  Singletons and fan-out parents relate several rows at READ
  COMMITTED.
* **Failure.**  Leases expire under live agents, replies are lost, agents and
  server threads die between two statements.
* **Lost wake-ups.**  An idle agent claims when it is told to and never by a
  timer; nudges are published before and after commits, and lost.
* **Credentials.**  A rotation is valid when it is saved, not when it arrives.
* **Order and repetition.**  Frames are handled by a pool, delivered twice or
  never; retried batches, uploads and writes race their originals, which go on at
  the server when their client has turned away.
* **Read, then save all fields.**  Rows are loaded, changed and saved whole, so
  an edit can undo what a task or another command wrote in between.

What makes it correct, per component: a run follows the life cycle of SPEC 6.1
and is handed out at most `retry_max + 1` times; a settled run stays settled; a
token lives exactly as long as its claim; the JobResult mirrors the run;
singletons exclude each other; expired leases and wait budgets are acted on, and
queued runs claimed; a parent settles exactly when its children have, and never
again; cancelling it reaches every child; a due schedule has its turn, and not
more often than it says; a run is not left queued beside an idle
worker that may take it, and runs only where its policy allows; a single-use token
makes one worker; worker and app do not lose each other's key; a log line is
written once, or dropped only with a log of it; the digest of an artifact is that of
its content; a secret that is printed is masked; a published definition is the one
that the command reported.

## 2. Modules

| Module | Models |
| --- | --- |
| `RunStates` | states, transition table, status mapping; constant-level |
| `RunLifecycle` | the abstract life of a run: what the engine promises |
| `Dispatch` | the engine for runs without a parent, at the grain of transactions and of unlocked statements |
| `FanOut` | a parent and its children, `refresh_parent_state` one statement at a time |
| `ClaimScan` | one claim after another over a queue: the window of candidates, row and definition locks, their deadlocks |
| `Schedules` | `dispatch_scheduled` in several executions, edits of the rows |
| `Console` | a container's two streams up to the sink, and the end of `_supervise` |
| `LogPipeline` | its lines from the sink to the database, over HTTP or Kafka |
| `LogRestarts` | the same with restarts and retries, which start the sequence anew |
| `Placement` | submission, zones and failover, presence, nudges and the claim loops of several workers |
| `Sessions` | enrollment, handshake, rotation, and calls through gateway and consumers |
| `Agent` | one worker: claim loop, run tasks, containers, journal and connection, against the server |
| `JobLogs` | the SDK's log client under the life cycle of a job, and the endpoint for its entries |
| `Secrets` | look-up of secrets, provider plugins, redaction |
| `Artifacts` | uploads of one artifact name, against the three endpoints |
| `Publish` | several runs of the publish command for one definition |
| `Outputs` | what comes out of a job, part by part: `LogPipeline`, `Console`, `JobLogs`, `Artifacts`, `Secrets`; and `Publish` |
| `DispatchProofs`, `FanOutProofs`, `AgentProofs`, `LogPipelineProofs`, `SchedulesProofs`, `PlacementProofs`, `SessionsProofs`, `OutputsProofs` | the theorems about the module of that name |
| `MC_Progress` | `Schedules`, `Dispatch` and `ClaimScan` with their progress properties, side by side |
| other `MC_*` | instances of one module for TLC |

Operators named `X_Something` are faulty variants of the operator `X` that
follows them: what a plausible slip in the code would do.  They are not part of
any specification; substituting one for `X` must break the property named for
it in `PROJECT.json` ("mutants"), which shows the property depends on that code.

### 2.1 Dispatch

State: `run` is the row (state, worker, attempt, lease, token, and whether its
wait budget has passed); `result` the mirror; `live` the token rows that exist;
`minted` how many were; `draining` the workers; `th` what each bridge thread is
doing with the instances it holds in memory; `reapList` and `waitList` the lists
of reaper passes under way.

The grain is the database's.  A transaction that locks its row before reading it
is one action (`Cancel`, `ReapOne`, `FailWaiting`, and the second halves
`ApplyStatus`, `ApplyComplete`).  A claim transaction is two, `PickRun` and
`CommitClaim`, because the locks it holds in between are what others wait for or
skip.  What happens outside a transaction is one action a statement: the capacity
read (`BeginClaim`), the ownership read (`ReadOwned`), and the five writes of
`abandon_run` under `worker.hello` (`AbandonSave` to `AbandonResync`), with the
values of the instance read at the start (`copy`) and not of the row.

Any worker may send any frame at any time, again and again.  That covers lost
replies, retries, duplicated and reordered publications.  `Crash` ends a thread
at any statement: transactions roll back, single statements stay.

Constants select the code paths: `StaleHello` is whether a hello may leave out a
run the server thinks the worker holds, `CoreCancel` whether this Nautobot has
the core cancel factory (3.2.0b1 has not).  With both FALSE every abandon holds
its row.  The properties of `dispatch_locked` need that: with `StaleHello` a hello
overwrites a run that completed after it was read, and settled runs start over.

The row lets go of its token before the token is deleted, and a deletion that fails is
only logged (`Drop`): for the runs in `DeleteFails` it may, and then the token stays
until it expires.  `TokenLifecycle` excepts such tokens: the row still names the one of
its claim, and none when there is no claim.  An error of the database in that place is
another matter: Django then undoes the whole transaction when it ends, although the
caller goes on.  To the engine that is a step that did not happen; the agent, which may
be told OK, has it in `Undecided`.

Left out: the worker name and dates of a JobResult, log lines, published events,
`Worker.touch`, changes of capacity by a hello, a disabled worker (it is refused
like a draining one).  A scan of the candidates is one step here; its locks and
its limit of 20 are in `ClaimScan`.  OFFERED is never written by the code.

### 2.2 FanOut

Each child's own life is that of `RunLifecycle`, which `Dispatch` refines
(`FanOutProofs!ChildrenImplementLifecycle`), so
the module can concentrate on the parent.  The transaction that ends a child is
`End`, `FetchParent`, `ReadSiblings`, `Commit`; between them other transactions
take their steps, since nothing locks the parent.  `CancelParent` terminates the
parent and leaves a to-do list that `CancelChild` walks.

`worker.hello` abandons a child without a transaction: `Hello` reads it,
`AbandonSave` writes ABANDONED, and `AbandonRequeue` PENDING when the copy read at
first has attempts left; else the parent is refreshed, a statement at a time.
Between the two writes the child counts as ended, and a sibling that
completes derives FAILURE for a parent whose child is about to start over; a later
refresh may even change that verdict.  The ghost `misled` says that a hello wrote a
child when the parent had settled, or a transaction about to commit had a verdict in hand.
`ParentSound` and `VerdictFinal` hold until then, and neither holds without
that exception: TLC finds both broken when it is taken away.

`Hellos` names the threads that may serve a hello.  A hello that leaves out several
children is several hellos.  The parent's JobResult follows it in the same
transaction and is left out.  A cancelling web request is assumed not to crash
between two children.

### 2.3 LogPipeline and LogRestarts

State: `pos` is how far the pump has read the container's output; `sink` the
`BatchingLogSink`, with its buffer and its sequence; `batch` the delivery that
holds the sink's lock; `requests` the calls of `write_console_batch` under way;
`cache` the deduplication marks; `db` the rows, batch by batch; `topic` and
`consumer` the Kafka partition and the consumer's offsets.  `dropped` collects
the lines whose loss somebody logged, `shared` the batches for which a duplicate
is excused.

The sink lets go of its lock only when a batch was delivered or given up, so one
`batch` is enough; but a POST lives on in `requests` after its client stopped
waiting, and look-up, write and mark are three steps, so a late call races its
retry and the batches after it.  A `Timeout` stands for a lost request, a lost
reply and a slow server alike.  `HandlerDies` and `ConsumerDies` end a call at
any of the three steps.

A line that fills a batch is sent by the pump itself, and the supervisor cancels the pump,
10 s after the container's exit or with the run's task.  `CancelPump` is that: the batch
in hand is gone, no handler logs it, and a POST on its way goes on at the server.  `cut`
collects its lines.  `Accounted` and `Delivered` except them, and the code loses no other
line in silence.  A line the pump waits for the sink's lock with is not read yet in this
module; it is among those that `Console` cuts off (`DrainTimeout`).

One run and one kind of entry are modelled: kinds share nothing but the counter,
and marks are per kind.  Left out: the byte limit (like the entry limit it only
ends a batch), batches the server refuses for their size, HTTP 429, which is
retried like a 5xx, a consumer group with several members.  Marks do not expire: a
day is longer than the seconds in which a batch is retried.  The SDK's own log
entries are in `JobLogs`.

`LogRestarts` adds two ways to a new sink: the agent restarts and reads the
container's output from the start again, and the run is retried.  A third, a hello
with another configuration, is left out: `close` cancels the flusher wherever it
is, and a batch it was sending is gone without a log line.

### 2.4 Agent

State: `row` is the server's side of each run, `mine` saying whether this worker is
its owner; `frames` the calls of the agent, `alive` while its caller waits;
`conn` and `wanted` the session; `task` the run's coroutine, as far as it has come;
`journal` the attempt of the journaled offer; `ctr` the container that carries
the run's name.

The server is `Dispatch` with each frame handled in one step: what its races add is
checked there.  It answers with `ok`, with a cancel request, with `gone`
(UNKNOWN_RUN, LEASE_EXPIRED: the container is to be killed) or with `error`
(ILLEGAL_TRANSITION).  Or, to a completion, with nothing that decides it (`Undecided`): its
handler raised and undid what it had done (INTERNAL_ERROR), the gateway refused the frame
(ERR_RATE_LIMITED) or had waited long enough (ERR_UPSTREAM_TIMEOUT), in which case the
frame may be handled later.  The agent takes any answer for the verdict, drops the entry,
and the server waits for the attempt until its lease ends: `NothingForgotten` excepts
exactly the completions so answered (`acked = "guess"`) and no others.  `Environment` is everybody else: the reaper, other workers, users.

A call is a record of its own, so calls are handled in any order, as the bridge's
thread pool may.  When its caller stops waiting (`Disconnect`, `CallTimeout`,
`Restart`, or the end of the status loop in `ObserveExit`), an unhandled call is
lost or stays as one that nobody waits for and may be handled at any later time,
when the worker holds the run's next attempt too.  An answer nobody waits for is lost.

A run's task is one action per call it makes to the outside: `Journal`,
`Create` (which fails if the name is taken), `Start`, `SendStatus`,
`ObserveExit`, `SendComplete`, `RemoveContainer`, `DropEntry`.  `Restart` stops it
between any two, and containers and journal survive.  Cancel, kill and deadline are
the three ways the agent ends a container; a SIGTERM that the container
obeys and one that it does not are told apart by `Exit` and `Stop`.  A cancel that meets
`recover()` before it has the handle only marks the run (`stop = "mark"`): the container
runs on until a status poll brings the request again.

Left out: draining, console output (`Console`), a runtime that fails to look up,
kill or remove a container, a journal that cannot be read, the second's difference
between the two 30 s timeouts of agent and gateway, `worker.rotate`.  Once the
recovery lookup fails, `recover` reports FAILURE and drops the entry of a container
that may be running.

`EarlyPush` says whether a `job.available` may reach the agent before the answer to
its hello.  The gateway relays as soon as the socket is authenticated, so nothing
forbids it.  With it `ContainersKnown` is false: the agent claims a run it has
journaled but not yet recovered, which has no task, so the offer is accepted,
the container's name is taken, the run is reported as FAILURE, the entry dropped, and
the container goes on unknown.  The run checks that this push is the only way.

Three more things the model shows and no property forbids.  A late completion of
attempt 1 settles attempt 2 when the same worker holds it; the container of attempt 2
then runs to its end, because the status loop answers ILLEGAL_TRANSITION with a log
line.  A hello handled after a claim that was sent later abandons the run just
claimed, since the hello does not name it.  A run whose container ended while the
agent was down, past the run's deadline, is reported as timed out after recovery,
whatever its exit code.

### 2.5 Placement

State: `run` the rows, named by submission and devices, with zone and worker; `row`
what a submission reads of a worker, `fresh` meaning a last_seen within
`worker_ttl_seconds`; `agent` the claim loop of each, `wanted` its event; `claim` the
one `job.claim` it may have under way, with the transaction that serves it;
`reaped` the runs inside a reaper's transaction.

A submission is one transaction and reads committed rows (`PlaceOf`, `NewRuns`); its
nudge follows the commit and reaches who is connected (`Nudged`), or nobody.  A
claim is cut where another party can come between: `SendClaim`, `Serve` (drain flag
and free capacity), then for each offer `Scan` and `Grant`, then `Receive`.  `Scan`
locks every row the query returns.  The reaper's transaction is `Reap` and
`ReapCommits`, because the nudge goes out in between.  Once a run is claimed only
`Finish`, the reaper and a hello matter here.

A zone covers the devices that one of its membership rules fits (`MatchesDevice`): a rule
gives values for some of four criteria, location with or without its descendants, and
must be met in each it gives; a rule that gives none fits no device.

`agent.missed` is a ghost: it records that an agent lost a wake-up in one of the ways
the code lets it: the publication failed, its claim failed or was cut short by a
slot whose offer was lost, or it looked while the rows were locked or not yet
committed.  `WorkConserving` says these are all the ways there are.  They are hazards
of their own: in each the run stays queued beside an idle worker until something
else wakes it.

Left out: singletons (`Dispatch`), the window of 20 candidates (`ClaimScan`),
disabled workers and zones that change, validation of inputs and approval, a hello
that changes capacity or capabilities, two claims of one agent at the server at once
(`Dispatch` allows them).  Children of a fan-out submission get no failover, as in
the code.

### 2.6 Sessions

State: `worker` the rows, as generation, switch and origin; `token` the enrollment
tokens; `posts` the enroll requests the server let in; `agent` an agent's key in
memory, its key on disk and its connection, numbered; `bridges` the gateway's
side of connections, which may outlive the agent's; `calls`, `frames` and `answers` a
request on its way: from the agent, to each consumer, and back.

A request is read by the bridge (`Forward`; `Refuse` over the rate, which names the call,
`Oversize`, which names none, so that the caller waits on), published to every consumer,
read there (`Read`) and handled (`Handle`) in two steps, because the worker's row
is not locked; its answer meets the bridge's future, or the timeout has taken
it away (`Upstream`).  The agent's own timeout (`CallTimeout`) and its lost
connection (`LinkLost`) make it deaf to an answer; a bridge that closes
(`BridgeCloses`) forgets its futures.  All requests are `worker.rotate`; others take
the same way.

The old secret is invalid at once, so an agent that is not told of the new one can never
connect again; SPEC.md 7.2 says "old one invalidated after ack".  `fate` is a ghost: what
became of the worker's key in force.  `told`: an answer that carries it is on its way or
was read.  `lost`: nobody reads its answer.  `again`: a consumer issued it for a call
that was answered already (`served`).  Every key has a fate of its own, so an agent
that was excepted once is not excepted for good.

`KeyKept` says a key is lost in these two ways only.  The second needs no failure: two
consumers get every frame, read the worker without a lock, and the slower one saves a
generation that nobody is told of, or an older one, after the agent has adopted the first
one's.  Both exceptions are needed: TLC finds `KeyKept` violated without either one.  With one
consumer the second is impossible (`SessionsProofs!OneConsumer`).  Restarts, reconnects,
timeouts and the order of reads and saves lose no key otherwise.

Left out: nonces and timestamps, the REST use of the secret, a corrupt state file,
the deletion of a worker by an operator.

### 2.7 Schedules

State: `row` the schedules there are, enabled or not, with last_run_at; `beat` the
executions of `dispatch_scheduled` under way, each with the `now` it read first and the
due rows it has yet to submit; `form` a request that has loaded a row and will
save it; `runs` the minutes a schedule submitted at.

An execution is one action a step: `Start` reads the clock, `Fetch` the rows, then
for each due one `Submit` (a run, a refusal, or an exception that ends the execution)
and `Save` (last_run_at); no transaction holds the two together.  `Die`
ends it anywhere, and the task is not run again.  `EditSave` saves all fields of
the row as loaded, so an edit may put an old last_run_at back.

`overlap` is a ghost: two executions had the schedule at once, one died between the
run and the save, or an edit undid a save.  `SpacedOut` says these are the
only ways to more runs than the interval allows.  `DueSubmitted` has two
exceptions of its own.  `clean` accepts any five fields, croniter may not, and then
`is_due` raises and every schedule that comes later by name is never reached.  And only
SubmissionError is caught: any other exception of `submit_run`, for a device id that is no
UUID, say, ends the execution once last_run_at is saved.  `behind` is a ghost, the due rows
it left; a row is taken out when an execution picks it up again, so a schedule waits for
ever only behind such exceptions without end.  An every-minute schedule of that kind
makes them, minute after minute.  The instance cannot show that: its clock stops at
`MaxTime`, so no schedule there is left without end.  `behind` is in the property
so that it does not rest on that bound: it claims nothing for such a row.

What a submitted run becomes is not looked at.  A crontab is given by the times it
matches (`CronNext`), the calendar arithmetic of the library is left out.

### 2.8 ClaimScan

State: `state` of each run (pending, ended, or who has it); `scan` of each worker:
what is left of its budget, the candidates locked and those it has yet to look
at, the definitions it has locked and those it knows to be held.

`Select` is the query with SKIP LOCKED and its window.  Then each candidate is passed
over, or taken, or its definition is locked first (`LockDefinition`, a wait) and
looked at (`CheckHeld`).  Definition locks stay until the transaction
commits, so two scans that meet two singletons in different orders wait for each
other; PostgreSQL breaks it (`Abort`), and the frame fails.

No agent is bound to ask: the claim loop waits for an event, and a call that failed is not
repeated.  So `QueueMoves` is conditional.  If the workers that can do a queued run claim
again and again whenever they have room (`Asks`), it is claimed in the end, but for four
things: its definition has a fan-out
parent, which is RUNNING and counts as holding the singleton, so that even its own
children wait until their budget is over; a full window of runs that this worker
cannot take lies before it; scans of other workers, which cannot do it, hold its
row whenever it is looked for; claims deadlock again and again.  Without the condition
there is a fifth, the wake-up that is lost or used up, which is `Placement`'s subject.

A definition has one fan-out parent at a time; a claimed run ends for good.

### 2.9 Console, JobLogs

`Console`: each stream of a container has a `pump` that puts lines into a bounded
`queue`; `Finalize` adds the end when both are through; `console` takes lines
out and emits them.  `supervisor` waits for the container, kills it at the deadline,
and drains for 10 s at most.  An agent that dies leaves the container running,
and the next one reads its logs from the first line.

`ConsoleComplete`: each attachment emits each stream in order from the start
without a gap, and a drain that ended by itself means the container has exited
and all it printed was emitted.  `DrainTimeout` and `LogFails` lose lines without
a log of it; the property excepts them.

`JobLogs`: `proc` is the job's process in each attempt, through `job.main`'s life
cycle; `post` the request it waits for under the buffer's lock; `calls` what is at
the server, also when nobody waits any more.  `Flush` has three callers: the thread
that logs, the flusher and `stop`; any may find the lock held.  At the server
`Check` (token, size, sequence), `Write` and `Mark` are three steps, as in
`LogPipeline`.  The numbers begin at 1 again in each attempt.

`EntriesAccounted`: a process that ended by itself has every entry from before its
final flush stored or warned of, or (`replayed`) the server took its batch for one of
an earlier attempt.  A killed process loses what it had buffered.

### 2.10 Artifacts, Secrets, Publish

`Artifacts`: an upload is three requests (slot, content, completion), each retried;
the digest is computed first and the file read again by each PUT.  The storage never
overwrites, so a repeated PUT stores a second copy, and the row points to the one
saved last.  `alone` is a ghost: no other upload of the name was under way.
`UploadedMatches` says that then, if the file did not change, the digest is that of the
stored content, late and repeated requests included.  With two uploads at once it
need not be: the row may have the content of one and the digest of the other.

`Secrets`: a text is a sequence of fragments, a value a text.  `get` is one action per
request and one per step of the provider registry, whose flag is set before its entry
points are loaded: a second thread finds its provider unknown meanwhile.  `Write`
is what the job prints or logs; `Redacted` replaces the known values, longest
first, and `Redactions` has one result for each order of values of one length.  `Masked`: what comes out has neither the value nor a fragment of it.
Excepted are values that overlap another's end, where the longer one is replaced
and a rest of the other stays.  The mask is a fragment of its own and in no value
(`RedactionAssumption`): a value that is part of "(redacted)" cannot be hidden by writing it.

`Publish`: the command resolves a tag to a digest (with its challenges), looks the
definition up by name and sends PATCH or POST, which the REST library retries.
`Load` and `SavePatch` are two steps, since Nautobot reads a row and saves all its
fields.  `PublishHonest` ties the exit code to what was written; the exception
(`muddled`) is a lost reply, since a repeated POST is refused by its own first one.
Visible in the model, and forbidden by nothing: fields that left the manifest keep
their value, and a pinned definition cannot be created by the command, because it
never sends a zone.

Left out of these: several runs and names, the 24 hours of a mark, oversize
files (a refusal), presigned URLs (no backend gives them), more than one access and
secret type, parameters with templates, what a job writes past `sys.stdout`,
manifests that cannot be read.

## 3. Runs

| Run | Result | What it shows |
| --- | --- | --- |
| `dispatch_races` | holds | with every unlocked path and crashes: singletons exclude each other, row shape and retry bound survive, claims are granted on queued unowned rows only |
| `dispatch_locked` | holds | with locked abandons: token life, mirror, retry budget, refinement of `RunLifecycle` |
| `dispatch_progress` | holds | due schedules are submitted, and not too often; expired leases and wait budgets are acted on; queued runs are claimed |
| `dispatch_owner` | violated | a completion checked before a reap and applied after the next claim |
| `fanout_derive` | holds | parent verdicts are right and final but for a hello at the wrong time, a cancel reaches every child |
| `fanout_stuck` | violated | the last two children complete together and the parent never ends |
| `logs_deliver` | holds | console lines and log entries are stored, in order, or their loss is accounted for, duplicates only where two calls overlap or a process dies; artifacts match their digest; secrets are masked; the publish command tells the truth |
| `logs_replay` | violated | after an agent restart a batch of new lines is taken for a replay |
| `agent_sound` | holds | a container has a journal entry; no attempt is dropped that the server still counts on; an unwanted container is stopped; an ended run frees its slot |
| `placement_queue` | holds | an idle agent that missed no wake-up leaves nothing queued that it may take; runs stay where their policy allows; each device is in one child |
| `presence_idle` | violated | a connected worker without work is OFFLINE after the TTL, and a run it could take is refused |
| `sessions_keys` | holds | one worker for a single-use token; a key is lost with its reply, or to a second consumer, only; one answer a request; an agent that holds its key reconnects |

`MC_Progress` and `Outputs` are sums: their parts share no state, the
variable `part` picks one at the start, and the others stand still.  Each part is
explored completely from its own initial states; a property of one is trivially true
in the others.  They answer one question each: what gets done in the end, and what
becomes of what comes out.

**Bounds.**  Two runs, two workers and two or three threads are the smallest
numbers at which the races exist: a race needs two actors and at most one more
that moves the row between their steps.  `dispatch_races` uses one singleton
definition, one retry, and offers of two, so that a claim loop continues;
`dispatch_locked` three threads, so that a stale frame, a claim and an abandon
overlap, and `MaxClaims = 3`, one more than the retry policy allows, so that the
bound does not hide an extra claim.  It reports SUCCESS and TERMINATED (FAILURE is settled
like SUCCESS), and the deletion of its tokens may fail.  The runs users cancel, the workers operators
drain, the reported states and the threads that crash are named constants and
are given in full where the instance affords it.

`dispatch_progress`: two schedules, one that starts late with an unreadable crontab,
both matching minutes 1 and 2, `MaxTime = 2`, so that one run comes after another;
two executions, one death, one edit.  The clock stops there and the executions go on,
so whatever is due must still be submitted or tried.  The engine has two runs, one that waits
with a budget and one retried, one worker and one thread, and neither crashes nor
hellos.  The claims have two workers, one with two slots, a window of two
for the code's 20, and two queues: two fanned-out singletons queued in an
order that makes scans deadlock, and a singleton among runs that only one worker, or
none, can do.  A window of two fills with two runs as one of 20 does with 20.

`fanout_derive` has two children, three transactions, one of them a user's cancel or a
hello.  Two children suffice for a refresh that misses a sibling or sees one in between.

`logs_deliver`: in the pipeline two lines, in one batch or two, so that order is at
stake; two attempts, so that a call and its retry overlap and the batch can still be
given up; one death.  (The violation `logs_replay` needs a third line or a second sink
and no death.)  The console has two lines a stream, a queue of two and two
attachments: a full queue, an end that waits, a restart.  The entries come from two
attempts of two entries, with batches that fill or are flushed, one entry too
large, one retry and two failures.  Artifacts: two uploads of one name in two attempts, one
failure, one change of a file.  Secrets: a value, one within it and one that begins with
its end, from three kinds of provider, two threads, one edit.  Publish: three
commands, one for each kind of registry, one with the digest given, one pinned; a tag
that moves once, one edit, two failures.

`agent_sound` has one run of two attempts, because all four properties are about one
run and the runs of an agent share only its slots; two faults of any kind in any
order, so that a restart hits a reconnect; one frame nobody waits for, which can be
from an earlier attempt.  Two runs with one slot and no late frame give the same answer.

`placement_queue` has two workers in one zone, so that they compete and one can be
told what the other takes, an empty zone that fails over to it, rules of both zones that
overlap on a device, and any two of five submissions: zone-local, movable,
anywhere, split by zone and split by device.  One fault of any kind.  Both workers can do
every run of their zone, so of `RunsWhereAllowed` the run tests the submission's side; for
workers in several zones there is the theorem.  `sessions_keys`
has two agents with names of their own and one single-use token, two calls, so that
two rotations overlap, two consumers, and one fault.

**Deadlock** is checked in the `Dispatch` and `Agent` runs.  In the `FanOut`, log,
`Placement`, `Sessions`, progress and output runs a submission, a container's output, the
clock, or a bounded number of submissions and calls come to an end, and the system may
stop there.  Symmetry over threads and workers is used in safety runs; no property
names one of them.

**Fairness.**  `FairReaper`: the beat fires every 30 s and a pass walks its list
to the end; a row it finds locked is skipped and met again, hence strong
fairness.  `FairThreads`: a pool thread goes on with the frame it took.  No
worker is assumed to do anything.  In `FanOut` threads go on, and a child whose
claim is possible again and again is claimed, which favours the code.

In `Schedules` the beat goes on sending the task and an execution goes on.  In `ClaimScan` a
claim that has come in goes on, whether one comes in is left open, PostgreSQL ends one of a set of
deadlocked transactions, and runs end; all of it weak, so that a run passed over
again and again is not claimed by assumption.

In `LogPipeline` the flusher polls twice a second (`FlushExpired`), a POST ends by
a reply or after 15 s (`Send`), a request that was accepted is executed unless its
process dies (`Serve`), and the consumer keeps polling (`Ship`).  The container
need not write anything, and `Delivered` asks only about lines that were read.
The other parts of `logs_deliver` have safety properties only.

In `Agent` the agent reconnects (its backoff is bounded), a journaled run is recovered
(`Recover`), the status loop polls every 25 s (`StatusStep`), a SIGKILL arrives (`Stop`),
and an ended run is reported and cleaned up (`CompleteStep`).  Frames that are not
lost are handled.  Faults are bounded: an agent that restarts for ever frees nothing.
Containers need not end, and claims need not be made.

In `Sessions` an agent is restarted and its handshake succeeds if it is possible again
and again: `run_forever` retries with a bounded backoff, and the app can be reached
now and then.  Calls need not be answered.

## 4. Theorems

No theorem assumes more of the constants than the named assumptions of its module,
but for `Holding` in `DispatchProofs`, `Hellos = {}` in `FanOutProofs` and
`~EarlyPush` in `AgentProofs`, each named below; TLC evaluates the assumptions in the runs.

| Module | Theorems |
| --- | --- |
| `DispatchProofs` | `TypeCorrect`, `SingletonSafe`, `ShapeSafe`, `ClaimSafe`; under `Holding` `TokensLive`, `ResultsMirror`, `RetriesBounded`, `ImplementsLifecycle`, `SettledForGood` |
| `FanOutProofs` | `ParentRight`, `VerdictStays`, `ChildrenLawful`; under `Hellos = {}` `ChildrenImplementLifecycle` |
| `AgentProofs` | `AgentTyped`, `NeverForgotten`, `ServerLawful`; under `~EarlyPush` `AllContainersKnown` |
| `LogPipelineProofs` | `TypeCorrect`, `NothingLost`, `StoredOnce`, `StoredInOrder` |
| `SchedulesProofs` | `TypeCorrect`, `RunsSpacedOut` |
| `SessionsProofs` | `TypeCorrect`, `OneAnswer`, `OneWorker`, `KeysKept`, `OneConsumer` |
| `PlacementProofs` | `TypeCorrect`, `WhereAllowed`, `OneChildEach`, `NothingLeftQueued` |
| `OutputsProofs` | `PartsImplemented`, `OutputsTyped`, `NoLineMissing`, `NoEntryLostInSilence`, `UploadsTrue`, `PublishTrue`, `NothingRevealed` |

**Dispatch.**  The inductive invariant `Inv` has four parts.  `Types` strengthens
`TypeOK` with what a thread's program counter says of its local state: which row it
works on, that its copies were read with an attempt in range.  `RowShape` is needed by
itself.  `Locks` says that a thread in the middle of a claim holds a row that is
still queued and unowned, that no two such threads hold the same row, and that
for a singleton definition no other run is held or being claimed.  It is what
makes `SingletonExclusion` inductive: a claim commits long after the check that
justified it, and only the locks keep the check true.  The step from one state to
the next is first reduced to what it does to one row (`RowMoves`: keep, start,
end, re-queue, claim) and to the picks of threads; the invariant is then
preserved by each kind of move rather than by each of thirty actions.

The other theorems assume `Holding`, that is `~StaleHello /\ ~CoreCancel`.  Then no
thread is ever inside an unlocked abandon (`Calm`), and a step moves at most one run and
touches the token, the mirror and the count of no other (`OneAtMost`).  What it
does to that one is starting, ending, losing or claiming, and each keeps
`Kept(r)`: the token exists exactly while the run is held, the mirror agrees, the count of
minted tokens is within the attempts.  The same four moves are the abstract actions of
`RunLifecycle`, which is the refinement; `SettledForGood` is read off the life cycle:
none of its actions touches a run that has ended.

**FanOut.**  The invariant relates each half-done transaction to the committed rows: the
child it ends has not ended, no other transaction ends the same child, and a verdict
it computed was computed from siblings that have ended and therefore cannot have
changed, so that two verdicts in hand agree.  All of it is said up to `misled`:
a hello holds no lock, so from the moment it writes a child while a verdict is in
hand or given, nothing is claimed of the verdict.  What remains is that a hello which
writes earlier cannot hurt: no verdict was derived yet.

`ChildrenLawful` is the other half: aggregation changes no child's life.  A transaction
chooses a child's end when it locks the child and writes it later; `Promised` says that what it
chose is still lawful then, since only the holder of a lock writes what it locked.  An abandon
without a lock is the one exception, and `ChildrenImplementLifecycle` is the refinement when
there is none.

**Agent.**  A report and its answer travel apart from the row, the journal and the
task they are about, so the invariant (`Faithful`) ties them together: an answered report
of a run means that the server is done with the attempt in the journal (`Done`), there
is at most one report of a run that somebody waits for, and a task past its report
has been answered.  That `Done` lasts needs `Granted`: the attempt in the journal was once
given to this worker, so it is not in the queue and cannot be given to it again; a
later attempt has another number.  All the server does to a row is summed up in
`RowStep`.  `AllContainersKnown` assumes `~EarlyPush` and rests on `Recovered`:
whenever the agent may accept an offer, every journaled run has a task, so no offer
meets a container of an earlier life.  `ServerLawful` is about the other side of the wire: the
server of this module answers late and repeated reports, and each of its rows still lives as
`RunLifecycle` says, so the agent is checked against no other server than the one `Dispatch` is.
It is stated for each run by itself because a hello may abandon several in one step.

**LogPipeline.**  Both properties rest on what a sequence number stands for.  For
`NothingLost`: every copy of a batch, sent, called, stored or in the topic, has the
same lines (`OneContent`); a number is marked, and its call answered, only when they are
stored (`Marked`, `Done`); and the consumer's one call is about the message its
position points at (`Polled`, `InTopic`).  So when a replayed batch is taken for
delivered, its lines are in the database.  For `StoredOnce`: a run has one kind of sink
(`OneSource`), and of a batch that nothing disturbed there is one call at a time
(`OneCall`), which is marked, or about to be, once it is stored (`Unmarked`), so that
a call about to write is the first to (`FirstWrite`).  For `StoredInOrder`: a batch is filled when
all before it are closed, so batches with higher numbers have later lines (`BatchFollows`), and
each is sent when its predecessors are stored or given up.  `Follows` says it once,
of any line on its way and any stored one, and each place a line can be in has it
(`CallsFollow`, `MessagesFollow`, `RowsFollow`).  Whether the first row of a line comes
before that of another is a question about the least such row, whose existence
is derived from the well-foundedness of the naturals.

**Schedules.**  `Good` says, of a schedule that is not overlapped, that one execution at
a time has it, that one about to submit comes an interval after the last run, that
one about to save is no earlier than that run, and that otherwise last_run_at is
no earlier either.  That crontabs match later times later is used, as an assumption on `CronNext`.

**Sessions.**  For `OneAnswer`: who waits for an answer is connected as when it asked
(`Waits`), a future lives as long as its bridge (`Bridged`), and a call that was not
sent or has its future was not answered (`Answered`).  For `OneWorker`: a single-use token
that made a worker is used and made one (`Spent`, `OneEach`).  `KeysKept` adds where a key may
be: only the agent whose request made a worker has keys, connections and calls (`Owned`);
a granted enrollment is waited for by an agent without a key (`Grants`); an agent
waits for one call at a time (`OneWaits`), and a reply on its way is the one
of its call (`Heard`).  Then the persisted key is the worker's, or the key on its way is,
or its fate is one of the two exceptions (`KeyFor`).  `OneConsumer`: a call has one frame then,
which is used up by the save that answers it, so no save follows an answer.

**Placement.**  A row is locked by one transaction (`Locks`).  `Rightly` and `Split` are
about rows as they are created and moved, with the picks of claims in the worker's
zone.  `NothingLeftQueued` needs more than its statement: an agent that is connected
and missed no wake-up has no work left, in the queue or in a reaper's
transaction, when it is idle, and already when its claim has looked and
found nothing (`Rests`); and whatever adds work, a submission, a reap, a
slot that is free again, wakes the agents of the zone or marks them as having missed it
(`NoSurprise`).

**Outputs.**  `PartsImplemented`: every step of the composition is a step of one part and a
stutter of the others, so each part's own specification holds and the theorems
about it need not mention the rest.  For the console (`ConsoleSound`): what a pump has read
of a stream is what was emitted, then the line in hand, then what is in the queue, in
order (`Handed`, `Ordered`), and the end enters the queue once, last, and when all pumps
are through (`Marker`).  For the log entries (`LogsSound`): a
process waits for the last batch it took from its buffer (`LogWaits`), a sequence stands for
one batch of its process (`OneBatch`, `Counted`), a marked one for stored entries (`MarkedStored`), and
whatever was taken is stored, warned of, replayed or waited for (`TakenTold`).  For the uploads
(`UploadsSound`): an upload waits for the one open request it has, a saved request has its
content under its path, and what an undisturbed upload of an unchanged file did so far
is of one content (`Progress`), requests nobody waits for included.  For the
publish command (`PubSound`): it waits for its one open request, and one that missed no
reply has no other, and carried its payload exactly if it was told so (`PubTold`).

`NothingRevealed` is about two nested loops, the values and the occurrences of one in
the text, each a recursive function over a bounded range.  That such functions exist and
what holds after their last step is shown from the least step that would break it
(`CountUp`, `LeftExists`, `RedactedExists`).  One replacement is described fragment by
fragment (`OnceIs`): it makes no new occurrence of any value, since the mask is in none
(`NoneNew`), and the occurrences of its own value that are left begin behind the mask, so that
a pass for each fragment of the text is enough (`ReplacedClean`).  For the fragments: if the written
value is in the text a second time, each fragment of it is also in what surrounds it
(`Elsewhere`, by following the shift from one occurrence to the other until it leaves the
value); otherwise the first replaced value that occurs contains it and takes all of it out
(`ReplacedTakesOut`), because longer values come first.

**Model-checked only.**  All liveness, which is beyond the prover (`CancelSpreads`,
`DueSubmitted`, `ExpiredLeaseHandled`, `WaitBudgetEnforced`, `QueueMoves`, `Delivered`,
`Reconnects`, `UnwantedStops`, `EndedReleased`).  Every safety property of a passing
run is proved, under the hypotheses named above.

## 5. Not modelled

| Part | Why |
| --- | --- |
| Views, forms, filters, tables, serializers, CRUD of definitions and zones | declarations for Nautobot's framework; where an edit races the app it is in `Schedules`, `Publish`, `Secrets` |
| Migrations, packaging, settings, development environment | no behaviour at run time |
| Validation and redaction of inputs, the coverage report, JobResult's worker and dates, log wording | sequential functions of data the properties do not tell apart |
| The assembly of container options, image pulls, limits | calls of an external program; what the agent relies on is in `Agent` and `Console` |
| SDK helpers for GraphQL and REST, the Vault provider, templated parameters, the local mode | sequential, without state of their own |
| Nonces, timestamps, signatures, frame parsing, malformed messages | refused before they change state; the handshake is a step that succeeds or fails |
| Several consumers of one Kafka group, a mark that expires | a rebalance is `ConsumerDies`, the offsets go back; a day is longer than any retry |
| A sink that is closed while its flusher sends | `sinks/base.py:104`: the batch is gone without a log line; it happens when a hello brings another sink configuration |
| A journal entry that cannot be read | it is skipped with a warning, and the container of its run stays unknown to the agent |
