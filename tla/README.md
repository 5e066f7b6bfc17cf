# A verification project for QHttpServer

QHttpServer is the HTTP back end of a digital-human video maker. Clients submit
texts; the server stores each as a row of the table `sbt_doctask`, hands the row
to one of a few synthesis *actors* (TTS+W2L processes reached over TCP), waits
for the result, settles the row and tells the front end through RabbitMQ.
Several server processes may share one database (`src/main.cpp:2560`). The
server's own code is at the top level of `src/` (about 21 000 lines); `inc/`,
`lib/` and `file/` are vendored or data.

## 1. Inventory

| Part | Source | State | Operations | Interaction |
|---|---|---|---|---|
| Task table | `digitalmysql.cpp` | rows: `state`, `scannedtime` (claim key), `priority` | `addtaskinfo`, `setmergestate`, `setscannedtime_nextrun`, `gettaskinfo_nextrun`, `clearscannedtime_id`, `setpriority`, `deletetask_taskid` | one connection and one statement per call; shared by all processes and threads |
| Ids, versions, edit marks | `digitalmysql.cpp` 86–141, 2613–2647, 3205–3373; `main.cpp` 4205–4413 | rows: `groupid`, `version`, `islastedit`; sequence table | `addtaskinfo`, `newgetsequencenextvalue`, `gettasknextversion`, `settasklastedit`, `isexisttask_taskid` | several statements per request, handlers of all processes |
| Task dispatcher | `main.cpp` 2426–3303, 4205–4742, 5446–5539 | `Container_actortaskinfo` (task → state, socket), locals of the threads | sender thread, receiver threads, task requests | table, actors over TCP, publisher |
| Login sessions | `main.cpp` 1218–1313, 1610–1666, 3697–3767, 3822–4033 | `Container_sessioninfo` (user → time-out, SSO refresh token) | login, lookup, check, refresh, SSO logout, clearing thread | HTTP handlers, SSO centre |
| RabbitMQ publisher | `mmRabbitmq.cpp` 76–124, 175–391 | `m_list`, semaphore, connection, local list | `send`, `run`, destructor | called by sender and receiver threads |
| Remaining-time quota | `main.cpp` 1431–1530, 2597–2621, 3306–3342, 4534–4569, 4915–4931, 5072–5341 | columns `remaintime` of users and humans, `sbt_indentinfo` | check, charge, time packages, renewals, account edits, daily decrease | read, compute, write over separate connections, from handlers, receivers and the daily thread |
| HTTP server pool | `httpConcurrencyServer.cpp` 152–450 | array of slots: event base, evhttp, thread | start, undo of a failed start, stop, per-thread loop | runs the request handler in ten threads |
| Request handler (rest) | `main.cpp` 3546–5555 | none of its own | user, human, list, background requests | database |
| Start-up | `main.cpp` 5573–5713 | configuration globals | reads files, creates threads | everything |
| TCP messaging | `main.cpp` 843–1214 | a socket per call | send and receive one framed message | actors |
| RabbitMQ consumer | `mmRabbitmq.cpp` 393–534 | — | never instantiated | — |
| SSO client, logger, `shareMemory`, JSON, cloud upload, video probing, helpers | other files | none that another part reads | library-like calls | — |

Hard behaviour, and what makes a part correct:

* **Dispatcher.** Server processes race for rows; a claim, its fetch, the offer,
  the acceptance and the result are separate statements, between which clients
  delete and re-submit. Correct when claims are exclusive, no task runs twice,
  no queued row becomes unclaimable, a merging row has somebody who will settle
  it, an outcome is announced and final, and every queued task is settled.
* **Sessions.** Lookups are made without the mutex; the clearing thread tests
  and erases in two steps. Correct when exactly the expired sessions are
  cleared and a refresh prolongs a session.
* **Publisher.** Threads append and post in two steps; the broker comes and
  goes. Correct when order is kept, nothing disappears unaccounted, no wake-up
  is lost and the queue is always emptied.
* **Quota.** Check-then-use and lost updates, orders of two statements, a daily
  thread that remembers its last day in a local variable. Correct when no time
  comes from nothing, none is used without a grant, a balance that lost no
  update is exact, a recorded order that was to change a column did, and every
  human loses one day per day.
* **Versions.** An id is read and taken by two statements, a mark is moved by
  two more. Correct when ids are never reused, a work never vanishes from the
  list, its mark is on the row saved last, and versions differ.
* **Server pool.** Each of four calls per thread may fail while the threads
  before already handle requests. Correct when nothing in use is freed, nothing
  is left behind, and a stop ends whatever a request's handler does.

`PROJECT.json` lists every hazard at its line with the properties that cover
it, or why none does.

## 2. Modules

    TaskTable            statements on sbt_doctask, one operator per function
      TaskDispatch       sender, receivers, handlers, actors, crashes; properties
        TaskRefinement   refinement mapping to TaskLifecycle
          MCTaskDispatch circumstances of the TLC runs
        TaskDispatch_proofs
          TaskOutcome_proofs
            TaskRefinement_proofs   (with TaskRefinement)
    TaskLifecycle        abstract: the life of a task
    NotificationChannel  abstract: what the publisher promises those who send
    Session              -> MCSession, Session_proofs
    RabbitPublish        -> MCRabbitPublish, RabbitPublish_proofs
    Quota                -> MCQuota, Quota_proofs
    TaskVersions         -> MCTaskVersions, TaskVersions_proofs
    HttpServerPool       -> HttpServerPool_proofs

### TaskTable

A row is `dbState`, `scanned`, `priority`. `state` values 0xFE, 0xFF, 0, 1, 2
(`digitalmysql.h:246`) are saved, waiting, merging, success, failed; two more
say that the id was not handed out yet and that the row was deleted. A claim
key is a time and a GUID; all a reader can tell is whether it is empty, the key
of a scan in progress (then `scanned[t]` is that server), or an older one
(`Stale`). Every statement may fail to connect under circumstance `"db"`, and
then changes nothing. `RowDefault` is the default of column `state`, which the
INSERT does not name: the schema is not in the repository. It must not be
`waiting`: with that default an unfinished submission could be claimed; the
runs take `merging`, the type default of an integer column.

### TaskDispatch

Per server: `memState`/`memSock` are `Container_actortaskinfo`; `sndPc`,
`sndTask`, `sndActor`, `sndFail` are the sender's position and locals. `thr`
are receiver threads (`for` is the task a thread was created for, `task` what
it found), `hd` the HTTP handlers, `job` what each actor is doing, `notified`
the last state announced per task. An announcement reads the row again and
does not look at the result: when that fails, or the row is gone, the message
names task 0 and announces nothing (`Announce`).

| Code | Actions |
|---|---|
| `getactortask_nextrun`, insertion into the map | `Scan`, `Fetch` |
| loop over actors in `pthread_sendtask_thread` | `NextActor`, `SkipActor`, `SendFails`, `NoReply`, `ReplyConfigError`, `ReplyBusy`, `ReplyResult`/`AnnounceResult`, `ReplyAccept`/`Spawn`/`MarkRunning`/`StoreSocket`, `Judge`, `Release` |
| `delete_actortask_invalid` | `Purge` |
| `pthread_recvtask_thread` | `ThreadStart`, `ReceiveResult`, `ReceiveNothing`, `CloseTask`, `FailTask`, `ThreadEnd` |
| SaveTask, VideoMake | `RequestNew`, `RequestAgain`, `LookUp`, `WriteRow`, `WriteState`, `SyncStart`, `SyncRun`, `SyncGiveUp` |
| UpdateTask, RemoveTask | `RequestPriority`, `RequestRemove` |

An action is what happens between two accesses to state other threads see. The
sender's reads of the configuration, the progress and finish-time columns that
are written with the state, and socket bookkeeping have no effect on control
and are folded in. `getmergestate` returns 0, which means merging, for a row
that is not there and when it cannot connect; `SaysMerging` keeps that.

What may go wrong is a constant, `Env`, so that each run names what it admits:

| Circumstance | Meaning |
|---|---|
| `net` | connect or send fails, no reply comes, a connection is lost, an actor drops its job |
| `config` | an actor refuses with code 1 or 2 |
| `audio` | an actor answers with the result at once (code 0) |
| `garbage` | a result without a code |
| `human` | the digital human's row cannot be read |
| `spawn` | `pthread_create` fails |
| `early` | a receiver thread begins before the sender has stored state and socket |
| `late` | a receiver thread begins after the sender's one-second sleep |
| `db` | any statement fails |
| `crash` | a server process ends and restarts |
| `speechless` | no TTS actor is configured for previews |
| `hasty` | a client acts on the state of the row before it is told |
| `impatient` | a client re-submits at any time |

Clients without the last two re-submit a task when they were told its outcome,
or when it is only saved or deleted, one request per task at a time: the
behaviour the front end's interface suggests.

### TaskLifecycle and TaskRefinement

The abstract specification knows a phase per task and the server that holds it:
written, queued, claimed by one server at most (a server holds one task at
most), started by its holder, settled once, taken out of a settled phase only
by its client. `TaskRefinement` maps a row to a phase (a row whose request has
not set the state yet is a draft) and "the sender has claimed it and not let
go" to the holder.

### Session

`timeout` and `refresh` are the map; `Insert` is `std::map::insert`, which
keeps an existing entry. A lookup and the use of the iterator are two steps
(`Find`/`Copy`, `LogoutFind`/`LogoutErase`, `ClearFind`/`ClearErase`); copying
from an erased entry gives any token. `sso` is what the SSO centre accepts
next: a refresh token is used once. `out` is a history variable.

### RabbitPublish

`send` is `Push` (append under the mutex) and `Post`. The thread's loop is
`Wake`, `Reconnect`, `Take`, then one of `DropUnconnected`, `Publish`,
`PublishFails`, `PublishUnnoticed` per element, `DealDone`. A notification is
its number in the order of `m_list`; `Beat` is the heartbeat. `live` says
whether the connection the thread holds still works: publishing on a dead one
may succeed as far as the library tells (comment at `mmRabbitmq.cpp:355`).
The five-second interval between reconnections is a choice to try or not.
`"stop"` is the destructor, which the class offers and `main` never calls.

`NotificationChannel` is the publisher's promise: a set of notifications whose
fate is open, of which the oldest is delivered or given up, for good. What
waits in it is what is in `m_list` or in the thread's local list
(`Channel`, `ImplementsChannel`). It says more than order and account together:
a publisher that dropped the newest instead of the oldest would keep both.

### Quota

`remain` is the column `remaintime` of all accounts and humans. `wk` are the
workers — HTTP handlers and receiver threads — with what they hold between the
statement that reads and the one that writes; `jobs` are accepted videos that
are not finished; `ht` is the daily thread of each server with its local
`last_monthday`; `tod` and `day` are the clock, a day beginning at 04:00.
The rest is history: what was granted, taken, charged, and waived because
reading stops at 0, which columns lost an update, which orders were to change
a column, did, and were recorded, how many days each server took, and how often
it was restarted within the hour of four.

| Code | Actions |
|---|---|
| VideoMake's two checks | `CheckUser`, `CheckHuman` |
| `updateuserremaintime_taskid` after a success | `ChargeRead`, `ChargeWrite` |
| `NewIndent`, type 4 (time package) | `AppendRead`, `AppendWrite`, `RecordIndent` |
| `NewIndent`, types 0 and 1 (buy, renew a human) | `Renew`, `RecordIndent` |
| `NewIndent`, any other type | `OtherIndent`, `RecordIndent` |
| `UpdateUser` | `EditRead`, `EditWrite` |
| `pthread_sethumanremain_thread` | `Look`, `DayRead`, `DayWrite`, `Rest`; `Tick` is its clock |
| a process ends, by itself or by dividing by `(int)video_fps` = 0 | `Crash` |

Three conversions are modelled by what they do: `max(0, atoi(text))` (`AsInt`:
beyond an int a value wraps and a negative one counts as nothing),
`gettimecount_interval` (`Interval`: year, month and day are compared one by
one) and the list of account ids of a query on humans, which is cut after ten
with the root named last (`Reaches`). A deadline that `NewIndent` writes next
to the time has no effect on the columns; when writing it fails nothing is
recorded, which is the failing branch of `AppendWrite`.

Not every order changes a column. A renewal asks only that the human exists:
for another tenant's human the `UPDATE ... belongid in (...)` finds no row,
succeeds, and the order is recorded (`Renew` without a change). So it is when a
failing look-up leaves the owner out of the ids (`Finds`). Types 2 and 3 write
a deadline only and other types match no branch, and both are recorded
(`OtherIndent`). `owed` holds the orders that are to change a column (`Owed`),
and `ListedWasRaised` is about those.

A package may be negative: `AppendTime` is not checked and the sum is written
as it is (`Append`), so that a column may be below 0. Every read but
`UpdateUser`'s takes that for 0 and the next write starts from there: debts
are forgiven and do not add up, which is what `Balances` in `TypeOK` says.
`taken` counts negative packages. Less than the least int wraps into time;
`NothingFromNothing` and `NothingForNothing` are stated for packages that do
not take as much (`DebtsFit`). The 64 bits of the sum are taken as unbounded.

### TaskVersions

The rows of `sbt_doctask` again, seen from the other side: `group`, `version`
and `mark` are `groupid`, `version` and `islastedit`; the state columns of
`TaskTable` play no part here and are left out. `hd[h].pc` is the statement a
handler comes to next:

| Code | Actions |
|---|---|
| SaveTask and VideoMake, parameters | `BeginNew`, `BeginKeep`, `BeginAs`, `BeginMake` |
| `isexisttask_taskid` | `Look` |
| `gettasknextversion` | `Number`; `Collapse` for `atoi(NULL)` |
| "task is running" | `Refuse` |
| `addtaskinfo` | `Update`; `SeqRead`, `SeqInsert`, `Insert` |
| `settasklastedit` | `MarkOff`, `MarkOn` |
| RemoveTask | `Remove` |

`Refuse` may happen or not: the states it depends on are `TaskDispatch`'s.
A row's group and version stay known after its deletion, because a client may
still name it. `muddled`, `unlisted` and `crossed` record the groups for which
a promise was lost and say in the properties exactly when.

### HttpServerPool

The Windows half of the class, which `CMakeLists.txt` builds. `base` and
`http` are a slot's two pointers (`"dangling"`: freed, but still in the array),
`th` its thread, `brk` libevent's request to leave the loop; `pc`, `at`,
`count`, `then` are the position of the thread that starts and stops.

| Code | Actions |
|---|---|
| `start_http_server` | `CallStart`, `Begin`, `MakeBase`, `MakeHttp`, `Launch`, `Undo` |
| `stop_failed_server`, `stop_http_server` | `CallStop`, `Break`, `Wait`, `Free` |
| `GlobalHttpBaseFunc` | `Dispatch`, `Handle`, `Handled`, `Leave`, `End` |

libevent is external: `event_base_dispatch` begins by forgetting an earlier
break (`Dispatch`), and a break is obeyed after the callback that runs
(`Leave`). `Wait` may terminate a thread in any state: the wait is bounded by
10 s (1 s after a failed start) and nothing bounds a handler.

## 3. Runs

Every property of a passing run has a mutant in `PROJECT.json`: a plausible
slip in the mapped code under which the same run finds the property violated.

| Run | Instance | Shows |
|---|---|---|
| `claim_exclusive` | 1 task, 2 servers, 1 actor, everything but `hasty`/`impatient` | claims are exclusive whatever fails, across crashes, with previews and deletions; types |
| `dispatch_faults` | 2 tasks, 1 server, 2 actors, 2 threads; `net`, `audio`, `spawn`, `early`; submissions, re-submissions, deletions | no stranded row, no double execution, successes announced and final, rows rewritten only when nobody works on them |
| `lifecycle` | 2 tasks, 2 servers, 1 actor, 2 handlers, 3 requests, priorities; fair | implements `TaskLifecycle`; no row stays queued or merging; with saving, re-submission and deletion merging rows stay watched, claims exclusive and rewrites alone |
| `session_map` | 1 SSO user, 1 local login, 2 handlers, times to 5 | exactly the expired sessions are cleared |
| `publisher` | 2 producers, 3 notifications, broker failures, stop | implements `NotificationChannel`; order, account, wake-ups, progress |
| `quota` | 2 roots, a sub-account and a human of one, 2 workers, 1 server, 2 requests, 2 mornings, a restart in the hour of four; all failures | no time from nothing, nothing for nothing, exact balances, orders carried out, one day per day and per restart |
| `versions` | 2 groups, 2 handlers, 4 requests; failures and crashes | ids unique, works listed, the last edit marked, versions differ |
| `pool` | 3 threads, 2 starts, failures anywhere; fair | nothing freed in use, nothing left, complete starts, stops end |
| `claim_lost` | violation of `ExclusiveClaim` | a failed send settles a row that is still being offered |
| `early_receiver` | violation of `UnheardIsFailed` | a receiver that starts early leaves its row merging |
| `running_rewritten` | violation of `RunningIsRejected` | another server accepts a rewrite of a running task |
| `session_refresh` | violation of `RefreshExtends` | a refresh does not prolong the session |

**Bounds.** `Tasks`, `Threads`, `Handlers`, `Servers`, `NumActors`,
`MaxRequests`, `MaxPriority`; `MaxNow`, `MaxTokens`; `Total`. Two servers and
one task are the smallest race for a claim; two tasks are needed for priorities,
for a receiver that reads the next task's id, and for one task blocking
another; two actors for an offer after a refusal; two threads for double
execution; three or four requests for submit, delete, re-submit. `SessionValid`
3 and `SessionRefresh` 1 leave, like 7000 and 3600, a time at which a token is
old enough for a refresh and its session still valid; `MaxNow` 5 goes beyond an
expiry and a login after it. Three notifications let one be lost, one be
published and one wait.

In `quota` amounts are small enough for a cost (2) to exceed and to fit a
balance (3), a package (3) to be read back before and after a charge, a
negative one (-4) to exceed both, and a three-year renewal (9) to outgrow the
int (7); the two openings are a tenant with time and one whose sub-account alone
has some. The other tenant is there to order for a human that is not its own.
Two requests (`MaxOps`) are the two that overlap, since there are two workers;
charges and the daily thread come on top. Workers are interchangeable (the run
has no liveness property). `MaxRestarts` bounds the restarts within the hour of
four; those at other times are not bounded. Day 3, hour 2, sleep 1 keep
the code's proportion, a sleep shorter than the hour, which is
`SleepAssumption`. Two workers are the smallest lost update; the daily thread
is a third writer. In `versions` four requests let a save overlap a save, a
deletion follow, and the deleted task be saved again; groups and handlers are
interchangeable (the run has no liveness property). In `pool` three threads
give a first, a middle and a last one to fail; `main` starts the pool once, but
`start_http_server` begins with a stop, which the second start exercises.

**Deadlock** is checked in the dispatcher's runs (a scan is always possible),
in `quota` and in `versions` (a server may always end and restart). The
sessions', the publisher's and the pool's runs do not: time ends at its bound,
the publisher's thread may have ended after all notifications were sent, and
after the last start and a stop there is nothing to do.

**Fairness.** Weak fairness of each sender, receiver and handler thread, of the
clearing thread and of the publishing thread: they are operating-system threads
whose loops do not wait for each other. Actors that work on something
abandoned end it (`ActorDrops`); `ReceiveResult` is fair as part of its thread
because the code bounds the wait (`RUNTASK_TIMEOUT`) and fails the task after.
Nothing is assumed of clients, failures, crashes, the clock, the broker or the
network. In the pool only the thread that starts and stops is fair, and only
while it is in a call: `StopEnds` holds although requests may never return.
Quota and TaskVersions promise no progress. `EventuallySettled` and `EventuallyHandled` hold under that.

## 4. Proofs

TLAPS proves, for every value of the constants (under the named assumptions
`TableAssumption`, `DispatchAssumption`, `SessionAssumption`,
`PublishAssumption`, `QuotaAssumption`, `SleepAssumption`,
`VersionsAssumption`, `PoolAssumption`, which TLC evaluates in the runs):

* `TaskDispatch_proofs!TypeCorrect`. `TypeOK` is not inductive: the refusal
  counter stays within the number of actors only because it never passes the
  number tried (`TriedBound`), and a receiver reads the map of the server that
  created it (`ThreadsHaveServer`).
* `TaskDispatch_proofs!ClaimExclusive`: if `ClientOps` holds no re-submission,
  `ExclusiveClaim` is invariant in *all* circumstances. The invariant says that
  a sender that contends for a row is one whose key the row carries, or the row
  is past waiting, and that nothing but a re-submission brings a row back.
* `TaskOutcome_proofs` proves this and the dispatcher's other properties for
  `Orderly` clients: ones that submit a task once (`SubmitsOnce`), or
  `PatientClients`, which write a task again after they were told that it is
  settled. What makes re-submission hard is that a server's check "task is
  running" knows nothing of other server processes: that a rewrite finds
  nobody at work on the row follows from the order in which an outcome is
  recorded, the map entry closed and the front end told.

  `RewritesAlone` is that fact. Its invariant, `PatientInv`, says that as long
  as a task is queued, in a sender's hand or in a receiver thread's, no outcome
  of its present submission has been announced (`SpeechInv`), so that a client
  that was told one finds nobody at work on the row; and that the row it
  rewrites stays so until it is queued again (`StateIsAlone`). `OrderlyCourtesy` derives from it, for both kinds of
  clients, the two facts that the step lemmas of all theorems below use
  (`Courtesy`). `PatientClients` names what patience
  rests on: no late thread (it announces another task), no preview (a sender
  announces what a handler recorded), not both a network and a database that
  fail (a send settles the row as failed and the next statement fails, so that
  a task still offered is announced as failed). `claim_lost` and
  `running_rewritten` show what less patient clients do.

  | theorem | also assumed | free to happen |
  |---|---|---|
  | `RewritesAlone`, `ClaimHolds` | — | all that `PatientClients` leaves |
  | `ExecutedOnce` | no thread begins later than the sender's rest | all other faults, crashes, previews |
  | `NothingStranded` | no crash, failed statement, missing human or configuration error; a row's column default is not waiting | lost connections, refusals, silence, late threads, previews |
  | `SuccessStays` | no preview, no late thread | all other faults, crashes |
  | `SuccessIsTold` | no preview, late thread, crash or failed statement; the default is neither waiting nor success | lost connections, refusals, configuration errors, failed threads |
  | `MergingHasOwner` | threads can be created and are neither early nor late, actors keep to the protocol, no crash or failed statement | lost connections, refusals, previews |

  `ExecInv` is the common ground: `ClaimInv`, and that the row of a receiver
  thread's task keeps a key while no sender that claimed it is still in its
  loop, so that a second thread would need a second claim. `QueueInv` adds that
  the loop over the actors gives a row back before it lets go of it; `OutcomeInv` that a thread which has not
  recorded its outcome works on a row that is merging; `ToldInv` that a recorded
  success is in the hand of one who tells; `WatchInv` that a sender which set a
  row merging goes on until the receiver exists and has found its row in the map.
* `TaskRefinement_proofs!LifecycleImplemented`: `Spec` implements `TaskLifecycle`
  (`ImplementsLifecycle`), when clients are orderly, no handler runs a task
  itself, connections and the database work and nothing crashes or is late
  (`Calm`). `RefInv` relates a sender's position to the row it holds; the lemmas
  `Moves`, `LetsGo` and `Stutters` say what a step must look like to be an
  outcome, a release or nothing in `TaskLifecycle`, and one lemma per process
  shows that each of its steps is one of them. A missing digital human, a
  configuration error, a message without a code and a thread that cannot be
  created may happen. The `lifecycle` run is an instance of the theorem: that a
  rewritten row is free and settled makes the abstract `Write` possible, and a
  request that writes a row deleted meanwhile is a stutter.
* `Session_proofs!TypeCorrect`, and `Session_proofs!ClearsExpiredOnly`: the
  clearing thread's two steps are safe because an entry of a user who was not
  logged out in between is only replaced by `insert`, which does nothing while
  it is there (`FoundExpired`).
* `RabbitPublish_proofs!TypeCorrect`; `WakeupNotLost` (`NoLostWakeup` is
  inductive with the types); `PublishedInOrder` and `AllAccounted`. The
  invariant behind the last two (`OrderInv`) splits the pipeline into what the
  broker has, what the thread holds and what waits: each part is rising, each
  below the next, and together they are what was sent and not dropped. It needs
  `ListEmptied`: the local list is empty whenever the thread takes the queue.
  Lemmas say what `Append`, `Tail` and concatenation do to a sequence's
  elements and order. `ChannelImplemented`: `Spec` implements
  `NotificationChannel`, without further assumptions. By `OrderInv` the head of
  the local list is the oldest of all that wait (`HeadResolved`), and splicing
  the queue into the local list changes where notifications wait, not which.

* `Quota_proofs` proves every property of the run. `NoTimeFromNothing` needs
  that whoever is about to write an account's column has seen no more than was
  given (`SeenInv`), and that grants to accounts only grow; that a read gives no
  more than was given (`ReadLess`) uses that debts do not add up, so that none
  wraps. `TypeCorrect` says so: a column below 0 is there since one negative
  package, because whoever adds to a column has read no debt (`WorkersOK`); a
  human's is never below 0. `NoVideoForNothing`
  adds that accepted jobs, charges and workers past the check all have a root
  that was given time (`PaidInv`). `ExactBalance` is inductive with the types,
  because `lost` records any write not computed from the present value.
  `OrdersCarriedOut` says that a worker about to record an order that is owed has
  carried it out (`OrderInv`); `OwedIsFound` is where the condition on
  sub-accounts is used. `ADayPerDay` bounds the days a thread took, is about to
  take and may yet take in this hour by a day per day and one per restart
  (`DueInv`): a restart in the hour makes the thread forget that it worked on
  this day, one at another time costs nothing. `EveryDay` bounds when a thread that has not yet worked wakes up
  (`WakeInv`), and is where `SleepAssumption` is used.
* `TaskVersions_proofs` proves every property of the run. Ids: the sequence is
  ahead of every id a row has had or a handler holds (`RowsInv`). Marks: on a
  group outside `muddled` one handler is at work at most, nothing is marked
  between its two statements, and until it touches the marks the row opened
  last has the only one (`AloneInv`, `GapInv`, `KeepInv`). Versions: that
  handler's version is above those of all rows (`NumberInv`).
* `HttpServerPool_proofs` proves the five safety properties for any number of
  threads, from an invariant (`PoolInv`) that says for each step of the thread
  that starts and stops which slots are complete, broken, joined, freed or
  empty.

Only model-checked: liveness (`EventuallySettled`, `ExpiredIsCleared`,
`EventuallyHandled`, `StopEnds`), which is beyond the prover. Every invariant,
action property and refinement that a passing run checks is a theorem; each
run's instance satisfies the theorem's conditions.

## 5. Findings

The four violation runs; each quotes the comment the code contradicts in
`PROJECT.json`. Further weaknesses met while modelling, that no run isolates,
are in the hazards' notes: rows stranded with their key when all actors refuse
or the human is missing, rows left merging by a crash or a failed
`pthread_create`, receivers delayed past the sender's next iteration, previews
that the queue may run as well, deleted audio tasks reported as running, a
logout undone by a refresh that is under way, balances used more than once,
time of sub-accounts that is never consulted, orders recorded without effect,
negative packages accepted, a day lost when the daily query
fails, a save answered as success without an id, an array kept with freed
pointers when the first HTTP thread fails.

## 6. Not modelled

* Database columns that steer nothing, file and cloud storage, JSON, message
  framing, logging, configuration, the HTTP requests without shared state: one
  statement or one library call each, no control to check.
* The deadlines that `NewIndent` writes (types 2 and 3 write nothing else), and
  the adding and removing of accounts and humans: `Quota` has constant sets of
  both.
* The sockets, `WSACleanup` and TLS contexts of the server pool, and locks a
  terminated thread may have held (the C runtime's or libevent's): outside the
  repository. The Linux half has the same loops, with `pthread_join` in place
  of the timed wait, so that there a stop waits for a handler that hangs.
* The RabbitMQ consumer, which is never instantiated.
* Vendored code: `inc/`, `lib/` (Boost, OpenSSL, libevent, MySQL headers and
  libraries), nearly all of the repository's lines. The program's own logic is
  in `main.cpp`, `digitalmysql.cpp`, `mmRabbitmq.cpp` and
  `httpConcurrencyServer.cpp`.
* Data races on `std::map` are modelled by their sequential outcomes (an erased
  entry's contents are arbitrary, an erasing loop may skip entries), not as
  crashes.

## 7. Plan

1. Done: dispatcher, sessions, publisher; quota, task versions, server pool;
   theorems for the last three complete.
2. Done: theorems for all the dispatcher's safety properties and for the
   refinement of `TaskLifecycle`, for clients that submit once or write again
   what they were told is settled; the publisher's refinement of
   `NotificationChannel`. Open: the refinement of `TaskLifecycle` with faults,
   which needs an abstract specification that loses tasks.
3. Open, models: deadlines of orders (`NewIndent` 2 and 3) once something in
   the server reads them; previews together with re-submission in the
   dispatcher's properties, for which the code gives no promise today.
