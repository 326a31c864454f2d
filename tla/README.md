# CyberSentinel DLP: specifications

TLA+ models of CyberSentinel DLP, the TLC runs that check them on small
instances, and theorems about them that TLAPS checks for every value of their
constants. Line numbers refer to this repository.

```
tlc -workers 2 -config EventDelivery.cfg MCEventDelivery.tla    # one run
tlapm AgentSuspensionProofs.tla                                 # one module's proofs
```

`PROJECT.json` lists every run with its properties, the source lines each
definition models, the hazards, and the mutation each property detects.

## The system

| Part | State | Operations | Talks to |
|---|---|---|---|
| Windows agent (`agents/endpoint/windows/agent.cpp`) | spool file, bundle file, policy lists and flags in memory, connection state | events from monitor threads, heartbeat with replay of the spool, policy sync, enforcement | server over HTTPS, minifilter over a filter port |
| Linux agent (`agents/endpoint/linux/agent.py`) | bundle and flags in memory, modprobe blacklist on disk, quarantine, suspended processes, fanotify marks | register, sync loop, file/USB/clipboard/print/network guards | server over HTTPS |
| Minifilter (`windows/kernel/`) | port connection, event queue | a query per file operation, fail-open on timeout | Windows agent |
| Browser extension (`agents/browser-extension/src`) | per composer: what is attached and how far its inspection is, the last verdict, the gesture that is held; per reply: its mask; in the worker: catalogue, etag and policy in memory and in storage, the registered guard scripts | holding, judging and replaying a Send, masking replies, synchronising and registering, evaluating | server over HTTPS, the page |
| SMTP relay (`smtp-relay/app`) | one message at a time | classify, hold, forward | server |
| Server API (`server/app/api`), several uvicorn workers | MongoDB (agents, events, incidents), PostgreSQL (users, policies), Redis (bundles, sessions), per-worker caches | agent endpoints, operators' endpoints, background tasks | everything |
| Maintenance scripts (`server/scripts`) | - | one-off rewrites of collections | MongoDB |
| Dashboard | - | operators' calls | server API |

What is hard in it: workers share nothing but the databases, and their handlers
interleave at every `await`; endpoints lose the network, crash and restart, and
repeat their requests; caches with a time to live stand between an operator's
decision and its effect (verdicts per worker, bundles in Redis, the bundle on
the endpoint, catalogue and policy in the browser); the browser ends the
extension's worker whenever it is idle, and a page goes on while a verdict is
awaited; background tasks live in the memory of one process; what an
agent did to the machine (USB block, suspended processes) outlives the agent.

What makes each part correct:

* delivery: an event that was raised is recorded, still held, or gone for a
  cause one can name; recorded once, with one background task; in order;
* suspension: bounded staleness of verdicts; only an operator or the deadline
  ends a pause;
* policy sync: the cache holds only what was once policy, and endpoints converge
  unless they report for good what they do not enforce;
* incidents: an incident sums up exactly its events, and no event is in two;
* extension: a message goes out only by the verdict on it and once per gesture,
  a hold ends, no reply can be read before the request about its text has ended,
  and scripts and caches follow the server whatever ends the worker;
* guards: a process that is suspended is resumed or killed, a pending
  permission event is answered.

## The modules

| Module | Models | State and actions |
|---|---|---|
| `AuditTrail` | abstract: what delivery promises | one outcome per event: unraised, pending, then recorded, discarded or lost for good |
| `EventDelivery` | `SendEvent`, `SpoolEvent`, `FlushSpooledEvents`, `SendHeartbeat` (agent.cpp); `create_event`, `_process_event_background` (events.py) | the thread of each event, the spool file line by line, the flush, the requests on the network, the server's store and task queue |
| `AgentSuspension` | `core/agent_suspension.py`, suspend/resume/heartbeat in `agents.py` | clock, document, cache per worker and id, handlers between their awaits |
| `PolicyBundleCache` | `sync_agent_policies`, the bundle cache in Redis, policy edits and their invalidation | policies, cached bundle, handlers between their awaits |
| `PolicyRollout` | abstract: what an endpoint may enforce | the sets that were committed, the set installed; the set enforced, a mixture or nothing |
| `LinuxPolicySync` | extends it with the Linux agent's side: `register_agent`, `sync_policies`, `_apply_policy_bundle`, `_disable_all_enforcement`, `_reconcile_usb_blocking` | call in progress, installed version, what is enforced, the USB block in memory and on disk |
| `IncidentCoalescing` | `_auto_create_incident`, `update_auto_incident` | a task per event, the collection |
| `IncidentMigration` | extends it with `scripts/coalesce_incidents.py --apply` | the script's step, what it read, its backup |
| `NetworkGuard` | `_inspect_candidate_process`, `_handle_egress_candidate`, `_suspend`, `_resume`, `_terminate`, `_resume_all_suspended`, `stop` of the Linux agent | the kernel's view of each process, a state per thread, `_suspended_pids`, `_net_handled` |
| `ReadGuard` | `start_read_guard`, `refresh_sensitive_marks`, `on_guarded_file_changed`, `_file_is_sensitive`, `_read_guard_loop`, `_send_read_denied_event`, `stop_read_guard` of the Linux agent, and what `handle_file_event` does before it | files and the marks on their inodes, `_marked_files`, `_sensitive_cache`, a state per thread, the kernel's queue of held opens, the responder |
| `SendGate` | abstract: what the guard on submissions promises | what became of each gesture: passed, failed to be judged, or held and then ended for good, one held at a time; whether holds have been asked for from the start |
| `SubmitGuard` | `handleSubmitAttempt`, `shouldReuseVerdict`, `gather`, `inspectUntrackedInlineImages`, `holdAndDecide`, `requestVerdict`, `resumeSubmit` (activity-guard.js), `prescanAttachment`, `getResultsForContainer`, `waitForContainer` (attachment-inspector.js), `evaluateActivity`, `evaluateOne` (background.js) | a composer with its attachments, the button's entry in `lastVerdict`, the held gesture, the evaluations in the worker |
| `ReplyGuard` | `installResponseObserver`, `applyEngagement` (activity-guard.js) | length, mask and request of each reply, the settle timer |
| `ExtensionWorker` | `boot`, `loadCaches`, `syncAll`, `registerGuardScripts` (background.js), `sync_catalog` (app_catalog.py) | caches in memory and in storage, the registered scripts, a state per job of the worker between its awaits |
| `MC...` | constants for TLC | |
| `...Proofs` | theorems and their proofs | |

Operators marked `\* mutant` are not part of a model: each is a plausible bug
in the operator it precedes, and some property fails when it takes that
operator's place.

### EventDelivery

One `SendEvent` per event id. A post that is not answered may still arrive (`late`),
even after a replay of the same event. A spool line is the event or `Torn`, a line
that is not one JSON object any more: an append cut short by a crash leaves a line
without newline (`openLine`) and the next append is glued to it. The replay reads
the whole file, posts line by line while it holds `spoolMutex`, truncates the file
and then writes back what remains; a crash may come between any two of these, and in
the middle of a line that is written (`RewriteCutShort`). The server's answers are
201 (accepted, duplicate or paused), 422 (malformed), or none; 5xx, 401 and 403 are
treated by the agent as no answer at all. A post that is accepted starts a
background task of at most `MaxRetries` attempts (`tasks` holds how many are left),
each of which runs `process_event` and its actions from the start (events.py:1008):
there is one task per event, but its actions may be taken several times. The tasks
live in the memory of the server and meet nothing that the agent sees. `fate` names
the cause for which an endpoint let go of an event, so that `NoUnaccountedLoss`
says: there is no other cause.

Abstractions: lines have equal size, so the 16 MB become `MaxSpool` lines;
`MAX_FLUSH_BATCH` becomes 1 so that a spool of two lines exceeds it; which policy
is enforced and whether the server holds the endpoint paused are free inputs of
each call.

### AgentSuspension

Time is an integer clock; a pause has a deadline or none. `is_suspended` takes
`now` before its read and stores `now + TTL` after it, with the database's
answer in between; a fresh entry is returned at once and changes no state. The
endpoint has a canonical id and, after a reinstallation, earlier ones, each with
its own cache entry. `Changed` is the time at which the right verdict last
changed.

### PolicyBundleCache and LinuxPolicySync

A bundle is the set of policies in it: the version is a hash of that set, so
`up_to_date` is equality. A handler reads the agent's document, then the cache,
then PostgreSQL, then stores; every await is a step, and a handler whose caller
gave up runs on. `ErrorAnswers` lets a handler answer 500 at any step.
`enforced = Nothing` is the state after `_disable_all_enforcement`, `Mixed` what an
exception leaves in the middle of `_apply_policy_bundle` (`InstallBreaksOff`): the
version is taken over before the lists are set (agent.py:732), and the exception is
logged and no more. The file that blocks USB storage may fail to be written or
removed (`BlockUsb`, `UnblockUsb`): the agent then believes what modprobe says,
and `usbFailed` remembers that its belief rests on nothing else. `Due` is what the
endpoint should enforce: nothing while it is paused, else the current set.
Policy edits, faults and restarts are bounded by `MaxEdits` and `MaxFaults`.
The 30 seconds of the Redis entry are a step that may come at any time.

### IncidentCoalescing and IncidentMigration

Events have a key (user, type, category), a time and a severity, chosen freely
at the start; tasks run in any order of these times, as replays do. The two
look-ups for an incident that already has the event are one step, since only
the event's own task could make one. The script's reads of the source events
are part of `ReadIncidents` (an event's type and time do not change), and its
`delete_many` and `insert_many` are one step each. A sort is a choice of a
sequence that the order allows (`InOrder`): of events of equal dates the code
keeps those of the incident read first, the model may keep either, one choice for
each list; nothing that is checked depends on it. A member's place is the row and
the position where it is listed first (`Row`, `Place`), since the script drops
later repetitions.

### NetworkGuard

A thread per exec event (`Inspectors`) and the thread of the egress guard
(`Guard`) run the same steps: suspend, take the next file, ask the server,
resume or kill. Sending a signal and entering the process in `_suspended_pids`
are two steps, because stop(), which runs in the signal handler, may take its
copy between them; the copy (`releasing`) is worked off process by process. An
inspector takes up its pairs one at a time, the guard all at once before it
looks for a policy: hence the two ways `handled` grows, and the two ways it is
cleared. `signalled` is the set of processes that `_may_signal` admits and the
agent has the right to signal, fixed at the start. Ghosts: `decided` counts the
judgements of a pair, `forgotten` says that `handled` was cleared, `orphaned`
holds what was frozen when the agent ended. The server's answer is a free
choice; that the read of `self.running` precedes the suspension by any number of
steps is in the model.

### ReadGuard

`mark` is what the kernel knows and `markedFiles` what the agent believes: a mark
sits on an inode, so a file that is replaced (`Edit` with `inPlace = FALSE`) loses
it. `content` is what an evaluation would find, `version` counts the changes, and
`key` stands for the size and the time of modification in whole seconds, by which
`_sensitive_cache` knows a file: a change within the second of the one before that
keeps the size keeps the key (`Edit` with `sameKey`; `AlikeEdits` bounds which of
the changes may). The cap of 500 files is left out. `_file_is_sensitive` is three
steps (`Look`, `Read`, `Evaluated`) and setting a mark two (`Mark`, `RecordMarked`),
since files may change, other threads may work on the same file, and opens may be
held between any of them. The kernel queues opens of marked files in order; the
responder takes one, perhaps reports it, answers. The agent's own reads are in that
queue like everybody's. The read for the hash in `handle_file_event` is counted to
the handler it starts. One report thread stands for all reports of a file.
`_net_lock` appears where the responder wants it: others hold it for a few
statements. `AgentEnds` is stop() and a kill alike, since the kernel does the same
on either. The ghost `disturbed` holds the files that changed while a thread of the
agent had them in hand or an earlier change was unhandled, those whose change
`handle_file_event` passed over, and those that changed under a key the agent had
cached: what `ListedIsMarked` and `EventuallyGuarded` exclude, and `CacheIsRight`
where the last change kept the key.

### SubmitGuard

A press of the button is a pointerdown and a click, an Enter a keydown and its
repeats (mousedown and mouseup are treated as the event before them); `pressed`
is the gesture that is under way, `last` the entry of `lastVerdict`, whose age is
one of three: within `GESTURE_MS`, within `GESTURE_MAX_MS`, beyond. What the user
types is one item, `Text`. A file has a place (in the composer, removed, or in
the message but for the moment not in the page, because its row is drawn anew), a
record with the inspector and a sight, the inspector's memory of when it saw it:
`seenInCompose` and `misses`. An image in the body that nothing claimed is
`inline`, and fetched at the start of a hold; a document of which there is but a
name is `stray`.

A hold goes through the promises of `holdAndDecide` one by one, and everything
else goes on between them. The worker evaluates item by item and shows nothing
before it is through, so an evaluation is one step with an answer or none for
each item; it may fail, answer late, or die with the worker. What is sensitive is
the server's to say: a free choice. So is the cached policy that decides when
nobody answered, and whether a redaction can be written into the page. What the
guard gathers may throw. Before the hold it then fails open (`FailOpen`): the event
passes unjudged, and what follows of the gesture with it (`failed`). In the hold
it fails closed (`GatherAgain`). Ghosts: `outcome` and `gestureOf` of each hold,
`passed`, the gestures of which the application got an event that was not a
replay, and `failed`, those of them that the guard could not judge.

Left out: a press longer than `GESTURE_MAX_MS`, several buttons of one page, and a
change of the policy within a gesture. It is assumed that nothing throws between
`verdict.held = true` and the first promise of `holdAndDecide`, that is in the
notice it shows; an exception there would leave the button waiting for a verdict.

### ReplyGuard

A reply is as long as its pieces; `Enough` of them are the 40 characters below
which nothing is judged. The observer is told of elements, not of a text node
that gets longer, hence the flag of `Grow`; a new reply is always an element. The
observer's callback runs before the page is drawn again and is part of the step
that changes the page. `Harvest` is the timer of 2.5 seconds, which every change
that is observed starts anew; `inspected` is how much of the reply it hands over,
once for each reply; it and the answers of the worker may come in any
order. A policy that is not enforced counts as "alert": it judges and does not
mask. The names of this module differ from those of `SubmitGuard`, the other half
of the same file, so that one module of proofs extends both.

### ExtensionWorker

Zero is nothing: the bundled list, an empty storage, no etag, the default policy. A
catalogue is its fingerprint and stands for the etag too. The fingerprint leaves out
the name of an app (app_catalog.py:357-359), so two lists that differ in names alone
are one list here, and the server answers that nothing changed. Between two awaits
of a job the steps of the others run: `Jobs` bounds how many overlap. A start of the
browser runs `boot` twice, from the top level and from `onStartup`. `loadCaches` is
a read, which may fail (`ReadFails`), and what follows it; `registerGuardScripts`
takes its patterns once and then looks and writes for each script set. `found #
scripts[s].there` is the case in which the browser refuses a registration or an
update, and the catch leaves a set with the exact hosts only. An answer of the
server may be on its way for any time. The worker ends when it is idle (`TornDown`)
or in the middle of its jobs (`Killed`; such ends and failed reads are bounded by
`MaxFaults`); its memory is lost, its storage and the registered scripts stay. A key
that the server does not accept any more fails every request until a heartbeat
enrols the extension again.

Left out: registration of the extension in detail, the update check, the
offscreen document, the downloads hook.

## The runs

Passing runs:

| Run | Bounds | Shows |
|---|---|---|
| `EventDelivery` | 3 events, 1 malformed, spool 2, batch 1, 1 crash, a spool file that may fail to open, no attempts of background tasks | `NoUnaccountedLoss`, `ReplayInOrder`, `SpoolShrinksOnlyBySettling`, refinement of `AuditTrail` |
| `EventDeliveryLive` | 2 events, 1 crash, 3 attempts of a task | `OneTaskPerEvent`, `EventuallyDelivered` |
| `AgentSuspension` | 2 workers, 2 look-ups, TTL 1, time to 2 | `StaleAtMostTTL` |
| `LinuxPolicySync` | 3 policy sets, 2 handlers, 2 edits, 2 faults, error answers, broken-off installations, failed writes of the USB file | `CachedWasCommitted`, `BlockingSetBlocks`, refinement of `PolicyRollout`, `EventuallyCurrent` |
| `IncidentCoalescing` | 3 events, 2 keys, times 0..2 with window 1, cap 2, 2 updates | `SummaryIsOfItsEvents`, `InOneIncident`, `SettledStaysAsItIs` |
| `NetworkGuard` | 1 process, 2 files, 1 inspector and the guard, `MaxHandled` 1, 2 runs of the agent | `FrozenOnlyInHand`, `JudgedOnce`, `EventuallyReleased` |
| `ReadGuard` | 1 file, 2 changes of which the first may keep the key, 1 sweep, 1 handler, 1 reader and the reports, restarts | `CacheIsRight`, `ListedIsMarked`, `EventuallyAnswered`, `EventuallyGuarded` |
| `IncidentMigration` | 3 events, idle server, 1 run | `NothingIsLost`, `InOneIncident`, `SessionsAreApart` |
| `SubmitGuard` | 1 file and the text, 2 gestures, 2 holds, 1 change of the policy, a guard that may throw | `ReleasedByItsVerdict`, `OneSendPerGesture`, `NoneSlipsPast`, refinement of `SendGate`, `HoldEnds` |
| `ReplyGuard` | 2 replies of up to 3 pieces, judged from 2 on, 1 change of the policy | `ReadableIsReleased`, `LongReplyIsSettled` |
| `ExtensionWorker` | 2 jobs, 2 catalogues, 2 policies, 2 script sets, 1 edit or stale key, 1 end in the middle or failed read; deadlock checked | `EtagNamesCatalog`, `AnsweredAsStored`, `ServerIsFollowed` |

The bounds are the smallest at which the cases differ: two events make an order and
a race, the third is queued behind both or is the refused one; a batch of one and a
spool of two exceed either limit; with two workers one is not told; two look-ups
overlap; two handlers overtake each other; a cap below the number of events drops an
id; three times with a window of one have pairs within and beyond it; a thread takes
up files of its own process only, so processes meet in no more than the limit of the
set, which one pair reaches and two exceed (what the run shows of `JudgedOnce` is
before the set is cleared, the proof covers any limit); the background tasks of the
server meet the events only when they are accepted, so that two events show what
there is of them, and the run with three goes without; threads of the read guard
meet on a file only, in the queue one open behind another, and two changes are one
to be handled and one that comes in between. In the extension, holds meet only
through the button they share and the answers that come late, for which two suffice;
files do not look at each other, and one file beside the text makes a message mixed;
a reply that is too short, long enough and still growing has up to three pieces;
jobs of the worker meet on one cache and on one script at a time, and of two script
sets one is registered when the worker ends. `ExtensionWorker` starts from the first
of each kind of list, since they differ in nothing but their number.

A run that TLC refutes, a statement the documentation makes and the code does not
keep:

| Run | Statement | What happens |
|---|---|---|
| `LinuxPolicySyncErrors` | linux/README.md:244-247, monitoring off until someone notices is the wrong failure mode | one 500 disables everything and every later sync is `up_to_date` |

Further statements of the repository that the models contradict; the steps are
in the modules, but no run is kept for them:

* README.md:12, agent.cpp:2233-2234, a block never happens without an audit
  record: a full spool drops the new event (`SpoolEvent`), and one the server
  refuses is discarded (`PostAnswered`).
* events.py:995, "Retries up to 3 times on transient failures": a retry starts from
  the top, so the actions of an event are taken again when a later step failed
  (`ProcessEvent`).
* agent.py:727-732, "success": version and status are taken over before the bundle is
  applied, so that after an exception in `_apply_policy_bundle` the old or a mixed set
  is enforced and every later sync is `up_to_date` (`InstallBreaksOff`).
  `EventuallyCurrent` excludes an endpoint that reports for good what it does not
  enforce.
* agent.py:1877-1899, the agent believes in the USB block if modprobe ran, though the
  file that makes it last was not written; 1904-1916, and in its end though the file
  is still there (`BlockUsb`, `UnblockUsb`). `BlockingSetBlocks` excepts both.
* agent.py:5126, "so an unchanged file is classified once": so is one that changed
  within a second and kept its size, since the key has whole seconds (`Edit` with
  `sameKey`, `Look`); the sweep goes by the old verdict until the file changes again.
* agent.py:1860, the USB block matches the current policy: a restarted agent does
  not know of the block on disk, and a bundle that no longer blocks leaves it
  (`ReconcileUsb` after `AgentStops`).
* agent_suspension.py:76-78, 210, a pause "takes effect immediately": other
  workers keep their entries, and a look-up in flight stores its older verdict
  after the invalidation (`LookupStores`). `StaleAtMostTTL` is what does hold.
* agent_suspension.py:161, a pause lasts "until someone resumes it": a heartbeat
  that read an expired pause clears one set since (`HeartbeatClears`).
* policies.py:46-47, fresh bundles after a mutation: a handler stores an older
  one after the invalidation (`StoreBundle`); it expires in the end.
* agent.py:751, "Turn every channel off": USB storage stays blocked (`DisableAll`).
* README.md:12, endpoints enforce the last policy after a restart without a
  server: the Linux agent keeps its bundle in memory only (`AgentStops`).
* events.py:1193-1195, one incident instead of one per event: two tasks that
  both found none each create one (`CreateIncident`); events.py:1260-1261, the most
  recent incident is joined: the update has no sort (`Coalesce`).
* coalesce_incidents.py:7-8, an accurate count: it counts what the cap left
  (`Merged`); lines 11-12, it replaces the collection: beside a working server it
  deletes incidents it never read (`DeleteIncidents` with `Concurrent`).
* agent.py:4063-4064, a process is judged "while the process is suspended, before
  it can read": a second thread that finished with it resumes it (`Resume`).
* agent.py:5162, "unmark the rest": a file that turned harmless in place keeps its
  mark, since the handler strikes it off the list (`Forget`) and sweeps unmark only
  what is listed (`Judged`); and a sweep that unmarks between the two steps of a
  handler (`Mark`, `RecordMarked`) leaves a listed file without a mark.
* agent.py:570-571, "a stop never leaves a user's process frozen": a thread
  suspends beside stop(), after it took its copy of the set, and ends with the
  agent (`Stop`, `RecordSuspended`, `AgentStops`, `Release`); `orphaned` holds these
  processes.
* agent.py:5234-5235, without the handler "an edited sensitive file would quietly
  stop being guarded": a file that is replaced while its event falls in the five
  seconds' window of `handle_file_event` (`OverlookNotice`) stays in
  `_marked_files` without a mark, and no sweep marks the new inode (`Judged`).
* coalesce_incidents.py:10-12, "Safe by default", backs up: a second run after the
  first died between deletion and insertion drops the only copy (`DropBackup`
  after `ScriptDies`).
* activity-guard.js:1233, "`click` ends the gesture": not one that is cancelled
  because a verdict is awaited. `completed` stays unset, and a click without a
  pointerdown (an assistive tool's) within 15 seconds of the press is taken for part
  of the old gesture and cancelled (`HandleSubmitAttempt`, `ReusesVerdict`).
* activity-guard.js:272-276, a throw that "silently let sensitive mail through": what
  is done against it is that the names agree, and the catch is still there; when
  `gather` throws before the hold, the guard fails open (1275-1279), `held` is unset,
  and the rest of the gesture passes under a policy that holds (`FailOpen`,
  `PassesUnjudged`).
* background.js:829-830, an attachment cannot be redacted and "is blocked instead": only
  one that the inspector tracks counts (839-841). A message whose text is masked
  goes out with a document of which the page knows but the name (`Combined`,
  `stray`).
* activity-guard.js:1026-1027, the gesture is replayed "after a held submit came
  back clean": text typed and files added while the verdict is awaited go out
  without inspection (`Attach` before `Resume`).
* attachment-inspector.js:335-340, "Two consecutive misses, not one": the end of
  the wait and the second gather look in the same instant, so one redraw of a row
  is two misses (`InspectionsSettle`).
* background.js:643-644, "null is meaningful and must not be conflated with
  'allow'": an item without an answer is passed over if another was answered, and
  the message goes out by the others (`Combined` with `heard # {}`).
* background.js:66-69, the "ceiling on the whole decision" is applied to each item,
  so that the page's own 12 seconds may be over before the second one ends
  (`VerdictTimeout` before `EvaluateActivity`).
* background.js:1508-1510, "the cached policy is the honest answer": the router
  answers "allow" (`EvaluationFails`).
* activity-guard.js:1521, "Anything else releases it": a reply of fewer than 40
  characters is never judged and stays masked; so does one that was masked under
  "block" and harvested after the cell became another, because only a request made
  under "block" reveals (`Harvest` with `holding = FALSE`).
* activity-guard.js:1542-1543, "captured once, complete": a reply that pauses for
  2.5 seconds is handed over as far as it is, and what streams after it is never
  inspected and is read with the rest (`Harvest`, `Grow` after `Verdict`).
* background.js:484-488, caches are reloaded since a worker that answered "not
  catalogued" "would leave a page unguarded": when the storage cannot be read the
  page is told that it is in no catalogue, although one is stored (1500,
  `ReadFails`).
* background.js:569-575, the guard is on every catalogued host: of two boots that
  both found no script, the second is refused and leaves the exact hosts only,
  until the next boot (`WriteScript`). A boot that read the storage before a
  synchronisation wrote it puts the older list back into memory (`LoadForBoot`);
  `EtagNamesCatalog` says that the next request then says so.

`CHECK_DEADLOCK FALSE` is set where a model may come to rest: all events have
been raised and handled, or the bounds are used up.

## Fairness

`EventDeliveryLive` assumes that the agent's threads run, that a call ends by an
answer or by WinHTTP's timeouts, that the heartbeat repeats (its loop catches
everything), and that a server that stays up answers some of infinitely many
calls: strong fairness of `FlushAnswered`, because a timeout may pre-empt any
single one. `SpoolEvent` waits for a mutex that the heartbeat thread releases
between beats and the operating system hands out fairly; hence strong fairness.
Nothing is assumed of crashes, of the server's stops, or of the network.

`LinuxPolicySync` runs under `FairSpec`, which assumes that systemd restarts the agent
(`Restart=always`), that the sync loop goes on, that the server's handlers end,
and that Redis lets an entry expire. Edits and faults have no fairness; they are
bounded, so they come to an end.

`NetworkGuard` assumes that the threads run, which includes that a call to the
server ends by its timeout of 15 seconds; nothing is assumed of stop(), of the
killing of the agent or of its restart.

`ReadGuard` assumes that the agent's threads run, that sweeps are repeated
(`_mark_refresh_loop` catches everything), and that one of infinitely many
evaluations has a verdict: strong fairness of `Read`, since any one may find
neither server nor labels. `SendReadDenied` waits for a lock that others hold for
a few statements and free again; strong fairness says that it is had in the end.
Readers, edits, stop(), kills and restarts have no fairness.

`SubmitGuard` assumes that the timers of the page fire and that the fetch of an
image out of the page ends; the code sets no time-out on the latter. Nothing is
assumed of the inspections, the worker, the server or the user: the waits of the
page end without them. `ReplyGuard` assumes that the page is quiet for 2.5 seconds
now and then and that a request ends, by its timer if not before.

`ExtensionWorker` assumes that the worker is idle long enough to be torn down
again and again (and hence that its jobs end, since every request has a time-out,
and that the alarms wake it), and that of the heartbeats and requests that are
sent again and again some arrive: strong fairness. Edits, stale keys, ends in
the middle and failed reads are bounded; a write of the storage that fails is not
modelled.

## What is proved

TLAPS checks these for all values of the constants that satisfy the named
assumptions of the modules.

* `EventDeliveryProofs`. `EventsHaveOneTask`, for any number of attempts: a task is
  queued only by the request whose insert was the first of its id
  (`CreateEventQueuesOnce`), so the stored ids and the queue are carried along
  (`QueuedOnce`). `NothingIsLostUnaccounted` and `LinesLeaveOnlyBySettling`
  come from one invariant: `NoUnaccountedLoss` says nothing of an event that the
  replay has passed and not yet removed, nor of one whose only copy is in memory
  between the truncation and the writing back. `FlushInRange` says where the
  replay stands in what it read and that the file is still what it read
  (`spoolMutex`), `SpooledIsOver` that a spooled event has left its thread,
  `PassedAreSettled` that what the replay has passed is settled,
  `SettledIsAccounted` that what is settled is stored or has a cause not to be,
  and `HeldIsNotLetGo` that a cause is given only when the last copy goes.
  `ReplayKeepsOrder`: `ReplayInOrder` looks back at what was settled, so it needs
  the file to come in the order of the log (`InOrder`) and everything in the log
  to be settled, destroyed, or still on the file (`LogAccounted`): what was
  spooled before the line at hand stands before it, and is settled.
  `DeliveryImplementsTrail`: every step maps to one of `AuditTrail` or to none. The
  mapping holds in `DeliveryInv`, which adds to the invariants above that a request
  still on the network is about an event that was raised. A step records at most
  one event (`StepAnswersOne`), raises one (`RaiseMaps`), or ends some of those
  under way (`StepEnds`).
* `AgentSuspensionProofs`. `BoundedStaleness`: a verdict that is still used is
  right or was overtaken less than a TTL ago. The property is not inductive: a
  call that has read but not yet stored can make it false later. `IInv` adds that
  such a call read the current document or started before it was last
  written (`OldReadsAreDated`), that a wrong entry expires within a TTL of the
  change (`WrongEntriesExpire`), and that nothing is dated in the future
  (`DatesArePast`). The lemma `ChangedOnTick` handles the one change nobody
  makes: a deadline that goes by.
* `LinuxPolicySyncProofs`. `BlockingIsInPlace`: inductive with the types, since
  every bundle that is wholly applied ends with `ReconcileUsb` and nothing else
  touches the block (`AppliedBlocks`); a failed write leaves `usbFailed` until the
  next one. `NothingElseIsCached` needs that a handler about to store holds a
  committed set (`LoadedWasCommitted`). `EndpointImplementsRollout`: every step maps
  to one of `PolicyRollout` or to none, since what was answered is a committed set
  or the empty one of a pause (`GivenWasCommitted`), and the one request that is
  waited for names what is installed (`AwaitedIsCurrent`), so that an answer to an
  abandoned request is never installed and nothing is installed twice in a row.
  `TurnedOffStaysOff` draws from it what is behind the finding about one error
  answer: the set that is still reported as installed is not taken up again without
  another set or a restart between.
* `IncidentProofs`, about the tasks. `NothingIsCountedTwice`: from the ledger of
  which task put its event where; `SettledIncidentsRest`: an action property, from
  the types. `Capping` and `Appending` say what the cap leaves of a list. `SumsAreRight`:
  the property relates an incident to the events whose tasks put them there. `Sums`
  carries along that an incident exists exactly when it took an event in, that only
  its own task makes the incident named after an event, and that count, last date and
  severity are the cardinality, a maximum and a maximum of the events taken in;
  `OneMore` counts one more, `TakingIn` adds one to a maximum.
* `IncidentProofs`, about the script. The definitions that sort and group are
  reasoned about without induction over lists: a finite set of numbers has a least
  element, a set under a total order a last one (`LastOne`, the least
  counterexample), and so a sequence that is in order and without repetitions exists
  (`Arrangement`) and is what `InOrder` chooses (`InOrderArranges`). `StartOfIsLast`
  and `Sessions`: every incident is in a session, and being in one is an
  equivalence; `SessionsFarApart`: two of one key are further apart than the window.
  `MergedIs` collects what the script makes of a session. `NothingIsMergedTwice`:
  that no event is in two incidents is not inductive once the collection can be
  emptied and filled again. `OnceEverywhere` says the same of what was read, that
  after the deletion the collection and what was read share nothing, and that what
  an unfinished task would put somewhere is nowhere, so that a server that works
  beside the script adds nothing that is added again. It holds of any number of runs
  and of deaths between any two steps. `MergedSessionsAreApart` supposes that the
  server rests while the script runs (`~Concurrent`): beside a working server the
  property is false, since an incident made between the deletion and the insertion
  stays as it is. `BackedUpBeforeDeleted`: `Kept` says where the events are at each
  step of the script; before the deletion in the backup, which is what was read, and
  after it in what is inserted, since `MergingKeeps`. It supposes that the server
  rests, that the cap leaves room for every event (a union over the cap drops ids by
  design), and `NotStartedAgain`: a second run after a death between deletion and
  insertion reads an empty collection and drops the only copy, which TLC shows with
  two runs. Without one of the three the property is false. `OneRunLosesNothing` is
  the case of a single run, `MaxRuns <= 1`, where the third holds by itself.
* `NetworkGuardProofs`. `FrozenInHand`: inductive with the types, since every
  step that ends a thread's work on a process first resumes or kills it.
  `PairsJudgedOnce`: `JudgedOnce` says nothing of pairs that are taken up and not
  yet judged. `Judging` adds that a pair has at most one owner, none when it was
  never taken up or is already judged (`OneOwner`), and that the file at hand is
  off the guard's list (`TakenUpIsOffTheList`). `Handover` is the step common to
  all: ownership passes only to the thread that takes up a fresh pair and ends
  when the pair is judged.

* `ReadGuardProofs`. `CachedVerdictsAreRight` and `ListedFilesAreMarked` come from
  one invariant. `CacheIsRight` alone is not inductive: a thread may bring a stale
  verdict. `ThreadsInformed` adds that what a thread in the middle of an evaluation
  read is what the file holds or is older than the file's key, and that a thread
  about to list a file has marked it, unless the file is disturbed; `CacheDated`
  that nothing is cached for a key still to come and that no key is ahead of the
  changes, and `ClosedIsEmpty` that between two runs of the agent nothing is listed
  or in hand. `ListedIsMarked` stands on the handler's first act: the file leaves
  the list before anything else is asked.
* `ActivityGuardProofs`, about Send. `ReleasedByItsVerdict` and `EndsOnce` are about
  one hold and its evaluation: `HoldInv` says that only the last hold is open
  (`HoldIsLast`), that nothing is known of holds to come (`NoneAhead`), and that an
  answer and an outcome follow from what the server said (`VerdictInv`).
  `OneSendPerGesture` and `NoneSlipsPast` are about gestures: `GestureInv` says that
  every gesture is held once or passed, and never both. For that, an event that is
  still to come of a gesture that was held must find a verdict that is in force and
  says so (`HeldPress`), and one of a gesture that passed a verdict or a policy that
  let it, or a guard that failed on it (`PassedPress`). `HeldThroughout` adds what
  an unchanged policy gives: nothing passes but what the guard failed on.
  `GuardImplementsGate`: every step maps to one of `SendGate` or to none. `GateInv`
  adds to the above that a hold that has not ended is the one under way
  (`OpenIsLast`), so that one gesture is held at a time. `EventFits` says of each
  event that it is of a fresh gesture if it is held, and of none that was held if it
  passes; `GateHandled` makes a step of the gate of it, `GateEnds` of the end of a
  hold. `Standing` is `GateOf` in terms of the list of holds alone, the same before
  and after a step.
* `ActivityGuardProofs`, about replies. `NoneIsReadUnreleased`: under a policy that
  blocks, what can be read was handed over when it was long enough to be judged, and
  answered without a block; not that all of it was (see `inspected`). The property
  speaks of what can be read, and is false again after a step unless what is masked
  stays so. `ReplyInvariant` adds that the observer is installed as soon as the
  policy asks for it, that a reply is handed to decide only while it is on the page,
  and, under a policy that blocks and was never changed, that every reply not yet
  handed over is masked and every request holds its reply. `Masking` is the step
  common to all: the observer runs before the page is drawn again, so what appears
  or grows unjudged is masked in the same step.
* `ExtensionWorkerProofs`. Both properties come from `WorkerInv`: what a job read
  of the storage belongs together (`ReadTogether`), what it carries is of the right
  kind (`CarriesItsKind`), and what is in storage when a page is about to be answered
  is in what its job read or else in memory (`ReadOrInMemory`): what was not yet
  stored when the job read, another job put into both.

Model-checked only: liveness (`EventuallyDelivered`, `EventuallyCurrent`,
`EventuallyReleased`, `EventuallyAnswered`, `EventuallyGuarded`, `HoldEnds`,
`LongReplyIsSettled`, `ServerIsFollowed`), which needs fairness and ENABLED, and the
one violated claim, `RecoversFromErrors`. Every invariant and action property that a
run checks is also a theorem.

## Not modelled, and why

Content classification, policy matching and the layout of documents are data and
abstracted away: where the answer of the server matters, it is a free choice.
Further:

* the contents of the browser extension that decide nothing about order:
  patterns, profiles, the upload interceptor in the page's world (one request, one
  answer), the host of the text recognition; the vendored PDF reader;
* the Windows monitors and the minifilter: they are calls into the kernel's and
  Windows' own queues and locks, whose rules are not in this repository;
* the Windows bundle file and the header-only policy store: nothing runs beside
  them, and the agent does not instantiate the store;
* the Linux agent's file, transfer, clipboard and USB-device monitors: sequences of
  calls within one thread on what udev or inotify reports; what of them meets the
  read guard is in `ReadGuard`;
* SMTP relay: one message at a time, nothing kept between messages;
* registration and lifecycle of agents, USB authorisation, authentication, rate
  limits: reads and writes of single documents; what a registration means to an
  endpoint is in `LinuxPolicySync` and `ExtensionWorker`;
* policy evaluation, event processing and actions: tables and calls to other
  systems; the life of the task around them is in `EventDelivery`;
* reports, analytics, SIEM, connectors, dashboard, installers: queries, user
  interface and shell scripts.
