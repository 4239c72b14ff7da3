# A verification of LifeLoop in TLA+

LifeLoop coordinates the government services that follow a birth: a case holds a graph of
services (birth certificate, MOFA attestation, consulate passport, residence visa, Emirates ID,
insurance), an orchestrator prepares each one when the ones before it are done, an officer
releases it, a consumer files it with the authority, and status comes back by polling. Everything
between the steps travels as events through a transactional outbox. A browser application shows
residents and officers their cases live and lets residents talk to an assistant. This directory
models that core, checks it with TLC and proves its main properties with TLAPS.

Paths below are relative to `src/backend/app`, those of TypeScript files to `src/frontend/src`,
unless they start with `docs/`.

## 1. Inventory

| Part | State | Operations | Hard behaviour |
|---|---|---|---|
| Node state machine (`workflows/state_machine.py`) | the table `ALLOWED` | `assert_transition` | must reject what late events ask for |
| Case graph and orchestrator (`services/graph_service.py`, `workflows/case_orchestrator.py`) | nodes, edges | `build`, `transition`, `unlockable`, the orchestrator graph | runs only when an event wakes it |
| Officer gate (`services/approval_service.py`) | approvals | `request`, `approve`, `reject`, `request_documents` | races with submissions and statuses |
| Entity filing (`services/entity_service.py`, `integrations/government/`) | entity requests | `release`, `submit`, `retry`, `poll`, `_refile`, `apply_status`, `simulate` | calls an authority for up to fifteen seconds between read and write; timeouts that may have succeeded; duplicates |
| Documents (`services/document_service.py`) | document status | `upload`, `set_status`, `mark_missing`, `resume_after_documents`, `register_outputs` | moves nodes of the whole case |
| Consulate (`services/consulate_service.py`) | the parent's reports | `report` | the only source of truth is the parent |
| Event pipeline (`events/`) | outbox rows, broker messages, receipts | `emit`, `relay_once`, `dispatch`, `_run` | crashes, redelivery, duplicate publishes, back-off, dead letters |
| Workers (`workers/`) | loops, the pause gate | relay, consumer, poll, dial, SLA watchdog | everything above runs interleaved |
| Callbacks and consent (`services/callback_service.py`, `consent_service.py`) | callbacks, consents, opt-outs | `request`, `dial_due`, `sweep_unanswered`, `cancel_pending`, `opt_out`, `opt_in` | dialling races with opting out |
| Calls, webhooks, verification (`services/call_service.py`, `webhook_service.py`, `verification_service.py`) | call sessions, verification attempts | `start`, `answer`, `turn`, `end`, `process_post_call` | duplicated and late webhooks |
| Case status, escalations (`services/case_service.py`, `escalation_service.py`) | case status, escalations | `refresh`, `open`, `take`, `resolve` | derived state, lost updates |
| Notifications (`services/notification_service.py`) | notifications | `notify`, `deliver` | sent before recorded |
| Voice page (`hooks/useVoiceCall.ts`, `pages/resident/Voice.tsx`) | the call shown, what the agent is doing, an ElevenLabs session | `start`, `answer`, `send`, `end`, `reset`, leaving | every function waits for requests while the page changes |
| Live view (`hooks/useLiveStream.ts`, `queries.ts`, `events/stream.py`, `api/v1/cases.py`) | cached queries, a stream, a queue per subscriber, a timer | `publish`, `_sse`, `invalidateQueries`, `refetchInterval` | messages are lost with connections, tokens and full queues |
| Authentication, access, agent, rest of the frontend | tokens, sessions, forms | login, refresh, roles | not part of the core |

Interaction: an API request, a job iteration or a consumer run is one database transaction that
changes rows and writes events to the outbox. The relay publishes the events of a case in one
partition per topic; one consumer task takes them one at a time. The handlers `orchestrator`,
`entity-submitter` and `entity-status` close the loop by calling the same services the API calls.
API requests and jobs run between any two steps of the consumer, and under READ COMMITTED between
the statements of each other. A commit also publishes its messages to the in-process hub, which feeds
the event streams of the pages; the pages fetch again what they show. The voice page calls the same
API, and holds a call the server knows as ACTIVE.

What makes the parts correct: nothing is filed without an officer's release; a node starts when,
and only when, its dependencies are done; a done node was confirmed and stays done; a node is
never parked where nobody can move it; no event is lost, applied twice, or reported handled when
it was not; a case whose services are done is completed, once; a page shows what was committed; a
call the resident has left is not left open on the server.

## 2. Modules

| Module | Models | |
|---|---|---|
| `NodeStates` | `state_machine.py`, `enums.py` | the transition table |
| `CasePromise` | what a case promises the family and the officers | abstract |
| `OfficerGate` | the officer gate of one filing, each operation a single step | abstract, extends `NodeStates` |
| `CaseFiling` | graph, orchestrator, officer gate, filing, documents, consulate of one case | extends `NodeStates`, implements `CasePromise`, and `OfficerGate` for each filing |
| `MCCaseFiling` | | graphs for TLC |
| `CaseFilingProofs` | | proofs about `CaseFiling` |
| `CaseGateProofs` | | that every filing passes its gate |
| `ReliableDelivery` | what the pipeline promises | abstract |
| `Outbox` | recorder, relay, broker, dispatcher | implements `ReliableDelivery` |
| `OutboxProofs` | | proofs about `Outbox` |
| `Callbacks` | callbacks, consents, opt-outs and outbound calls of one case | |
| `MCCallbacks` | | symmetry for TLC |
| `CallbacksProofs` | | proofs about `Callbacks` |
| `CaseStatus` | `CaseService.refresh`, escalations, the orchestrator's completion | extends `NodeStates` |
| `MCCaseStatus` | | symmetry for TLC |
| `CaseStatusProofs` | | proofs about `CaseStatus` |
| `Decisions` | the officer gate of one node as overlapping transactions | extends `NodeStates`, implements `OfficerGate` while transactions do not cross |
| `MCDecisions` | | symmetry for TLC |
| `DecisionsProofs` | | proofs about `Decisions` |
| `VoiceCall` | the voice page, its requests, the calls and sessions behind it | |
| `VoiceCallProofs` | | proofs about `VoiceCall` |
| `LiveView` | the queries of a page, the event stream, the hub | |
| `LiveViewProofs` | | proofs about `LiveView` |

`CaseFiling`, `Decisions` and `CaseStatus` look at the same case at three grains: `CaseFiling` has
every operation and takes an API request as one step; `Decisions` splits the officer's operations on
one node into what they read and what they commit; `CaseStatus` does so for whatever changes the
case's status. `Callbacks` and `VoiceCall` share calls in the same way: there the callback that rings,
here the page that answers.

### CaseFiling

`node[n]` is the node's `state`; `pending` the nodes with a `PENDING` approval; `granted[n]` counts
`APPROVED` ones; `attempts`, `request`, `filed` are the attempts column, the entity requests (the
k-th release of a node has the k-th request and idempotency key) and those with an `external_ref`;
`outstanding` the documents that are `MISSING` or `EXPIRED`. `releases` and `statuses` count
undelivered `EntityRequestReleased` and `EntityStatusReceived` events, `wake` says that an
orchestrator trigger is undelivered. `submission` is the call `entity-submitter` is waiting for,
with the node state it loaded. `application` is the authority's own record, `confirmed` a history
variable. The events are kept as bags: the pipeline may reorder and repeat them (see `Outbox`).

| Action | Code |
|---|---|
| `Orchestrate` | `check_dependencies`, `plan_next_action`, `entity_action` |
| `Approve` (with `release`), `Reject`, `RequestDocuments`, `Prepare`, `Retry` | `ApprovalService`, `EntityService.release`, `retry` |
| `ProvideDocument`, `SetDocumentStatus` | `upload`, `set_status`, `resume_after_documents` |
| `Report` | `ConsulateService.report` |
| `SkipSubmit`, `SubmitRefused`, `SubmitCall`, `SubmitCommit`, `SubmitFails`, `CrashInSubmit` | `EntityService.submit` and its consumer |
| `Poll`, `Refile`, `Simulate`, `ApplyStatus` | `poll`, `_refile`, `simulate`, `apply_status` |
| `SlaWatchdog` | `jobs.sla_watchdog` |
| `AuthorityDecides`, `AuthorityForgets` | the authority (external; `AuthorityForgets` is the mock's cache expiring) |

Every action is one transaction except the submission: `submit` loads the node, waits for the
authority and commits against what it loaded, with everything but the consumer running in
between. SQLAlchemy writes a column only when the session changed it, which is why `SubmitCommit`
leaves the node alone when its target is the state it loaded. Two constants describe what officers
do: `OfficerAsksEarly` (they ask for documents of nodes that have not started; the API allows it)
and `RetryOverlaps` (they retry while the event of the same release is undelivered). Both are TRUE
in the code; a run or theorem that needs one FALSE says so.

`CasePromise` says what all of this amounts to, without requests, events, documents, retries and
crashes: `started` nodes, `granted` releases, the filings authorities hold (`held`), what they
`confirmed`, and `done` nodes. `Start` needs the dependencies done (when officers ask for documents of
started nodes only), `File` and `Confirm` a granted release, `Finish` the parent's report or a
confirmation; only `Lose` takes something back. `CaseFiling` implements it under a mapping of its
states and records: a step is one of these or changes none of it.

`OfficerGate` says what the gate of one filing does, when each operation decides from what is so at
that moment: `Approve`, `Reject`, `Ask`, `Prepare`, `Resume`, `Document`, and `Move` for everything
else that happens to the node, which follows the transition table or is the late outcome of a
submission and neither reaches the gate nor goes from it to `SUBMITTING`. Each filing of `CaseFiling`
passes through a gate of its own (`Gate(n)`, the property `PassesGate`), although one step may move
several nodes and change documents that several of them need. The gate of `Decisions` is the same
module under another mapping, and `UncrossedIsSerial` says when its transactions are such steps.

Left out: case status, escalations and callbacks the orchestrator triggers, access checks, the
content of forms and documents, and `CLOSED` cases (nothing closes a case in this code).

### Decisions

`node` is the state of one node, `attempts` its column, `approval[k]` its approvals in the order they
were asked for, `request[i]` the approval under which the request of attempt `i` was made (0: none;
the attempt is the idempotency key of `release`), `missing` whether a document it needs is
outstanding. `tx[c]` is what client `c` has read; a commit writes the columns its session changed.
`fresh` and `crossed` are history: whether a transaction committed over what others had committed.

| Action | Code |
|---|---|
| `BeginApprove` / `Approve` | `approve`, `release` |
| `BeginReject` / `Reject` | `reject` |
| `BeginAsk` / `Ask` | `request_documents` |
| `BeginPrepare` / `Prepare` | `request`, from the orchestrator or an officer's prepare |
| `BeginUpload` / `Upload` | `upload`, `resume_after_documents` |
| `Rollback` | a handler that raises, a connection that is lost |
| `Move` | what `CaseFiling` does to the node: filing, statuses, retries, reports |

A transaction reads at one instant. The first statement that writes locks the node's row, so the
rest of it is one step. `Move` is `OfficerGate`'s, so whatever `CaseFiling` may do to a node can happen
between a read and a commit, late submission outcomes included. `Occurring` restricts where it goes,
to keep an instance small; the theorems hold for any choice.

### CaseStatus

`node[n]` is the part of a node's state that `refresh` tells apart (done, waiting for the parent,
waiting for an officer, other), moved along the image of the transition table; `escalation` the
escalations, `status` the case's, `announced` the `CaseCompleted` events recorded, `wake` the
undelivered triggers of the orchestrator. `txn[c]` is a transaction: what it read, then the status it
computed. `drift` and `lapsed` are history.

| Action | Code |
|---|---|
| `ReadMove`, `ReadOpen`, `ReadResolve`, `ReadComplete` | `transition`, `EscalationService.open`, `resolve`, the orchestrator's `evaluate_state` |
| `Write` | `refresh` and the flush that locks the row |
| `Commit`, `Abort` | the commit, or the unique index on `CaseCompleted`'s key refusing it |
| `Take` | `EscalationService.take` |

Two transactions at once move different nodes; risk is written like the status and left out.

### VoiceCall

`page` holds what `useVoiceCall` and `Voice` keep: where the resident is, the agent's state, the call
shown and the state shown of it, the session in `live.current`, whether the banner's link was
answered. `requests` are the page's requests with the rest of their function: sent, answered, to be
continued. `server`, `agents` and `rang` are the call sessions with their state and provider, `talk`
the ElevenLabs sessions. `excused` and `astray` are history and say which calls the page has lost and
whether something reached a call it was not meant for; the properties allow exactly these.

| Action | Code |
|---|---|
| `Start`, `Answer`, `Decline`, `Speak`, `ChangeLanguage`, `Listen`, `End`, `Reset`, `Leave` | the functions of `useVoiceCall`, the buttons and effects of `Voice`, sign-out and banner of `Shells` |
| `HandleStart`, `HandleAnswer`, `TurnReads`, `TurnCommits`, `HandleOther`, `HandleEnd` | `CallService.start`, `answer`, `turn` with `_finish`, `change_language`, `end` |
| `Connect`, `ConnectFails`, `Apply`, `ApplyTail`, `SpeakFails`, `LanguageChanged`, `Transcribed`, `Ended` | what follows each `await` |
| `SpeechEnds`, `StopRecording` | `say`, `recordForServer` |
| `SessionOpens`, `SessionFails`, `ModeChanges`, `Disconnects` | the callbacks given to `startSession` |
| `AgentTransfers`, `PostCall`, `Ring`, `Sweep` | warm transfer, webhook, dial job |
| `Lose` | a request or reply that is lost or refused |

Left out: what is said, languages, mute, elapsed time, toasts, the choice of a voice.

### LiveView

A commit is a number with the case it belongs to. `unsent` are the commits not published yet,
`stream` the page's connection with the cases it may show and its queue, `due` what the timer will
refetch for, `seen[q]` the commit whose database query `q` shows, `fetch[q]` its request, `expired`
the access token. `missed` is history: the commits nothing will tell a query of.

| Action | Code |
|---|---|
| `Commit`, `Publish` | `ServiceContainer.commit`, `EventHub.publish` |
| `Admit`, `Subscribe`, `Deliver` | `stream_all`, `_sse`, the `case` listener |
| `TimerFires`, `Replied`, `Poll`, `Open` | `invalidateQueries` after 300 ms, `useAction`, `refetchInterval`, a page that is shown |
| `FetchReads`, `FetchShows`, `FetchFails` | a request of a query |
| `Break`, `Expire`, `Rotate` | a connection that is lost, a token that expires, its replacement |

How TanStack Query treats a request under way when it is invalidated (dropped for a new one, except a
first request, which is joined) is modelled as external.

### Outbox and ReliableDelivery

The events of one case on one topic, `1 .. recorded` in commit order. `status` and `waiting` are
the outbox rows, `relay` the relay's open transaction with its locked batch, `log` the broker's
unacknowledged messages, `task` the message being dispatched, `receipts` the consumer receipts,
`effects` counts handler commits (history). The relay publishes in the middle of its transaction
and marks rows at its end; the consumer runs in between. `GiveUp` waits for the relay's row lock
because it updates the same row. `Durable` chooses Kafka (messages stay until the offset is
committed) or the in-memory queue. `Crash` undoes open transactions and empties the queue;
`DispatchFails` is a database error that makes `dispatch` itself raise.

`ReliableDelivery` knows only recorded events, effects and outcomes: an effect happens at most
once per consumer, and an outcome is `DONE` if every consumer had its effect, `ABANDONED` if not.
`Outbox` implements it under `outcome[e] <- OutcomeOf(status[e])`.

### Callbacks

`db` holds the committed rows of one case: each callback's `status`, the state of its `call`
session, the callbacks `linked` to one (`call_session_id`), the `GRANTED` callback consents and the
active opt-outs. A transaction of a client (an API request or a consumer) takes two steps: `Begin`
reads the rows its handler uses into `tx[p].saw`, a commit writes what the handler makes of them.
The database runs at READ COMMITTED and no row has a version, so what was read may be stale.
The dial job takes a step per phase: `JobSelect`, then for each callback `JobCheck` and
`JobDial` or `JobDialFails`, `JobSweep`, `JobCommit`; `job.to` is what it has written but not
committed, and those rows are locked. `Requests` restricts what clients ask for, to
keep an instance small; the theorems hold for any choice. `line` is the telephone (external); `dials` and
`escaped` are history variables.

| Action | Code |
|---|---|
| `Request` | `request`, `trigger_now` |
| `Capture`, `Revoke`, `OptOut`, `OptIn` | `ConsentService`, `OptOutService`, with `cancel_pending` |
| `Answer`, `Decline`, `Finish`, `Transfer`, `PostCall` | `answer`, `end`, `_finish` with `complete`, `EscalationService.open` (warm transfer), `process_post_call` |
| `JobSelect`, `JobCheck`, `JobDial`, `JobDialFails` | `dial_due` |
| `JobSweep` | `sweep_unanswered` |
| `JobCommit`, `JobDies` | `dial_callbacks` in `workers/jobs.py` |
| `Rollback` | a request that fails |

Abstractions: a transaction reads at one instant; when a callback is due or past the ring timeout
is left open; a webhook is delivered once (deduplication is not modelled here); an escalation that
exists already makes `open` return before it transfers, which is a transfer that does not happen.
The texts of updates and the notifications are left out, and so is the branch of `dial_due` for a
case without a resident, which the foreign keys exclude.

## 3. Runs

| Run | Checks | Bounds |
|---|---|---|
| `gate` | `TypeOK`, `GateHasApproval`, `FiledUnderApproval`, `DoneIsEarned`, `DoneIsFinal`, `PassesGate` | one filing node, two attempts, two copies of every event, three statuses; about 826 000 states |
| `resolve` | `NoStrandedRelease`, `EveryReleaseResolves` | one filing node, two attempts, `RetryOverlaps` FALSE; about 143 000 states |
| `chain` | `NoLostUnlock`, `UnlockedStarts`, `ImplementsCasePromise` | filing, consulate, filing in a chain, `OfficerAsksEarly` FALSE; about 41 000 states |
| `outbox` | `TypeOK`, `NoEventLost`, `ImplementsPromise`, `EveryEventHandled` | two events, two consumers, two tries, three messages, two crashes, Kafka; about 191 000 states |
| `callbacks` | `TypeOK`, `NoSecondCall`, `DialledOnce`, `DialingHasLiveCall` | two callbacks, two clients that request, opt out, answer, decline, transfer and deliver webhooks, two consents or opt-outs, one job that dies, both providers, symmetry; about 1 780 000 states |
| `callback_ends` | `ConsentsBounded`, `ScheduledIsDecided`, `UnansweredIsSwept` | one callback that rings in the app, two clients with every operation but a transfer and a webhook, three consents or opt-outs; about 607 000 states |
| `voice` | `ActiveIsAccountedFor`, `ShownActiveIsActive`, `NoConsoleWithoutCall`, `NeverStuck`, `EndedStaysEnded` | two calls, one lost request; with a request under way the resident may end, leave, reset or start, but answers, speaks or records only without one (`MaxFlight`; the theorems have no such bound); about 6 480 000 states |
| `live` | `TypeOK`, `NothingForgotten`, `NewsArrives`, `PolledConverge`, `NeverGoesBack` | two cases, one of them the user's, a polled and an unpolled query, a queue of one, two commits, one fault; about 359 000 states |
| `status` | `AnnouncedOnce`, `StatusHeals`, `CompletionIsSeen` | two nodes, two clients and the orchestrator, one escalation, symmetry; about 493 000 states |
| `decisions` | `TypeOK`, `GateIsDecidable`, `OneRequestPerApproval`, `PendingIsAtGate`, `UncrossedIsSerial` | two clients, three approvals, four states the node is moved to, symmetry; about 2 827 000 states |
| `stranded` | violates `NoStrandedRelease` | as `gate`, with overlapping retries |
| `optout` | violates `NoRingingAfterOptOut` | one callback, simulated telephony, no fault |

Why the bounds are enough to be interesting: two attempts let a superseded request's status, poll
or submission meet its successor; two copies let a redelivered or repeated event meet the state its
first copy left; a chain of three has a node that depends on the consulate and a node that
depends on nothing; two events and two consumers let one consumer fail while the other succeeds and
a later event overtake an earlier one; three messages let an event be in the broker twice while
another is; two clients let two callbacks be scheduled at once, and one be scheduled by a request
that read before the opt-out; two callbacks let the job meet a second one after the resident opted
out during the first; a job that dies lets a callback be dialled again. Two calls let a late reply of one
meet the other; a queue of one lets it be full with two commits; two cases let one be somebody
else's, and a case that begins after the stream was opened be missed; two clients besides the
orchestrator let both nodes become done at once while it looks; three approvals let a stale decision
meet an approval made after the one it decides was filed. The theorems remove the
bounds for all safety properties of the passing runs. The types of `VoiceCall` and `CaseStatus` are
proved and have no run of their own.

Deadlock checking is off in every run: a case whose nodes are done, or whose bounds are used up,
an outbox with nothing to publish, a case whose callbacks are all concluded, a page nobody uses and
bounds used up may rest.

### Fairness

`CaseFiling!FairSpec` is fair only to the consumer: one task handles the events of its topics in
order, so each event is handled although others keep coming. It is strong fairness because a
handler cannot run while a submission is waiting. `SubmitCommit` is strongly fair: the process
does not die in every call it makes. Officers, residents, authorities and timers owe nothing.
`Outbox!FairSpec` is fair to the relay and consumer loops (`runner.py` restarts them for ever), to
a waiter for a row lock, to back-offs (at most thirty seconds) and, strongly, to publishing: a
broker that is tried again and again is back at last. `Callbacks!FairSpec` is fair to the dial job
(`runner.py` runs it every second and survives its errors) and, because time passes, strongly fair
to a scheduled callback being due and to a ringing one being past its timeout at some run.
Residents, phones, the provider's webhooks and clients owe nothing.
`LiveView!Spec` is weakly fair to what the program does by itself: a commit's messages are published
when it returns, the server admits streams and answers requests, the timer and the polls fire, a
refused request refreshes the token. Nobody has to commit, open a query, break a connection or let a
token expire, and faults are bounded because a query that always fails shows nothing.
`VoiceCall`, `CaseStatus` and `Decisions` state safety only.

## 4. What the failing runs show

Each states what a comment, a document or a test of the repository says, and TLC finds a
behaviour of the code that contradicts it; `PROJECT.json` quotes the lines.

- `stranded`: a submission that loaded a `STALLED` node fails while an officer retries. The request
  becomes `STALLED`, the node stays `SUBMITTING`, and the retry's event is skipped: nothing files
  the node and neither retry nor prepare accepts it.
- `optout`: the resident opts out while `telephony.dial` is waiting. The opt-out commits
  `CANCELLED`; the job, which loaded the row as `SCHEDULED`, commits `DIALING` over it.

Observations that have no run of their own, or that the properties of a passing run name as their
exceptions:

Filing and events
- An upload for a node whose approval is still `PENDING` (a late `DOCUMENT_MISSING` status moved it)
  leaves the node at `DOCUMENT_MISSING`, because `request` returns the old approval.
- Asking for documents of a node that has not started makes it `DOCUMENT_MISSING`; the upload sends it
  to the gate and it can be filed before its dependencies are done (`OfficerAsksEarly`).
- The in-memory broker loses what is marked `PUBLISHED` when the process restarts (`Durable` FALSE).
- After a failed publish later events overtake the one that backs off, although `events/relay.py:32`
  says that ordering is preserved. A dispatch that ends before the relay commits leaves its outbox row
  `PUBLISHED` although every consumer handled it.
- Captures, opt-ins and webhooks that overlap leave as many `GRANTED` consents as there were requests;
  `revoke` withdraws the newest one, and calls remain allowed until it is repeated (`ConsentsBounded`).
- A telephone call is stored `ACTIVE` when it is dialled and the sweep looks only at `RINGING` calls, so
  a callback that nobody picks up stays `DIALING` and no SMS is sent.

Decisions (`crossed`)
- Two prepares at once leave two `PENDING` approvals of one node.
- A late status, or transactions that cross, can take the node from the gate and leave its approval
  `PENDING`. `request` then returns that approval and does not move the node: from `REJECTED` nothing an
  officer can press moves it, although `api/v1/officer.py:193` offers to re-prepare a rejected node.
- An approval and a rejection at once both commit; the columns of the last one stand while the request
  that was released is filed. A stale approval can set the node back to `SUBMITTING` without an event.

Case status (`drift`, `lapsed`)
- A resolution that overlaps the completion of the last node can write `ACTIVE` over `COMPLETED`.
- Escalations opened or resolved at once leave a stale status until the next undisturbed transaction.
- `take` does not look whether the escalation is resolved: an officer with an old list reopens it, and
  no status is computed. Two opens at once record the same escalation twice, where
  `docs/agent/guardrails.md:105` has duplicates return the existing one.

Voice page (`excused`, `astray`)
- A call stays `ACTIVE` when the resident leaves before the reply of start or answer, signs out during
  the call (the request that ends it has no token), begins anew after the session failed or dropped, or
  answers another call from the shell's banner.
- The reply of an end or a turn that arrives when another call is on the page marks that one ended;
  words recorded in one call can be sent to another; a refused answer puts the page to idle while a
  call is `ACTIVE`. `live.current` is not cleared when a session drops, and is set by a session that
  opens after End. A second `?call=` link on one visit is not answered.
- A turn that read the call `ACTIVE` can commit over its end, and a second `CallEnded` is recorded.

Live view (`missed`)
- The cases a stream may show are read once, when it is opened; a case opened later is not streamed.
  Commits between that read and `hub.subscribe` are not either.
- `events/stream.py:27` says of a message that was dropped that the UI also refetches on reconnect; the
  page refetches nothing on `ready`. A new token clears the pending timer, and with it a refetch that
  was due. A stream with an expired token is refused until some request replaces the token.
- Queries without `refetchInterval` show a missed commit only after the next message or action.

## 5. Proofs

`CaseFilingProofs` holds for every graph, every set of documents and statuses and every number of
attempts and copies.

| Theorem | States | Argument |
|---|---|---|
| `TypeCorrect` | `TypeOK` | `TypeInv` adds that the submission in flight has its undelivered event and is of a filing node; without it an acknowledgement could count below zero |
| `GateSafe` | `GateHasApproval` | inductive with `TypeInv` |
| `HumanGate` | `FiledUnderApproval` | `ReleasedInv`: requests, statuses, filings and applications exist only up to `attempts[n]`, which is the number of approvals granted |
| `SuccessIsEarned` | `DoneIsEarned` | `EarnedInv`: a status in flight that says done, and an application that is done, were confirmed |
| `DoneForGood` | `DoneIsFinal` | `SeenDone`: a submission in flight does not overlook that its node is done |
| `StartsInOrder` | `DependencyOrder`, assuming `~OfficerAsksEarly` (of the runs, `ImplementsCasePromise` contains it) | `StartedInv`: a node with an approval or an attempt has started |
| `UnlocksAreSeen` | `NoLostUnlock` | a node becomes unlockable only in a step that wakes the orchestrator |
| `ReleasesAreNotStranded` | `NoStrandedRelease`, assuming `~RetryOverlaps` (with it `stranded` finds a counterexample) | `SeenSubmitting`: a submission of the current attempt loaded the node as `SUBMITTING`, so its commit moves the node on with the event it uses up and cannot be refused; `FilingInv` and `ReportedInv`: the attempt being filed is not filed yet, and statuses come of filed attempts only, so none overwrites its request |
| `CaseKeepsPromise` | `ImplementsCasePromise` | the invariants above make every step one of `CasePromise`: a step that moves nodes leaves grants and authorities alone (`NodeStepsKeepPromise`), one that changes what an authority holds moves no node (`WorldStepsKeepPromise`), an approval grants (`ApprovalGrants`) |

`CaseGateProofs` extends it.

| Theorem | States | Argument |
|---|---|---|
| `EveryFilingPassesItsGate` | `PassesGate` | one lemma per kind of step, for an arbitrary filing `i`: a step on another node leaves `i` alone but for its documents (`OthersPass`), a validated transition is a `Move` (`TransitionPasses`), and the commit of a submission that the node has moved away from is a `LateOutcome`: by `ReleasedInv` the node was released, by `SeenDone` it is not done |

`OutboxProofs` holds for any number of events, consumers, tries, messages and faults.

| Theorem | States | Argument |
|---|---|---|
| `OutboxTypes` | `TypeOK` | `DeliveryInv`, below |
| `PipelineKeepsPromise` | `ImplementsPromise`, either broker | `DeliveryInv`: the dispatcher's shape, only known events anywhere, one effect per receipt, and the dispatcher's flag tells whether a consumer it passed lacks a receipt |
| `NothingLost` | `NoEventLost`, assuming `Durable` | `KeptInv`: what is `PROCESSED` is handled, what is published is handled or in the log, and an event that a consumer gave up on and the relay published again is in the log a second time; this is where the row lock is needed |

`CallbacksProofs` holds for any number of callbacks, concurrent transactions, consents, opt-outs and
dial jobs that die, and for either provider.

| Theorem | States | Argument |
|---|---|---|
| `CallbackTypes` | `TypeOK` | part of `CallInv`, below |
| `DialingIsLive` | `DialingHasLiveCall` | `CalledInv`: a callback with a call is not to be dialled, so the job's commit cannot touch it except to sweep it. `SeenInv`: a callback that a transaction read together with its call is `DIALING` only if it was when it was read, so whoever ends the call also moves the callback |
| `OptOutStopsCalls` | `NoSecondCall` | `EscapeInv`: while a dial is under way and the resident is opted out, no call has escaped yet, since the check before it saw no opt-out |
| `DialsAreBounded` | `DialledOnce` | `DialInv`: a callback that may still be dialled has been dialled only by jobs that died |
| `ConsentsStayFew` | `ConsentsBounded` | `OwnedInv`: every granted consent can be laid at the door of a client of its own, which recorded it or is about to replace it; the injection bounds the number |

`DecisionsProofs` holds for any number of clients and approvals.

| Theorem | States | Argument |
|---|---|---|
| `DecisionTypes` | `TypeOK` | part of `DecisionInv`, below; that `attempts` stays in range is a pigeonhole: as many approvals filed as there were attempts, and that of a release still to file is not among them |
| `GateDecidable` | `GateIsDecidable` | `GateInv`: whoever decides the approval of a waiting node read the node waiting, or moves it |
| `OneRequest` | `OneRequestPerApproval` | `FiledInv`, `UndecidedInv`, `HeldInv`: requests are made in the order of attempts, none under an undecided approval, and once one was made under an approval the key of any release that holds it is taken |
| `PendingAtGate` | `PendingIsAtGate` | `FreshInv`: what a transaction nobody overlapped read of the node and its approvals is so, and its operation could begin now |
| `UncrossedSerial` | `UncrossedIsSerial` | from `FreshInv` and `PendingIsAtGate`: what a commit decides from is so, and the approval it decides is the only pending one, so the commit is the gate's step; `Begin` and `Rollback` change nothing the gate sees |

`CaseStatusProofs` holds for any number of nodes, clients and escalations.

| Theorem | States | Argument |
|---|---|---|
| `StatusTypes` | `TypeOK` | by each step |
| `CompletionAnnouncedOnce` | `AnnouncedOnce` | `HeldInv`: a status computed as `COMPLETED` is announced with it or was announced before |
| `RefreshHeals` | `StatusHeals` | `AloneInv`: what a transaction nobody overlapped saw, and the status it computed, are still so |
| `CompletionComes` | `CompletionIsSeen` | `RunInv`: a run of the orchestrator that read `COMPLETED`, and so will not write it, has another trigger to come |

`VoiceCallProofs` holds for any number of calls, faults and requests under way. `VoiceInv` is the
conjunction of three invariants, each proved from the ones before it.

| Theorem | States | Argument |
|---|---|---|
| `VoiceTypes`, `ActiveCallAccounted` | `TypeOK`, `ActiveIsAccountedFor` | `CallInv`: what a request says of its call is so (`RequestInv`), the page shows a state exactly when it has a call that exists (`PageInv`), and only calls of ElevenLabs have sessions |
| `ShownActive` | `ShownActiveIsActive` | `ShownInv`: a call of the turn-based channel is `ACTIVE` until its first reply (`StartedInv`) |
| `NoEmptyConsole`, `ControlsComeBack` | `NoConsoleWithoutCall`, `NeverStuck` | `ConsoleInv`: what disables the controls is under way (`CauseInv`) |
| `EndedForGood` | `EndedStaysEnded` | a step property, from `CallInv` |

`LiveViewProofs` holds for any cases, queries, queue limit, commits and faults.

| Theorem | States | Argument |
|---|---|---|
| `LiveViewTypes` | `TypeOK` | by each step |
| `NothingIsForgotten` | `NothingForgotten` | `FetchInv`: what a request has read is not older than what its query shows |
| `ViewsGoForward` | `NeverGoesBack` | a step property, from `FetchInv` |

The invariants were checked with TLC on small instances before they were proved. Assumed of the
constants is what the modules' `ASSUME`s say, which TLC evaluates. Only model-checked are the liveness
properties (`EveryReleaseResolves`, `UnlockedStarts`, `EveryEventHandled`, `ScheduledIsDecided`,
`UnansweredIsSwept`, `NewsArrives`, `PolledConverge`: fairness and `ENABLED` are outside the prover)
and what the failing runs refute.

## 6. Not modelled, and why

The modules were written in the order `NodeStates`, `CaseFiling`, `Outbox` over `ReliableDelivery`,
`Callbacks`, `VoiceCall`, `LiveView`, `CaseStatus`, `Decisions`, each with its proofs, and `CasePromise`
over `CaseFiling` and `OfficerGate` over both of its implementations when their invariants were proved.

- The contents of callbacks and notifications: the reasons that are merged when two updates join a
  scheduled callback, the SMS that replaces a call, the retries of the ElevenLabs client. They change
  texts and what a gateway is told, not the states above.
- Verification of a caller: a counter inside one call, advanced a turn at a time.
- Deduplication of webhooks: one unique key on one row.
- The pause gate of the worker loops: it serves the demo reset, which deletes everything.
- `CaseFiling` together with the dead letters of `Outbox`: `CaseFiling` assumes that every event is
  delivered, and a dead letter stops its case until an officer acts.
- Authentication: refresh-token rotation, and the session the browser keeps in local storage. `VoiceCall`
  and `LiveView` have what the pages notice of it. A refresh that answers after signing out stores its
  session again, and tabs share one session; neither has a property here.
- Time: deadlines, the SLA clock and the watchdog for consulates are nondeterministic choices.
- Most of the TypeScript: translations, markup, forms, charts and fixtures hold no state that outlives a
  component, and there is nothing in them to check beyond their types. The closing of a dialog during
  its request (`components/officer/dialogs.tsx`) is the request of `Decisions`, whose result is not shown.
- The assistant's dialogue, texts and prompts, HTTP routing and serialisation, storage, observability
  and seed data carry no state that these properties depend on.
- `services/orchestration_service.py` and `integrations/government/life_event_authorities.py` are not
  reached by the running program.

Some files of the API and agent layers (`api/v1/cases.py`, `agents/tools.py`, `schemas/cases.py`,
`services/demo_service.py`) are committed with merge-conflict markers; the models follow the side
that calls the services described here.

## 7. Running

    tlc -config gate.cfg MCCaseFiling      # also resolve, chain, stranded
    tlc -config outbox.cfg Outbox
    tlc -config callbacks.cfg MCCallbacks  # also callback_ends, optout
    tlc -config voice.cfg VoiceCall
    tlc -config live.cfg LiveView
    tlc -config status.cfg MCCaseStatus
    tlc -config decisions.cfg MCDecisions
    tlapm CaseFilingProofs.tla             # also OutboxProofs, CallbacksProofs, VoiceCallProofs,
                                           # LiveViewProofs, CaseStatusProofs, DecisionsProofs, CaseGateProofs
