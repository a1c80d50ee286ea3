# A verified model of voice-outbound-agent

voice-outbound-agent dials leads, lets an AI agent talk to them, analyses each
conversation and honours requests not to be called again.  Five kinds of
processes do this together, and share nothing but PostgreSQL, Redis and a
LiveKit server.  Each of them is simple.  What is hard is what they do to each
other: rows read before an `await` and written after it, webhooks that come
twice or late, a dial that was placed but not recorded, an analysis that runs
before the transcript it needs.  These modules model all of these processes and
every interleaving of their transactions; TLC checks small instances, and TLAPS
proves every safety property of them for every number of leads, calls and failures, and
that the whole system implements an abstract ledger of its dials.  Around this core stand
four smaller models: the worker against the clock, the live feed of the dashboard, the
voice activity detector, and the functions on phone numbers and prompts.  Their safety is
proved as well, and that the feed implements an abstract history of each page's cards.

All paths below are under `src/`.

## Inventory

| Part | State | Operations | Makes it correct |
|---|---|---|---|
| Schema and shared services: `app/models`, `alembic/versions`, `app/webhook_receiver/services` | `leads` (status, retry_count, next_retry_at, campaign_id), `campaigns`, `call_logs`, `call_transcripts`, `dnc_registry` | insert and update helpers used by several processes | a status agrees with the rows it summarises |
| Dialing worker: `app/dialing_worker`, `scripts/run_worker.py` | the batch, the lead being dispatched with its fetched snapshot | fetch, hours filter, create room, dial, record; retry with backoff | no second dial of a recorded one, no dial of listed numbers, no starvation |
| Webhook receiver: `app/webhook_receiver` | handlers running in the API process | `room_started`, `participant_joined`, `room_finished`, enqueue of the analysis | tolerates webhooks that come again, late or never |
| LiveKit agent: `app/livekit_agent` | a job per room | talk, then save the transcript | the transcript is stored under the call it belongs to |
| Post-call analysis: `app/post_call_analysis` | RQ jobs in Redis | read, extract with Claude, write result and opt-out, tell n8n, retry, dead letter | every opt-out is on the registry, every job ends |
| Dashboard API: `app/dashboard_api` | none of its own | create campaign, upload and assign leads; reads | |
| Live call feed: `app/dashboard_api/websocket.py`, `LiveCallFeed.tsx` | open sockets; running broadcasts; the page's map of calls | connect, disconnect, broadcast, snapshot, merge | a page that is up follows the calls |
| Phone numbers, prompts: `dialing_worker/phone_utils.py`, `app/conversation_prompts` | none | normalize; render a template, strict or not | one form per number; a prompt is spoken as it was written or not at all |
| Voice activity detection: `app/vad_pipeline` | QUIET, STARTING, SPEAKING, STOPPING; bounded audio queue; the consumer task | push a frame, process it, start, stop | a turn of the caller begins and ends when the frames say so |
| LiveKit server (external) | rooms, SIP legs, webhooks, agent jobs | | |

They interact through the tables (all of them), through LiveKit (the worker
creates rooms and legs; LiveKit sends webhooks about rooms and starts agents)
and through Redis (`room_finished` enqueues the analysis).  No process waits for
another.  The handlers' last step is a broadcast to the open dashboards, which
share their event loop.  The voice activity detector, the prompts and
`normalize_to_e164` are libraries: no process uses them yet.  Every transaction runs at
READ COMMITTED, so a SELECT and the write that depends on it are two steps wherever
another process can come in between.

The hazards this code is exposed to are listed with their lines in
`PROJECT.json`; the properties below are chosen for them.

## Modules

| Module | Models | Correspondence |
|---|---|---|
| `AgentOperations` | schema, shared services | one variable per column of `leads` that changes, one record per row of the other tables; `scalar_one_or_none` is `NoneFound`, `OneFound`, `MultipleResultsFound` |
| `DashboardApi` | writing routes | one action per route, which is one transaction |
| `LiveKit` | the server, external | `CreateRoom` and `CreateSipParticipant` are what requests do on it; `SipJoins`, `SipLeaves`, `RoomCloses` happen by themselves and send webhooks |
| `DialingWorker` | `DialerWorker` | one action per `await` of `_dispatch_call`: `session.get`, the two requests, the re-read of `session.merge`, the commit. `dirty` is the set of columns the flush will write, which is decided at the re-read |
| `WebhookReceiver` | `/webhook/livekit` | a request is at its SELECT, its commit or its enqueue; any number of requests run, including ones LiveKit has given up |
| `LivekitAgent` | `entrypoint`, `_save_transcript` | the end of a session; the SELECT of the call (`FindsCallToSave`); the rest of the saving transaction. It is one step because its first statement, the flush of `end_time` before `create_transcript` selects, locks the call row until the commit: two jobs that found the same row write one after the other, and the second updates |
| `PostCallAnalysis` | `analyze_call` under RQ | the first transaction, Claude, the second transaction, n8n; raising and being killed at each of them |
| `CallLifecycle` | all of them together | `Next`, the fairness, and every property that holds |
| `DialLedger` | | what the dials promise, abstractly: pledges, dials and records that are lost |
| `CallRefinement` | | the mapping from the system to `DialLedger`: a lead is pledged while the worker holds it and has not asked for its dial |
| `DocumentedClaims` | | claims of the documents that the code does not keep |
| `MCCallLifecycle` | | instances for TLC |
| `CallLifecycleProofs`, `CallSafetyProofs`, `CallJobsProofs`, `CallRefinementProofs` | | the theorems about it: types and references, the safety of a call, the count of analyses, the ledger |
| `DialPacing`, `MCDialPacing` | `DialerWorker` and `is_within_calling_hours` with a clock in seconds | the loop of `run` and `dial_batch` point by point; merge and commit are one step; registry and other processes are left out. `checkedAt`, `failedAt`, `lastDial` are history |
| `DialPacingProofs` | | the theorems about it |
| `CallFeed` | `ConnectionManager`, `ws_calls`, `/api/calls/active`, `LiveCallFeed`, and of the webhook handlers their SELECT, commit and broadcast | everything between two awaits is one step. A handler is at its SELECT, its insert or its broadcast; any number run at once, and `late` says that LiveKit no longer waits for the answer of one. `Sockets` are all dashboards, `Pages` those of which the content is modelled. A broadcast is a record with the sockets its loop has yet to reach (`unseen`) and the size of the set it began with, which CPython's iterator compares at each step |
| `FeedCards` | | what a page shows of each call, abstractly, without messages: a card that is not followed, awaited, shown or gone. `Feed` in `CallFeed` is the mapping: a followed call's card is shown if the page lists it, awaited while its first word is still to come, gone otherwise |
| `CallFeedProofs` | | the theorems about the feed and its cards |
| `PhoneNumbers` | `phone_utils.py` | functions on sequences of characters |
| `ConversationPrompts`, `PromptTemplates` | `PromptRenderer`, `ConstraintValidator`, the JSON, the three templates | the check splits a line at terminators with no digit beside them (`validator.py:27`), so a text is the sequence of its stretches between terminators: each its words and variables in their order, whether it has special characters, and whether its last character is a digit. A value is a sequence of sentences too, and ends in a digit or not. `Sub` puts values into a text and joins or splits the sentences (`Follow`) |
| `TextFunctions` | | a query (an input of one of these functions) and its answer; what is said about the answers |
| `MCTextFunctions` | | the inputs for TLC |
| `TextFunctionsProofs` | | the theorems about `normalize_to_e164` and about the rendering and checking of prompts |
| `VadStateMachine` | `VADStateMachine` | one action per branch of `process`, whose result is the parameter `event`; a probability is one of three levels |
| `VadPipeline` | `VADPipeline` | one action per call; `stop` is two, around its `await`. `running` says who holds the event loop: a consumer keeps it until its queue is empty. `task` is what `_task` holds, `orphans` counts consumers it does not hold |
| `VadProofs` | | the theorems about it |

What the data is reduced to: a text either holds a phrase of `dnc_keywords` or
does not; a lead's `next_retry_at` is in the future or not (`waiting`); call rows
are identified by fresh ids; `structured_data` is one of four shapes.  Calling
hours are a choice: at every fetch any non-empty subset of the fetched leads may
be inside theirs (a fetch with none changes nothing).  Pauses are instants.  Two agent jobs of one lead
that are in the same state count once.  `is_e164` and the timezones pytz knows
are the constants `E164Phones` and `BadTimezone`.

Failures of the environment (a lost answer, an exception of LiveKit, Redis or
the database, a process that dies) all count in `faults`, which `MaxFaults`
bounds.  Some properties are about that count: `OneMoreJobPerFault` says what a
failure can cost at most.

`dials`, `unrecorded`, `listedDials`, `enqueued` and `notified` are history: no
guard reads them.

## What the runs check

`Lifecycle`, `Dispatch`, `DispatchLive`, `Aftermath` and the claims use
`MCCallLifecycle`.  Deadlock is not checked: with a bounded number of leads, ids,
failures, frames, seconds or calls every one of these systems comes to rest.

| Run | Instance | Shows |
|---|---|---|
| `Lifecycle` | every process, from an empty database; 1 lead, 3 call ids, 1 failure, 1 RQ retry | the safety of a call's whole life, and the ledger |
| `Dispatch` | dashboard, worker, registry; 3 leads of which 2 share a number, 2 campaigns, batches of 2, 1 failure | who can be dialed a second time, and after being listed; the ledger |
| `DispatchLive` | the same processes, with fairness; the elder leads have an undialable number and an unknown timezone, 2 failures | `GoodLeadsDialed` |
| `Aftermath` | what follows one dial, from before its commit, with fairness; 4 call ids, 2 failures, so also rooms with two rows | the registry, the jobs, and that everything ends |
| `DialPacing` | 3 leads in 2 timezones, 4 s before closing time, batches of 2, requests of up to 1 s, 70 s, 2 failures | when a dial may take place |
| `CallFeed` | 1 call, 2 dashboards opened any number of times, one of them with its page, 2 unread messages, 1 failure (an answer that comes too late, a handler that fails, a broadcast given up or that skips a socket), with fairness | what a page shows |
| `TextFunctions` | 22,000 phone numbers and texts, 23,400 prompts with the variables of a lead | what the functions return |
| `VoiceActivity` | 5 frames, 2 sessions, 2 overlapping stops, a queue of 2, durations of 1 and 2 | the detector hears the turns the frames make, and says so |

The properties of the core:

- `FailedDncListed`, `OptOutListed`: an opt-out and its registry entry belong
  together, in any order of analyses, retries and late webhooks.
- `CompletedHasEndedCall`, `JobsNameEndedCalls`, `NotifiedAfterStored`: what a
  later process relies on was committed by an earlier one.
- `DialedAgainOnlyIfUnrecorded`: no webhook, stale snapshot or retry causes a
  second dial; only a dial whose record was lost does.
- `ListedDialedAtMostOnce`: the registry is read once per fetch, but that race is
  lost at most once per lead.
- `LedgerKept`: the system, with all its processes, implements `DialLedger`.  This
  joins the two properties before it into one statement about behaviours: a dial
  is always the redemption of a pledge, which was made while the number was off the
  registry and every earlier dial was unrecorded, and which is used once.  Unlike
  an invariant over counters it says at which step each of these must hold.
- `OneMoreJobPerFault`: handlers are not idempotent, and still one failure costs
  at most one more analysis.
- `GoodLeadsDialed`: which bad leads starve others and which do not.
- `WebhooksAndJobsDrain`: webhooks are answered or given up and jobs end, even with
  failures.
- `CallingLeadsSettle`: a lead that is being called reaches a final status, whatever
  raises, crashes or is sent again, as long as every answer comes in time (a handler
  that LiveKit gave up writes CALLING over the final status when it gets to it).  Two
  leads stay CALLING, and the property names them: one whose room has two rows
  (`OneRowPerRoom`; `room_finished` then raises until LiveKit gives it up), and one
  whose closing a failure has lost (`ClosingLost`).  Without any of these three
  exceptions TLC finds a violation.

Of the clock:

- `DialsPaced`: two dials of one process are a second apart.  The pause is inside the
  `try` and a dispatch that raises skips it; that this is harmless follows from what
  else happens then (either `session.get` raised, before the dial, or the session is
  broken, so the rest of the batch fails before a dial).  A restarted process knows nothing of the dial before.
- `DialedSoonAfterHours`: the hours are checked once per batch, so a lead may be
  dialed after closing; the bound is a batch of slots of two requests and a pause.
- `BackoffRespected`: a failed lead waits `min(2 ** n, 60)` seconds from its nth
  failure, also beyond `max_retries`.

Of the feed:

- `FollowsCalls`: a page loaded and registered before a call began shows it while
  it lasts and not after, although other dashboards join and leave in the middle of
  broadcasts, which then raise, answer 500 and are repeated, or skip sockets that
  have died.  Calls with two rows, whose handlers broadcast nothing, and calls that a
  failure concerned are left out.
- `CardsKept`: the feed implements `FeedCards`.  Of a call that no failure concerned and
  that has one row a page that follows it has one history, however often its webhooks had
  to be sent: the card is shown once, is taken off after the call has ended, and does not
  come back.  A call with a failure or two rows may be missing, and its card may come
  back: a handler LiveKit has given up runs on and broadcasts `call_started` after
  `call_ended`.  But it comes back only after the end, and no card at all is taken off
  before the end.
- `EndedLeavesFeed`: the end of a call with one row and no failure reaches the page in
  the end.  It assumes
  that dashboards stop being reopened: TLC shows that while they come and go
  each repetition of the broadcast can raise again.

Of the functions:

- `FormsAgree`: every way to write a number gives the same number.
- `NormalizedIsDialable`: the result for any text is none, or a number `is_e164`
  accepts, with nothing but digits after its sign, that normalizes to itself under every
  country.  It has the digits 0 to 9 if the text had no others.  Digits of another script
  are kept (`phone_utils.py:29`), so a number written with them is accepted but differs
  from the same number in the registry.
- `StrictRenderExactly`: `strict` rejects a prompt exactly when one of its texts, with
  the values in it, has special characters or a sentence too long for the place it is put
  in.  This is stated as a budget of words per place, for any number of steps and
  objections, every text of the template and any number of variables in it; a trigger and
  the first sentence of its response share one budget, because the renderer puts them into
  one sentence, and so do tone and pace if the tone ends in a digit.  A missing field or variable
  is a `KeyError`, strict or not.
- `RepositoryTemplatesValid`: the three templates pass for every agent, product and
  first name of up to three, three and two words, wherever terminators stand in them and
  whether they end in a digit or not; only an agent of several words must not.

Of the detector:

- `TurnsAsHeard`: the detector is SPEAKING or STOPPING exactly when the frames
  heard since `start()` say so.  `Talking` defines that from the sequence of frames
  alone, without states: speech lasted for the onset duration, and since then no
  silence began that lasted for the offset duration.
- `SubscriberCatchesUp`: the events tell the state, except that `start()` resets it
  silently.

Bounds.  One lead is enough for `Lifecycle` because processes of different leads
meet only in the batch, the registry and the worker's crash, which `Dispatch`
has.  Three call ids are enough: with one failure a lead has at most three rows
(the run gives the same states with four).  One failure reaches every error path;
the second, which can only combine them, is in `Aftermath`.  Its initial state is the
one in which a dial has been placed and its record is about to be committed, so the
handler of `room_started` and the commit race for the first row as in the whole system;
the worker dials no more after it.  Each failure can make `room_started` insert one more
row, so it has two call ids more than failures; they are taken in order, since fresh
ids are interchangeable.  Two failures on the whole system, and three in `Aftermath`,
were too many states for a routine run.  One RQ
retry instead of three shortens the repetition and keeps both branches of
`analyze_call`'s handler.  A batch of two for three leads makes LIMIT bite.

`DialPacing` begins 4 seconds before the hour at which one of its leads closes and
another has an hour left, so that a batch can be checked before and dialed after;
70 seconds hold the greatest backoff; a failed lead's next backoff is the second in
one and the capped one in the other.  Two failures make a database that fails while
a failure is recorded.  Its properties are proved for all values.

In `CallFeed` the second dashboard is there to disturb the broadcasts to the first, so
the content of its page is left out; dashboards are opened again without a bound, and one
call is enough because the entries of the page's map do not touch each other.  One
failure is enough to have two handlers of the room run at once, in either order of
their broadcasts.
`TextFunctions` has the lengths at which `HasCountryCode` decides and one to each side,
and small templates in which one text, or the two that meet in a sentence, is varied: from
empty to one word above the limit of its place, of one sentence or several, with none to two
variables, with a digit or a variable before a terminator, with a special character, and with
fields or variables missing.  A value has one sentence or two, and ends in a digit or not.
The texts that are covered, all of them by the theorems, are described at the head of
`ConversationPrompts`: a text with a line break in it, or a blank at an end, is not one.
For the detector four frames make a turn (two of speech, two of silence), and the fifth begins
another or comes in between; a second session and two stops are what it takes to
leave a consumer behind.

### Claims that do not hold

Each of these runs refutes a sentence of the repository; `PROJECT.json` quotes it.

| Run | What TLC finds |
|---|---|
| `OneRowPerRoom` | no failure is needed: LiveKit sends `room_started` when the room is created, before the worker has dialed and committed its row; the handler inserts one, the worker a second, and from then on the end of the call and its transcript cannot be recorded |
| `TranscriptPersistedBeforeJob` | `room_finished` enqueues the analysis while the agent still holds the transcript; the job ends without one and is not retried |
| `InvalidTimezoneSkipped` | the exception ends the worker, after every restart again |
| `StatusNotReplayed` | a `room_finished` sent again makes a completed lead of one that opted out (its number stays listed: `OptOutListed`) |

The model also shows, without a run of their own:

- a number listed after its batch was fetched is dialed, once (PRD.md:138 has the
  registry checked before every dial);
- `max_retries` is read by no code (`config.py:17`): a lead is retried for ever;
- no code takes a call row out of CALLING, so `/api/calls/active` lists calls that
  have ended (dashboard-design.md:61 has it list those in progress) and the KPI's
  connection rate is always 0;
- a call can be placed after the closing hour, by less than a batch (`worker.py:25`,
  PRD.md:336 have the hours enforced);
- the page asks for its snapshot and opens its socket at the same time: what the
  socket brings before the snapshot is lost, an entry of a call that ended before
  stays for ever, and a page whose connection breaks never connects again;
- a call with two rows, or whose room has none at its end, is never taken off the
  feed; the card of a call whose `room_started` was answered too late can come back after
  its end, and then stays; `transcript_updated` is handled by the page and sent by no code;
- pausing a campaign changes nothing the worker reads (dashboard-design.md:57);
- a British number with its code, without "+" and with more than eight digits gets the
  code twice; the branch for unknown countries (`phone_utils.py:85`) is dead, because
  their code is taken to be "1"; `is_e164` accepts digits of other scripts and a line
  break at the end;
- in strict mode the renderer's own words count against the twelve, so that
  a sentence within the limit of the design can be rejected; and a value that ends in a
  digit joins two sentences: an agent "Team 7" makes the recruiter's prompt fail
  (`validator.py:27`; step 2 then is one sentence of 13 words);
- two calls of `VADPipeline.stop()` with a `start()` between their ends leave a consumer
  that nobody can stop;
- the merge after a dial takes back an assignment made since the fetch; a lead whose
  dial failed is marked COMPLETED by the `room_finished` of the room opened for it; a
  lead with an invalid number stays PENDING; the branch that sets FAILED is dead,
  because `LiveKitClient` makes every error retriable.

### Fairness

`WorkerFairness`: the worker's event loop runs on and docker restarts it
(`restart: unless-stopped`), so its steps are weakly fair; time passes every
backoff; and for each lead strong fairness of a fetch in which it is dialable
says that some poll falls into its calling hours, which come every day while
polls come every few seconds.  Steps in which something fails, uploads and
listings are not fair.  `AftermathFairness`: legs and rooms end, LiveKit
delivers, and the API process, the agents and at least one RQ worker (started by
hand, `app/post_call_analysis/README.md`: docker-compose has no service for it)
run on.  LiveKit gives up a webhook after a finite number of attempts: attempts that fail
because of a failure are bounded with the failures, and a webhook whose handler raises
by itself, each time again (a room with two rows), is given up in the end by strong
fairness of `GivesUp`.  Without that TLC shows `WebhooksAndJobsDrain` violated.

`FairSpec` of `CallFeed`: the API process handles the webhooks LiveKit delivers and its
event loop steps every broadcast (uvicorn runs one loop; starlette ends a
`receive_text` whose connection is gone), and a browser handles what its socket
brought.  Opening, closing and losing dashboards, the snapshot and the worker's commit
are not fair.  `DialPacing`, `TextFunctions` and `VoiceActivity` have safety only.

## What is proved

For all values of the constants, under the named assumptions that declare them
(at the end of the table):

| Theorem | Property | Argument |
|---|---|---|
| `TypeCorrect`, `ReferencesKept` | `TypeOK`, `RefsOK` | inductive together: a handler's step keeps the types only because the row, lead or webhook it holds still exists, and a writing agent job its row |
| `JobsAreOfEndedCalls` | `JobsNameEndedCalls` | a conjunct of `RefsOK`: rows never lose their end |
| `FailedDncIsListed` | `FailedDncListed` | `StatusMoves` (only the write of an analysis makes FAILED_DNC) and `RegistryGrows` |
| `CompletedEnded` | `CompletedHasEndedCall` | `StatusMoves` and the stability of rows |
| `OptOutIsListed` | `OptOutListed` | `OptOutInv` adds that a job in "write" with Claude's flag has decided on an opt-out |
| `NotifiedIsStored` | `NotifiedAfterStored` | `NotifyInv` adds that a job in "notify" has stored its result, which no later save takes away (`TranscriptMoves`) |
| `NoSecondDial` | `DialedAgainOnlyIfUnrecorded` | `DialInv` counts: leads PENDING, in the batch or being dispatched owe no dial, and one not yet committed owes at most one |
| `OneListedDial` | `ListedDialedAtMostOnce` | `ListedInv`: once listed and dialed, a lead is neither in the batch nor fetched again |
| `OneJobPerCall` | `OneMoreJobPerFault` | a potential, `JobInv`: for each lead and call row, what can still enqueue an analysis (`Pending`: the dial that will open the room, the room, its `room_finished`, the handlers of it) and the analyses given to that row (`Given`) are together at most one more than the failures. Each step moves the count on, takes from it, or is a failure; that a dial adds to nothing is `DialInv` |
| `SystemKeepsLedger` | `LedgerKept` | `LedgerInv` (the types, `DialInv`, and that a batch is empty outside a poll's dispatches); no other process touches a pledge or a dial (`OthersKeepLedger`), and each step of the worker is a step of the ledger or a stutter (`WorkerKeepsLedger`) |
| `PacingTypeCorrect` | `TypeOK` of `DialPacing` | one step per action; a batch is no larger than its limit because a subset of the fetch is no larger than it |
| `PaceKept` | `DialsPaced` | `Paced`: at each point of the process where its next dial lies ahead a second has passed since the last, or will have when the sleep ends |
| `HoursKept` | `DialedSoonAfterHours` | `Fresh`: the time since the hours were checked is at most `Spent`, a slot for every lead that has left the batch, less what the current dispatch may still take |
| `BackoffKept` | `BackoffRespected` | `Rested`: `next_retry_at` is the last failure and its backoff, and whatever is in the batch or being dispatched was past its `next_retry_at` when fetched. Only `DialPlaced` dials, and no failure of that lead lies between. `BackoffDoubles` compares `min(2 ** n, 60)` with the bound, by the values up to the cap |
| `FeedTypeCorrect` | `TypeOK` of `CallFeed` | one step per action; no set iterated over is larger than the set of dashboards, which is finite |
| `FeedFollows` | `FollowsCalls` | `FeedInv`. What a page will show is not its map but the last word on the call among the unread messages and the map (`LastWord`, `Hears`). `Told`: while no failure concerned the call and it has one row, a page that follows it is still to be reached by its running broadcast, or hears of that event already; when the webhook is done, it hears. `RunningOK`: at most one handler or broadcast of a call is awaited, it is of the webhook LiveKit is sending, without a failure there is no other, and dead sockets are really dead, so none that is up is dropped. A failed broadcast is repeated, and repeating the same event changes no last word |
| `FeedKeepsCards` | `CardsKept` | `CardInv` with `FeedInv`: an end is on a page's channel only once the room has closed, also from handlers that run late, and without a failure no start comes after it. Then each event moves every card by at most one move of `FeedCards` (`CardMoves`); that a card is missed, or comes back, only if something happened to the call is `Told` |
| `VadTypeCorrect` | `TypeOK` of `VadPipeline` | one step per action |
| `TurnsAreHeard` | `TurnsAsHeard` | `HeardInv` says which frame each state points to: `onsetStart` is the time of the first frame of the current run of speech, `offsetStart` that of the first silence after the last speech. `TalkingStep` says what one more frame does to `Talking`, and each branch of `process` follows from both |
| `SubscriberIsTold` | `SubscriberCatchesUp` | inductive |
| `ResultIsDialable`, `NormalizedAreDialable` | `NormalizedIsDialable` | for every text over any characters: what `Cleaned` leaves are characters of the text without formatting, and is then left alone (`CleanedType`, `CleanedAlready`), and a dialable candidate is returned before any code is added to it |
| `SpellingsAgree`, `FormsAlwaysAgree` | `FormsAgree` | texts can be cleaned in parts (`CleanedConcat`), so where the formatting stands makes no difference (`CleanedWritten`); what is left is one of the four forms, and `HasCountryCode` tells them apart by their lengths |
| `StrictRendersExactly` | `StrictRenderExactly` | `SubIs` and `SaidIs`: what `Sub` makes of any text and values is a line, whatever their terminators and digits. `JoinFits`: two of them joined on a line fit exactly when each fits with the words of the other's nearest sentence before or after it, so the room of each place follows from the prefixes the renderer writes, a lemma for each kind of line (`PersonaLineFine`, `ToneLineFine`, `StepLineFine`, `ObjectionLineFits`); `LinesFine` puts the lines of a prompt together, `ViolatesIs` and `RenderIs` say what the check and `render` make of them |
| `RepositoryTemplatesAreValid` | `RepositoryTemplatesValid` | by `StrictRendersExactly`'s lemmas: `SentenceAtMost` bounds the words of a stretch for every lead, however its values split it, and each text of the three templates has room for that many even where a digit joins its last stretches (`Plain2UsingSuits`, `TemplateSuits`, `TemplatesSuit`); only the recruiter's second step needs an agent of one word there (`AgentSuits`) |

Assumptions, all on constants and named where these are declared: `LeadsAssumption`,
`NoRowAssumption`, `DialerAssumption` and `JobRetriesAssumption` for the core (limits are
natural numbers, and what stands for no row, no lead or no campaign is none); `PacingAssumption`
for the clock (leads are finite, hours are hours of a day); `FeedAssumption` for the
feed (dashboards are finite, a socket's buffer holds a message); `DurationsAssumption`
and `PipelineAssumption` for the detector; `TextsAssumption` for the texts (the numbers are digits, the gaps formatting, a stored template that has all fields has
texts in them, the value of a variable begins and ends with words, and the names of a lead are variables).  The bounds of
the runs (call ids, failures, frames, seconds) are constants in them, so the theorems
hold for any value.

What `Cleaned` leaves of a text, what `Said` makes of a stretch and `Sub` of a text are
inductions over data (`CleanedType` and its like; `SaysExists`, `SaidIs`; `LaysExists`, `SubIs`).  They are stated for sets instead of
predicates: a set of naturals with 0 and every successor is all of them (`AllNat`, by its
least counterexample), so no theorem with an operator as a parameter is needed.

Lemmas such as `StatusMoves`, `TranscriptMoves`, `JobMoves` and
`StepsKeepRows` say once what all steps of the system can do to one variable;
each theorem then looks at those few moves instead of at every action.  The
strengthened invariants were also checked with TLC on the instances above.

Only model-checked: the liveness properties `GoodLeadsDialed`, `WebhooksAndJobsDrain`,
`CallingLeadsSettle` and `EndedLeavesFeed` (fairness and ENABLED are out of the prover's
reach).  Every other property of a passing run is stated by a theorem.

## Not modelled

The KPI counts, which change nothing and which no process reads; `Campaign.status`,
which no code reads to decide anything (its PATCH route would multiply the states
without a step that depends on them); `DialerWorker.stop`, which nothing calls;
`agent_manager.py`, which nothing imports and whose own import of `retell_client`
fails; `db/queries.py`, which no process calls; the engine set-up of `db/session.py`
(`close_db` leaves the session factory bound to the disposed engine, which only
matters to a process that goes on after it, and none does); the cells of an
uploaded CSV (`parse_csv`: a line shorter than the header fails the whole upload, and a header name
with a blank before it passes the check and has every line skipped), of which
`UploadLeads` keeps the leads that come out; settings, the dashboard's
forms and tables, the n8n flow and the scripts, which keep no state of the system; the
check of the webhook signature, which every webhook from LiveKit passes; the speech
pipeline, which is a library.  In `CallFeed` a crash of the API process, which closes
every socket (`WebhookReceiver` has it), and what a page shows after its connection broke.

## Plan

Done: the modules above, in the order of the table, and the proofs of every safety
property the runs check, with both refinements.

Left: that the worker of `DialPacing` keeps the ledger of `DialLedger` too, so that both
models of `DialerWorker`, with and without a clock, are held to one promise.  It would give
`DialPacing` the history of dials and lost records that `DialingWorker` has; what it says
of the order of dials and records `SystemKeepsLedger` proves already, with all the other
processes around.

To check: `tlc -config Lifecycle.cfg MCCallLifecycle.tla` and so on for each
configuration; `tlapm CallLifecycleProofs.tla` and so on for each module of proofs.  The module of
each run is in `PROJECT.json`: `VoiceActivity` is of `VadPipeline.tla`, `DialPacing` of
`MCDialPacing.tla`, `TextFunctions` of `MCTextFunctions.tla`, `CallFeed` of `CallFeed.tla`.
