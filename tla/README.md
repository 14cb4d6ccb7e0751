# finderr: TLA+ models

finderr is one Bun process that answers searches over an IMDb index, turns "I
would like this" into work for Radarr (films) and Sonarr (series), "the arrs",
plays what is there, and shows what addons say about a title. This directory
holds TLA+ modules for the parts of it where several actors meet, the TLC
configurations that check them, and proofs of what matters most. Paths below are
relative to `src/` of the repository's checkout (`src/lib/store.ts` is the store of
the server).

## Inventory

| Component | State it keeps | Operations | What is hard | What makes it correct |
|---|---|---|---|---|
| Request rows (`lib/store.ts`, `lib/request-quota.ts`, `lib/request-withdrawal.ts`, `lib/media-removal.ts`) | `request`, one row per title | create, revive, requeue, patch, delete, count today | two askers, a row that is gone when it is patched | one owner for what an ask writes; quota; credit of the first asker |
| Request worker (`server/request-worker.ts`) | queue, retry timers, the job awaited (memory) | start, enqueue, drain, process, schedule | rows read before an `await` and written after it; adds that land and time out; crashes | no ask is lost, every ask settles, bounded retries, an id is only ours |
| Handlers and withdrawal (`server/index.ts`, `server/withdraw-request.ts`, `server/agent-actions.ts`) | none of their own | ask, re-ask, Try again, withdraw | deciding from a row while the worker awaits the arr | what others added is left alone |
| Reconcile (`server/request-worker.ts`, `server/diagnose-requests.ts`) | `request_diagnostic`; rows held across awaits | a pass every 30 s | passes overlap everything else | arrivals announced once; nobody waits for ever |
| Library mirror (`lib/store.ts`) | `library`, `episode` | walk, replace, forget | a walk is older than the row it replaces | converges to what the arrs hold |
| Webhooks (`lib/arr-webhook.ts`, `server/arr-webhook.ts`) | none | one status move per event | lost, repeated and reordered events | only reconcile makes a request available |
| Media removal (`server/remove-media.ts`) | `media_removal` | preview, remove | fails after it succeeded upstream | the audit is true |
| Transcode sessions (`lib/transcode-session.ts`) | sessions, holders, productions, read-ahead windows | start or join, stop, reap, segment, init, evict | joined productions, ceilings, sessions ending under ffmpeg | limits hold, nobody's stream is ended by another viewer, books match the disk, the read-ahead does not stall |
| Index build and swap (`lib/index-builder.ts`, `jobs/build-index.ts`, `server/live-index.ts`, `server/index-refresh.ts`) | the index files, the open engine | build, gate, promote, boot, reload, roll back | a refused candidate after the old file was renamed; power cuts; builds that meet | only finished indexes are served; there is always one to serve |
| Accounts (`lib/auth-store.ts`, `lib/first-run.ts`, `server/auth-routes.ts`) | users, credentials, invites, sessions, challenges, PINs | register, sign in, link, invite, administer, reset | redeeming is three steps; ceremonies span awaits; racing visitors of the first run | an invite makes one account; the first run happens once |
| Facets and caches (`lib/facet-resolver.ts`, `lib/async-cache.ts`, `lib/plugin-fetch.ts`) | answers per title and provider, calls and documents in flight, the gate | resolve, warm, ask, settle, prune | a reader's deadline against a late answer; a gate that refuses half-way; upgrades | one document in flight; calls settle; what is drawn stays; polling ends |
| Limits (`lib/rate-limit.ts`, `lib/cost-meter.ts`) | windows, rings of spends, tarpit | take, record, admit | boundaries of windows, lazy expiry, eviction | a burst is bounded; the meter is honest; alone nobody waits |
| Push (`server/push.ts`) | key pair, subscriptions | announce | first use from two callers | one key pair |
| Search, query parser, playback plan, HLS timeline, shelves, artwork, lists, configuration, UPnP, web UI | caches and tables of their own | mostly pure functions and I/O | data, not control | quality measured by the repository's own canaries and tests |

How they interact: a handler writes a row and calls `worker.enqueue`; the worker
calls the arr and patches the row; the library walk copies the arr into the
mirror; reconcile reads rows and mirror, awaits both arrs' queues, and patches
rows; a webhook patches one row; a removal deletes in the arr and then in the
mirror; `onAvailable` hands an arrival to the push notifier. Everything shares
the `request` table, and nothing locks it across an `await`. The index builder is a
process of its own that shares nothing with the server but three paths. The
page of a title asks the resolver, whose providers share documents through an
`AsyncCache` and one outbound gate with everything else that leaves the process.
Search passes the rate limiter, then the cost meter, before it runs.

`PROJECT.json` lists every component with what is and is not modelled, the
hazards of the code at their lines, and the lines each definition stands for.

## The plan

Done: requests (`RequestRows`, `RequestWorker`, `RequestLifecycle`), transcode
sessions, the index and its abstract promise, accounts, facets, limits and the abstract
limiter; and a proof of
every safety property the passing runs check.

Left, in this order:

1. Another abstract specification beside `ServedIndex` and `FixedWindow`: a single flight
   per document, which the resolver with its gate should implement.
2. For the index, what is left of `SomethingToServe` and `EngineIsOnDisk` where builds do
   meet.
3. The timeline of HLS (`lib/hls-timeline.ts`): the cut points chosen greedily from
   key frames, against "each segment has its bounds, none is left out".
4. Push delivery after `onAvailable`, and the lease of UPnP's port mappings.
5. For requests: the resume limit of 500 rows, the system key's requests, the
   episode rows a removal empties, and two passes of reconcile at once.

## The modules

**`RequestRows`** has no variables: the record a row is kept as, and the pure
rules. `Created` is `createRequest` (a removed row is dropped and written anew, a
dead end is revived in place, anything else only takes the new selection),
`Requeued` is `requeueRequest`, `Patch` is an `update ... where tconst = ?` that
finds no row, `MovesFrom` and `MovesTo` are `nextStatusFor`. A selection (seasons,
quality profile, root folder) is a model value; `retry_at` is kept as none, ahead
or past; `created_at` as today, before today, or older than 24 hours.

**`RequestWorker`** is the sending half. An action is the code between two
awaits. Tables (`row`, `requeued`) survive `Crash`; `queue`, `timers`, `flight`
and `withdrawals` do not. `flight` holds what `process` keeps across its await: the
count and the selection it read, and, once `ArrAccepts` has happened, the id the
arr will answer with. An add may land and be answered (`AnswerAdded`), land and
time out (`AnswerBusy` or `GiveUp` in stage `landed`), not land, be refused, or be
told that the title exists. `arr`, `lastId` and `ourIds` are the arrs' side.

| Action | Code |
|---|---|
| `Start`, `Crash` | `start`, `stop`, the end of the process |
| `Post`, `AgentPost`, `Retry`, `AskEpisodes` | the request routes and the assistant's tool |
| `WithdrawUnsent`, `WithdrawAsks`, `WithdrawDone`, `WithdrawFails` | `withdrawRequest`, before and after its await |
| `DropJob`, `NotDue`, `FailUnconfigured`, `SendAdd` | `process` up to its await, one per early return |
| `AnswerAdded`, `AnswerAlready`, `AnswerBusy`, `GiveUp`, `AnswerRefused` | `process` after its await, one per outcome |
| `TakeEpisodes`, `EpisodesMonitored`, `EpisodesSearched`, `EpisodesFail` | `processEpisodes` |
| `RetryTimePasses`, `TimerFires`, `Midnight` | the clock, `schedule` |
| `ArrAccepts`, `AddedByHand`, `DeletedByHand` | Radarr and Sonarr, and people using them |

**`RequestLifecycle`** extends it with everything else that moves a row:
`PassStarts`, `QueuesAnswer`, `PassMoves` and `PassDiagnoses` are the four stretches
of `reconcile`, each pass carrying the rows it read; `WalkReads` and `WalkReplaces`
are `syncLibrary` around its await; `Webhook` is `apply`; `RemovalAsks`,
`RemovalDone`, `RemovalCut` and `RemovalFails` are `removeMedia`, the third where the
process ends among the three writes that follow the deletion; `MarkSeen` is
`markAvailableSeen`. The worker's actions are taken over with what their handlers
do to the other tables (`Ask` is refused for a title in the mirror; `Withdraw`
takes the diagnostic with the row). `told` counts announcements since the ask was
queued, `unread` those the asker was not shown; neither appears in a guard.

**`TranscodeSessions`** is the class of that name. `table` and `byKey` are its two
maps, `producing`, `background`, `looping` and `ahead` the books of one rendition of
each session, `produced` the list eviction reads, `disk` and `init` its directory.

| Action | Code |
|---|---|
| `Join`, `Open`, `Refuse`, `StartWithoutDirectory` | `start`: a key in play; reap and room; refused; `mkdtemp` fails |
| `Touch`, `Leave`, `LeaveWithoutHandle` | `touch`, `stop` with and without a handle |
| `AskSegment`, `AskInit` | `segmentPath`, `initPath` with `produce`, `aimAhead` and the first look of `runAhead` |
| `Publish`, `Fail`, `StragglerExits` | an ffmpeg exits: `publish` and `evict`, nothing usable, or the session is gone |
| `GoesIdle`, `GetsOld`, `Restart` | the clock as `reap` reads it; `stopAll` or a kill, then `sweepStale` |

`end` is the operator `Dropped` with `TableWithout` and `KeysWithout`; it runs inside
the handlers that call it, never on its own.

**`IndexSwap`** has the builds as processes (`stage`, `writes`) and the server. What
lies at a path is an index, a file that keeps its identity through renames, as an
open descriptor sees it; `whole` are those whose build has finished writing.

| Action | Code |
|---|---|
| `NothingToDo`, `CreatesIndex`, `FinishesIndex`, `Gate` | `jobs/build-index.ts` up to the promotion |
| `PromoteMakesRoom`, `PromoteSetsAside`, `PromoteMovesIn` | the three steps of `promote` |
| `BuildFails`, `OrphanExits` | failures and kills; a build nobody waits for ends |
| `BootsWithIndex`, `BootsWithout`, `BootBuildEnds` | boot, with and without an index, and the first `open` |
| `RefreshStarts`, `RefreshEnds` | `index-refresh`: `run`, `execute` after its await |
| `ServerStops`, `PowerCut`, `PowerCutInRollback` | SIGTERM; the end of everything but the files, at any step and between the unlink and the rename of `rollback` |

`ReloadIndex` is `reload` with `rollback`, `OpenIndex` is `open`; both are parts of
the actions that call them. **`ServedIndex`** is the abstract specification: answers
come out of an index that was finished, and change in one step. `IndexSwap`
instantiates it (`served` is the engine, `finished` the whole indexes) and
`KeepsPromise` is the refinement.

**`Accounts`** keeps the rows of accounts, invites, challenges and PINs, and the
handlers that await (`call`). What a handler does after its last await is one step,
except where it makes an account: `stretch` is the run of statements from
`claimInvite` through `createUser` to the credential and the session, which nothing
interleaves with and a crash (`Boot`) can cut. A PIN's row names its invite and neither who
asked for it nor why, so both finishing routes take any PIN, and link/finish from anyone
signed in; polls of one PIN may overlap, and a call whose PIN went meanwhile goes on
(`PinGoes`). `AskDoor`, `ClaimHash` and `DoorOpen`
are `lib/first-run.ts`. `made` counts the accounts an invite made and guards nothing.

| Action | Code |
|---|---|
| `VisitorLooks`, `Boot` | `/api/auth/state`; start, with the bootstrap invite |
| `BeginWithInvite`, `BeginFirstRun`, `BeginSignIn`, `BeginForSelf` | register/begin, plex/begin, link/begin |
| `TakeChallenge`, `VerifiedWithInvite`, `VerifiedDevice`, `CreatesUser`, `Enrols` | register/finish |
| `PeekPin`, `PlexSignsIn`, `PlexSignsUp` | plex/finish before and after plex.tv |
| `PeekPinToLink`, `Links` | link/finish before and after plex.tv |
| `LoginAsks`, `LoginDone`, `SignOut`, `ForgetsKey`, `UnlinksPlex` | what an owner does |
| `MintsInvite`, `Patches`, `DeletesUser`, `RevokesKey`, `ResetAsks`, `Resets` | what an admin does |
| `CallRefused`, `InviteDies`, `CeremonyExpires` | refusals and the clock |

**`FacetResolver`** follows the documents of a title: a plugin answers several facets
out of one document; `calls` are the keys of `inFlight`, `fetches` the documents in
flight, `sent` and `queue` the gate. `Ask` is `pendingWork`; `Status` is `resolveOne`;
`PageLoads` is the route together with `use-title-detail`; `Boot` restarts with some
plugins at another version and prunes. Documents differ in what a second fetch is:

* one that looks the title's id up first (`seriesDocument`, and TMDB's `/find`) goes on with
  `NextFetch`, and a refusal or a failure of either fetch is the document's;
* one of a film (`Films`) may need its collection, which is a fetch of its own in a cache
  that all films share (`collections`): `JoinsCollection` joins the one in flight or
  begins one. What becomes of it (`OtherDone`, `OtherFails`) completes every film that
  waits for it (`joined`), with the collection or without; refused by the gate, the film is
  complete at once (`DocumentDone`).

`OtherAsks` is any title that is not followed, a film of the same collection included.

**`CallerLimits`** runs `GET /api/search` through `RateLimiter.take` (with its lazy
sweep) and `CostMeter.admit`, `record` and `evictCheapest`. The clock counts buckets of
the ring, and the limiter's window is as many buckets long. `taken` and `burned` are
what really happened, kept the plain way, a list by age that shifts as time passes:
the properties compare the code's lazy books with these. `Remaining` and `ClosesIn` are
what a caller is told of the limiter (`remaining`, `retryAfter`), without a sweep.

**`FixedWindow`** is the limiter as callers see it: so many calls are left, and all of them
are back when the window closes, on time. There is no sweep in it and nothing stale.
`CallerLimits` maps `left` to `Remaining` and `closesIn` to `ClosesIn`.

**`Sums`** is one operator, `Total`, the values of a function over a finite set added
up: what the meter's `sum` computes, and what the counters of the gate and of the tarpit
must be worth.

The modules named **`MC...`** give an instance its configured services, answers,
timelines and symmetry. The modules named **`...Proofs`** hold the theorems. Operators
whose comment starts with "Mutant" are plausible bugs, kept next to the definition they
change: each shows that some property notices.

## The runs

Runs that pass:

| Run | Checks | Instance |
|---|---|---|
| `worker_recovery` | `TypeOK`, `QueuedHasBudget`, `OwedToWorker`, `EpisodeMirrorHonest`, `AsksSettle` | one series that begins as a legacy failed row, two episode jobs in the same queue, Sonarr configured or not at each boot, crashes, hands on the arr, two sends |
| `worker_rows` | `ArrIdIsOurs`, `OnlyOursUnmonitored`, `QuotaKept`, `FirstAskerKeepsCredit` | two films, two sends, two users of whom one is an admin, a quota of one, two ids, hands on the arr, crashes, midnights |
| `lifecycle_arrivals` | `LifecycleTypeOK`, `NewsReachesTheAsker`, `AuditIsTrue` | one series of an admin, an episode job, imports and deleted files reported, removals, a pass, walks, crashes |
| `lifecycle_manual_import` | `ManualImportEnds` | one film, manual-interaction events only, crashes, hands |
| `lifecycle_giving_up` | `SentEnds` | one series, one look allowed, grabs reported or not, days going by |
| `transcode_sessions` | `SessionsTypeOK`, `TableIsSound`, `FfmpegBudget`, `DiskIsHonest`, `AheadKeptUp`, `SharedStreamSurvives`, `RefusedForTheLiving` | a film of four segments and two costly keys of one, two viewers, two sessions of which one may be costly, a cache of three segments, one read ahead |
| `index_swap` | `SwapTypeOK`, `PromotedIsWhole`, `SomethingToServe`, `EngineIsOnDisk`, `ServesAgain`, `KeepsPromise` | two build processes, every file that can exist, power cuts, inside a rollback too, builds killed |
| `accounts` | `AccountsTypeOK`, `OneAccountPerInvite`, `FirstRunHappensOnce`, `NoSilentRelink` | two accounts, two invites, two Plex accounts, one ceremony at a time, two link calls or one other handler awaiting, open sign-up, crashes |
| `facet_calls` | `FacetsTypeOK`, `PoliteUpstream`, `CallsAreCarried`, `DrawnStays`, `PollsEnd` | one title, two addons that share a facet, of which one knows the title as a film of a collection and the other looks its id up first, another film of the collection, a gate of one slot and one place in line, an upgrade |
| `caller_limits` | `LimitsTypeOK`, `BurstBounded`, `MeterIsHonest`, `AloneNobodyWaits` | three callers of whom the meter tracks two, two searches per window, a window of two buckets, one tarpit |

Runs that TLC refutes, each against a sentence of the code's own comments
(quoted in `PROJECT.json`):

| Run | What happens |
|---|---|
| `lifecycle_told_once` | a pass marks a title available and then, from the row it read, downloading; the next pass announces it again |
| `index_first_build_race` | the nightly refresh strikes while the build of the first index runs: the second build deletes and re-creates `titles.new.db` between the first one's gates and its rename, and the first promotes what the second is still writing |

`index_swap` leaves that one event, `early_cron`, and its relative `orphan` (a server
that boots while a refresh its predecessor started still builds) out of its
environment: with either, two builds meet and `PromotedIsWhole` fails. It shows that
without them everything holds, whatever power cuts, failures and refusals do.

### Other behaviours the model reaches

Met while modelling, reproducible in the model, and stated by no property here.

Requests:

* An add lands but times out; the request, queued for its retry, is withdrawn without a
  call, and the arr goes on searching (`withdraw-request.ts:149`). Likewise the retry of
  such an add is told "already exists", so the row has no id and withdrawing it makes no
  call (`request-worker.ts:284`).
* A selection changed while the add is awaited is stored and never sent
  (`request-worker.ts:257`, `:269`).
* Try again pressed during a send: the answer writes the count it read before, plus
  one, over the fresh one, so the new attempt has fewer sends (`request-worker.ts:296`).
* A pass writes `no_release` or `downloading` over a row requeued, or removed, while it
  awaited the queues (`request-worker.ts:429`).
* One map for the queue ids of both arrs, which number independently: a series'
  download moves a film (`diagnose-requests.ts:82`).
* An available title deleted in the arr is asked for again: accepted, and nothing
  happens (`store.ts:1672`, `:1701`).
* Try again on a removed row requeues it (`index.ts:3731`).
* A diagnostic is upserted for a request withdrawn during the pass
  (`request-worker.ts:457`).
* The process ends among the three writes after a deletion (`remove-media.ts:201`): the
  mirror has forgotten the title, and the audit does not have it. If the row says removed, the
  removal cannot be repeated, and the audit never will; if it does not, it waits for
  a title the arr no longer has.
* A walk older than a removal brings the title back into the mirror until the next walk
  (`store.ts:3253`).
* A row given up on as `no_release` is found only by a webhook once its file arrives; if
  that is lost, nothing finds it.

Accounts:

* A crash between the claim and the account burns the invite, which the comment at
  `auth-store.ts:875` says stays usable (nothing calls `resetInvite`); one between the
  account and its credential leaves an account an admin has to reset.
* A claim of the first run nobody redeemed outlives the first account: it is deleted when
  `open` is next asked (`first-run.ts:118`), where the comment at `first-run.ts:19` says
  "the moment an account exists". Until then its invite still makes an admin. It takes a
  first account that came by another way, the bootstrap invite.
* A reset mints an invite, and that makes a new account beside the old one
  (`auth-routes.ts:1452`).

Facets:

* The pruning at boot drops a superseded `ok` answer when the running version has any
  row, an expired or failed one included, so the page loses what it drew; the comment at
  `store.ts:2533` calls what is dropped "genuinely unreachable".
* A call that waits in the gate's queue past its deadline leaves a `failed` row for ten
  minutes, though nothing was asked ("OVERLOAD IS NOT AN ANSWER", `facet-resolver.ts:479`).
* `working` counts the providers the gate refused, who write no row
  (`facet-resolver.ts:573`): the page goes on polling, which is also what asks them again.
* A film whose collection was refused by the gate, or failed, is answered with the name of
  the collection alone (`servarr-metadata.ts:186`), and that answer is cached like one with
  its members, as `immutable` (`:70`).
* A current `empty` answer does not replace the superseded value on the page.

Limits:

* A caller whose ring was evicted and who returns is charged less than it spent.
* The verdict is not asked for again when the tarpit's sleep ends.

### Bounds, and why they are enough

Requests. `MaxSends` (24 in the code) is 1 or 2: the budget matters at its last send and
at the one before it. `MaxLooks` (nine) is 0 or 1 where giving up matters or may happen at
once, and 9 where it must not; `looks` stops at `MaxLooks + 1`, past which the code only
counts. `MaxArrId` lets a title be added, deleted and added again where that is asked
about; two ids cover ours and somebody else's, in either order. `MaxEpisodeJobs` and
`Passes` bound concurrency; a lost `Passes` slot is only a pass that starts later. `told`
stops at two because the question is whether it exceeds one. `Environment` and
`EventsSent` select what the world outside does, so that a run need not pay for midnights
it does not ask about; across the runs every kind of event occurs. Titles are independent
except through the queue, the timers and the quota; that is `worker_rows`. The liveness of
the queue is checked with a title and episode jobs in it, not with two titles, whose state
graph is beyond TLC's reach here.

Sessions. Three keys under limits of two and one make each limit refuse on its own, and
leave a key to be refused; two ids are as many as may live, and an id is free again only
once the last ffmpeg of its session is gone. Four segments, a cache of three and a window
of two let eviction meet the window. `CacheAssumption` (the window fits in the cache with
a segment to spare) holds of the source's ten and four.

Index. At most five files exist at once, at two paths, open in the server and being
written by two builds, so `MaxIndexes` cuts nothing off.

Accounts. Two invites are what a race for the first run needs; a ceremony begun while an
earlier one is being finished needs one of each. Two link calls of one account, each begun
before the other was answered (`Overlapping`, while there is no more than one account:
`Crowd`), are what it takes for one to come back to an account the other has linked;
a handler of another kind awaits alone. Racing ceremonies of one invite, and any handlers
at once, are the proofs', which put no bound on either. `BeginWithInvite` is left out once
every id was given, since the invite could make nobody any more. `MaxKeys` is one: with two
ways in, one key and Plex, every guard of the last way in is met.

Facets. Two documents against a gate of one slot and one place, with a collection that
others ask for too, reach every refusal: at the start of a document, at its second fetch,
and at its collection. Two addons, one facet common, reach every mix of answers on a page.
Films that share a collection are one film followed and others that are not; any number
of them is the proofs'.

Limits. Two buckets make a window whose slots are overwritten in turn; the clock goes
from its start over the length of one window, so every slot is overwritten and every
window closes once. Three callers against two rings make an eviction of somebody who is
not asking. Time stops at `MaxClock`, after which the rest goes on.

Symmetry is used among session ids, among accounts, invites and Plex accounts, and among
callers, in runs without liveness properties.

Deadlock is checked in every run: somebody can always ask or the process can start.

### Fairness

`Fairness` (worker): `drain` loops while its queue has a job; every arr call has a
timeout, so it is answered or abandoned; the clock moves; an armed timer fires; a
supervisor (the container's restart policy) starts the process again. Weak fairness
is enough, since each stays possible until it happens. Nothing is assumed of the
arrs: they may refuse or time out for ever.

`ObserverFairness` (lifecycle): the two `setInterval`s keep firing and a pass, once begun,
goes on (its reads are caught, so it cannot stop half-way); days go by; and
`WalkReplaces` is strongly fair: of the walks that start, some complete, that is, the arr is not
unreachable for ever. Liveness is stated for behaviours with finitely many crashes, and
`AsksSettle` for those in which people stop pressing Try again, each press being a
fresh start.

`FairSpec` of `IndexSwap`: a build's process goes on and exits, the cron keeps striking,
the server handles the exit it waits for; and, strongly, what a step may fail at it does not
fail at for ever: some build makes an index that passes the gates, and some reload opens
it. `ServesAgain` is stated for a server that stays up. No fairness is assumed of booting.

`FairSpec` of `FacetResolver`: a page that polls has a timer, which fires; a fetch carries a
timeout of its own, so it ends, and the body that was read is handed on; other
titles' fetches return. `PollsEnd` is stated for behaviours in which rows stay fresh, the
process stays up and other titles leave the gate alone after a while: an expired row, a
boot or a refusal is what makes a provider owe its answer again. A film that waits for its
collection is carried on by the fairness of that fetch.

## The proofs

Seven modules prove the 41 theorems listed in `PROJECT.json`, for every value of the constants
that satisfies the named assumptions; an eighth, `SumsProofs`, holds the lemmas on sums.
Every invariant and every action property of a passing run is stated by one of them.
`GateHolds`, `WindowIsSpared`, `WhatIsToldIsTrue` and `SweepsAreInvisible` state more than
the runs check.

**`RequestWorkerProofs`**, for every set of titles, users and selections, every quota,
send budget and bound. It assumes `RowAssumption` and `WorkerAssumption`: that the set of
titles is finite, that there is a user and a selection, and that numbers are naturals,
with a budget of at least one send.

* `TypeCorrect` and `BudgetLeft`. `TypeOK` alone is not inductive: `AnswerBusy` writes
  `flight.sends + 1`, which stays in its range only because a row is sent while it has
  a send left. The invariant is `IInv == TypeOK /\ QueuedHasBudget`, the second part
  covering both the queued rows and the count the flight carries.
* `NoAskLost`, inductive relative to `IInv`. The interesting steps are those that consume
  a job: each either leaves `queued`, arms a timer or puts the title in flight; and the
  three ways a queue changes (`Append`, `Tail`, a fresh queue at `Start`) are lemmas.
* `ArrIdsAreOurs` needs a third part, `LandedIsOurs`: the id carried by an add that has
  landed is ours before the row gets it. `WhereIdsComeFrom` says a new id on a row
  comes from the flight, and `OurIdsGrow` that an id once ours stays so.
* `OthersRowsLeftAlone` follows: monitoring is switched off only by a withdrawal, whose
  id was on a row.
* `CreditKept` and `QuotaIsKept` go through `OnlyAsksCredit`: apart from an ask, no step
  changes whose a row is or makes it of today, so what a person asked for today only
  shrinks; an ask adds one title, and only when the quota had room.
* `MirrorIsHonest`: only the three answers of an episode job touch what Sonarr accepted or
  what the mirror shows (`EpisodesAlone`), and the mirror is written with the last of them.

**`RequestLifecycleProofs`**, with any number of passes at once, on top of the worker's
module. Every step is one of the worker's, a write of the observers
(`ObserverWrites`), or leaves the worker's variables alone (`EachStepIsOneKind`).

* `WorkerKeepsItsWord` and `OthersStillLeftAlone`: an observer only moves rows on
  (`MovedOn`: never back to `queued`, and with the count of sends, the arr id and the asker
  kept), although it writes from what it read before an await. That is enough for the
  worker's invariants (`MovesKeepIds`, `MovesKeepOwed`, `MovesKeepQuota`), so each of its
  theorems is carried over once instead of being proved again.
* `NewsArrives`: `NewsReachesTheAsker` is inductive with the types. A row that shows as
  arrived either did so before with the stamp it has (`StaysNews`) or was announced by
  the pass that wrote it; of the pure rules none writes `available` (`RulesMakeNoNews`).
* `AuditTellsTheTruth` needs `IdsAreKnown`: wherever an id is written down, in the mirror, a
  walk, a removal under way or the audit, the arr has handed it out. So an id handed
  out later is none of those (`FreshIds`), and a title that comes back is not taken for
  the one that was removed.

**`TranscodeSessionsProofs`**, for any limits, timelines, finite sets of session ids and
viewers (`SessionsAssumption`, and `CacheAssumption` for the books).

* `SessInv == Types /\ TableIsSound /\ FfmpegBudget` is inductive. For the table, every step
  is one of five kinds (`EachStepIsOneKind`): it changes fields of live entries, ends a set
  of sessions, reaps and opens one, leaves the table alone, or starts over.
  `EndKeeps` and `OpenKeeps` treat the two that matter once.
* For the ffmpegs, `Fits` states the budget of one session. A step changes the books of at
  most one session (`OneChanges`); a look of the loop, a request and the end of a run are a
  lemma each. The limit for requests survives a run of the loop because `Requests` is
  counted without it.
* `SharedStreamIsKept` and `RefusedForTheLivingOnly` follow from the invariant and a look at
  each action: only the last handle, a reap or a restart takes an entry away, and whoever is
  refused has reaped first.
* `DiskStaysHonest`, `AheadStaysKeptUp` and `SessionsTypes` rest on `BooksKept`, inductive
  relative to `SessInv`. Of a session that is gone it says that nothing is left (`Bare`); of a
  live one (`Orderly`), beyond the properties, that nothing on disk is being made again and
  that the window lies within the film, begins after the player's segment and is no
  longer than the read-ahead. The first keeps a segment from landing twice; the second
  makes the window smaller than the cache, so that an eviction finds exactly one segment to
  drop, outside it (`EvictedOne`): the `at < 0` of `evict` is never taken.
* Eviction is stated by counting (`Before`, `Evicted`, `Spliced`): what is dropped are the
  positions outside the window that fewer than `over` such positions precede, and what
  stays closes up. `SplicedAt` gives the resulting sequence, position by position.
* `WindowIsSpared` proves the comment at `lib/transcode-session.ts:922`, "the segment being
  read and the ones about to be are never evicted", as an action property.

**`IndexSwapProofs`**, for any set of builds, any number of index files and whatever the
world does. `SwapTypes` holds without a condition. The others are stated of behaviours: if
builds do not meet in one (`[]NoTwoBuilds`), then in it only finished indexes are promoted,
there is always one to serve, and the promise is kept; if, further, a running server
knows of every build that runs (`[]NoStrayBuild`), its holder is honest. The code ensures
neither, as `index_first_build_race` shows, so the conditions are part of the theorems:
`Spec /\ []NoTwoBuilds => []PromotedIsWhole`, and so on. `BuildsNeverMeet` says where they
hold: without the events `early_cron` and `orphan`, which is the environment of `index_swap`.

* `FilesInv` adds to the types `NewIsTheBuilds`, what lies at `titles.new.db` is what the
  running build writes, and finished from the gates on; `ServedIsWhole`; and `OneIsThere`.
  It is inductive under the condition at both ends of a step. `OnlyWholeIsPromoted` and
  `AlwaysSomethingToServe` are parts of it.
* `HolderInv`, for `HolderIsHonest`: a server that is gone awaits no build (`Awaited`), the
  first build has the paths to itself and nothing is served yet (`FirstAlone`), and only a
  refresh that has not been adopted puts the engine's file elsewhere (`Unadopted`).
* `PromiseKept` is the refinement: initial states map to initial states, and
  `StepIsAbstract` shows every step to be a stutter or one of `ServedIndex`'s; that an
  index is not deleted while it is served needs `FilesInv`.

**`AccountsProofs`**, for finite sets of accounts and invites, any number of ceremonies and
handlers at once. `AccountsInv == Types /\ Once`. `Once` says why the first run cannot come
twice: an account was made by an invite only if that invite is redeemed; claims of the first run are for
an admin; at most one is live, and none once one was used; and then an admin exists.
The last is what keeps the door shut, since `DoorOpen` reads an empty table:
`LastAdminStays` shows that no patch, removal or deletion takes the last enabled admin away.
Every step is one of six kinds for the invites (`EachStepIsOneKind`).

**`FacetResolverProofs`**, for finite sets of titles, plugins and other fetches, any films
and collections, any gate and any number of fetches in a document. `FacetInv` adds to the
types `GateKept`; `CallsWait`, a call waits for a document in flight; `CallsAreOwed`, it is
for a key that owes an answer; and `WorkIsShared`. `Idle` and `Busy` say where the one fetch of
something is: nowhere, or in a slot, once in line, or its body is being read. A document
that is not in flight is idle, one in flight is busy or has joined a collection; nothing else is
more than busy; and a collection that somebody waits for is (`WorkIsShared`). It is
`PoliteUpstream` and the second half of `CallsAreCarried` with positions for counts
(`SharedIsPolite`), which is what the gate's steps move.
`EnteringDoes` and `LeavingDoes` say what the gate does to a fetch that comes or goes,
`SharingKeeps` that a step only has to account for those whose work it changes, and
`SettlingKeeps` treats every way documents can end, several at once where a collection
settles. `DrawnIsKept` follows from `CallsAreOwed`: what a call writes replaces nothing that
is drawn, only a superseded answer may be drawn under it.

**`CallerLimitsProofs`**, for a finite set of callers, any limit, budgets, costs, and number of
buckets. The clock's bound is at least the ring's length (`LimitsAssumption`).

* `BurstIsBounded` needs `WindowsKept`: a window counts what was taken since it was opened,
  something was taken then, and what is older is less than the limit; a caller without a
  window has taken less than the limit. So a sweep loses nothing (`SweepIsNoLoss`).
* `SweepsAreInvisible` is the refinement of `FixedWindow`, step by step: a search that is let
  through takes one of what is left, in a window it opens if none is open (`TakingIsTake`);
  a search that is refused, and any sweep, is a stutter (`SweepIsNotSeen`); a tick of the
  clock closes the windows that are due (`TimeIsTick`). The abstract specification
  does not say who is refused: `WhatIsToldIsTrue` does, that it is who has nothing
  left. Both need `LimitsTypeOK` only.
* `TheMeterIsHonest` needs `MeterKept`, bucket by bucket. `Honest` says what the slot of an age
  may hold: the bucket of that age, or one that left the window. `SlotsDiffer` and
  `SlotMoves` are the arithmetic of the ring, `SumIsReads` turns the code's sum over slots
  into one over ages, and `TotalByColumns` exchanges the sum over callers with the sum
  over ages.
* `NobodyWaitsAlone` needs `LossIsWitnessed`: a caller is charged less than it spent only if
  somebody else worked in the window at the time or after.

**`SumsProofs`**. `Total` is a fold, so its laws need induction over finite sets. The library's
induction theorems take an operator; `SmallestSubset` and `SubsetInduction` say the same with a
set for the claim, from the library's theorem that strict inclusion is well-founded.

## What is only model-checked

* All liveness: TLAPS does not reason about ENABLED, so `AsksSettle`, `SentEnds`,
  `ManualImportEnds`, `ServesAgain` and `PollsEnd` rest on TLC's instances.
* The two runs that TLC refutes: `ToldOnce`, and `PromotedIsWhole` where builds meet.

## Abstractions

Requests:

* An idle worker and one in its 400 ms pause are one state.
* A call of the arr is an action for its effect and one for its answer only where the
  time between them matters (the add). Unmonitoring and deleting take effect with
  their answer, or with a failed answer.
* One withdrawal and one removal per title at a time, and one walk per arr.
* Requests of the system key, which belong to nobody, are left out.
* One daily quota binds everybody it applies to: a person's own override of the site's
  limit is left out.
* `listRequests` returns every row: its limits (500 at start, 200 per pass) are left out.
* An add abandoned by its timeout lands before the timeout or never.
* Once a pass counted a row's looks, and the row was replaced by a younger one
  meanwhile, its age is that of the row read or of the row now.
* A removal's three writes are cut by the end of the process as one of three outcomes, in
  the step of the deletion's answer (`RemovalCut`); nothing else runs among them.
* A webhook finds its row by title. By arr id it would find the same one.
* SQLite does not fail. A removal's emptying of a series' episode rows is left out.
* A title in an arr is all of its episodes: one file stands for "some episode has one".

Sessions: one rendition is followed, the clock is two marks (idle, old), and what an
ffmpeg does between its start and its exit is the outcome it has. Tickets, metering and
arguments are left out.

Index: a gate's verdict is whether the index is accurate; a file still being written may
pass or not. The look whether `titles.prev.db` is there and its unlink are one step of
`promote`. No server boots while a build of its predecessor runs, unless the event `orphan`
is in the environment: the handler of SIGTERM (`index.ts:4165`) does not see to it. The
SQL of the stages, the page cache and the progress file are left out.

Accounts: the deletion of a PIN and what follows the look-up of its access are one step.
The Plex account that approves a PIN is drawn when the PIN is made, and no other approves
it. What a call read of an account before its await is kept as far as the code looks at it
again; a redeemed invite keeps no role, which nothing reads. An invite that expired or was deleted is
none, and its slot is minted anew. Agent keys, renames, cookies and the encodings of
WebAuthn are left out; admin routes may always be used, by the system key.

Facets: one superseded generation of a row at a time; a version that is reverted and a plugin
that fails to load are left out, as are schema checks and the merging of values. The caches
of an id and of its document are one document of two fetches: a call that finds the first
settled goes on in the same stretch, so nobody sees the moment between them. A
collection that is refused by the gate is a document complete without it, and its
fetch, like any other that is nobody's document, is done when its body is read.

Limits: the clock is read once in an action. A verdict of the meter reads it several times
(`cost-meter.ts:411`, in each sum): when a bucket's edge falls between `busy` and `spent`
(`:344`), a lone caller's bucket that has just expired counts for that verdict as somebody
else's, and it may be slowed or refused though nobody else is there. `AloneNobodyWaits` is shown
of verdicts within one bucket. The limiter's window opens and closes on a bucket's edge, so that one clock serves
both; zeros that switch a limit off, the length of a delay and the reports are left out.

## Not modelled

The components `PROJECT.json` lists as `not_modelled`, with the reason of each: queries
over the search index and its pipeline of SQL, parsers of media files, pages made of
queries, pictures, settings, the browser's interface and vendored C. They make most of the
repository's lines, and what can be wrong in them is data or layout, which a model of
control says nothing about. The lines mapped are those in which actors meet.
