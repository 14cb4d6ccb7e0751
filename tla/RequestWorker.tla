--------------------------- MODULE RequestWorker ---------------------------
(***************************************************************************)
(* The sending half of a request: the HTTP handlers that write and delete  *)
(* rows, and `RequestWorker`, which drains a queue of jobs into Radarr and *)
(* Sonarr one at a time, retrying what an arr was too busy to accept.      *)
(*                                                                         *)
(* One Bun process runs all of it, so a handler is atomic up to its next   *)
(* `await`: an action here is the code between two awaits.  `row` is in    *)
(* SQLite and survives a crash; `queue`, `timers`, `flight` and            *)
(* `withdrawals` are memory and do not.  `arr`, `lastId` and `ourIds`      *)
(* belong to the arrs.  Whether the library mirror already holds a title   *)
(* is not known here: RequestLifecycle adds that guard.                    *)
(*                                                                         *)
(* An idle worker and one breathing between two jobs are the same state:   *)
(* nothing is in flight and the next job is not yet taken.  The 400 ms     *)
(* breath is therefore the time the other actions have before TakeJob.     *)
(***************************************************************************)
EXTENDS RequestRows

CONSTANTS
    LegacyFailed,   \* titles left `failed` by a version that did not retry
    ConfigChoices,  \* sets of services an operator may configure at a boot
    MaxEpisodeJobs, \* bound: episode jobs waiting in the queue at once
    Environment     \* bound: what the world outside does in a behaviour

\* Crashes, UTC midnights, days going by, hands on the arrs' own interfaces.
EnvironmentEvents == {"crash", "midnight", "day", "hand"}

ASSUME WorkerAssumption ==
    /\ LegacyFailed \subseteq Titles
    /\ ConfigChoices \subseteq SUBSET Services
    /\ ConfigChoices # {}
    /\ MaxEpisodeJobs \in Nat
    /\ Environment \subseteq EnvironmentEvents

VARIABLES
    row,         \* [Titles -> Row \cup {NoRow}], the request table
    requeued,    \* the kv flag of the one-off requeue of failed rows
    up,          \* the process is running and `start` has been called
    configured,  \* services with a client in this process
    queue,       \* this.queue, the jobs waiting
    timers,      \* this.timers: titles with an armed retry timer
    flight,      \* the job the worker is awaiting an arr for
    withdrawals, \* [Titles -> ArrIds]: unmonitor calls not yet answered
    arr,         \* what the arr of each title holds
    lastId,      \* the last library id each arr handed out
    ourIds,      \* ids that finderr's own adds created, per title
    episodes,    \* what Sonarr was last asked about a series' episodes
    shown        \* series whose episode mirror says `monitored`

arrVars == <<arr, lastId, ourIds>>
memVars == <<queue, timers, flight, withdrawals>>
episodeVars == <<episodes, shown>>
workerVars == <<row, requeued, up, configured, memVars, arrVars, episodeVars>>

Job == [kind : {"title", "episode"}, tconst : Titles]
TitleJob(t) == [kind |-> "title", tconst |-> t]
EpisodeJob(t) == [kind |-> "episode", tconst |-> t]

\* What `process` still needs after its await: the send count it read, the id
\* the arr answered with, and the selection it sent.
Flight == [kind : {"title", "episode"}, tconst : Titles,
           stage : {"asked", "landed", "monitor", "search"},
           id : ArrIds, sends : 0 .. MaxSends, sel : Selections]
NoFlight == [kind |-> "none"]

Holding == [id : ArrIds, monitored : BOOLEAN, sel : Selections]
NotHeld == [id |-> NoId, monitored |-> FALSE, sel |-> CHOOSE s \in Selections : TRUE]

TypeOK ==
    /\ row \in [Titles -> Row \cup {NoRow}]
    /\ requeued \in BOOLEAN
    /\ up \in BOOLEAN
    /\ configured \in SUBSET Services
    /\ queue \in Seq(Job)
    /\ timers \in SUBSET Titles
    /\ flight \in Flight \cup {NoFlight}
    /\ withdrawals \in [Titles -> ArrIds]
    /\ arr \in [Titles -> Holding]
    /\ lastId \in [Services -> ArrIds]
    /\ ourIds \in [Titles -> SUBSET ArrIds]
    /\ episodes \in [Titles -> {"none", "monitored", "searched"}]
    /\ shown \in SUBSET Titles

Waiting(t) == \E i \in 1 .. Len(queue) : queue[i] = TitleJob(t)
InFlight(t) == flight # NoFlight /\ flight.kind = "title" /\ flight.tconst = t

\* A row some earlier version left behind, out of attempts it never counted.
LegacyRow == [NewRow(CHOOSE u \in Users : TRUE, CHOOSE s \in Selections : TRUE)
                EXCEPT !.status = "failed", !.age = "old"]

Init ==
    /\ row = [t \in Titles |-> IF t \in LegacyFailed THEN LegacyRow ELSE NoRow]
    /\ requeued = FALSE
    /\ up = FALSE
    /\ configured = {}
    /\ queue = <<>>
    /\ timers = {}
    /\ flight = NoFlight
    /\ withdrawals = [t \in Titles |-> NoId]
    /\ arr = [t \in Titles |-> NotHeld]
    /\ lastId = [s \in Services |-> NoId]
    /\ ourIds = [t \in Titles |-> {}]
    /\ episodes = [t \in Titles |-> "none"]
    /\ shown = {}

-----------------------------------------------------------------------------
(* Boot and crash.                                                         *)

\* Every order in which the jobs of the titles `S` can be pushed.
TitleQueues(S) ==
    {q \in [1 .. Cardinality(S) -> {TitleJob(t) : t \in S}] :
        \A t \in S : \E i \in 1 .. Cardinality(S) : q[i] = TitleJob(t)}

\* The rows `start` finds: failed ones are requeued once in a database's life.
RowsAtStart ==
    [t \in Titles |-> IF ~requeued /\ row[t].status = "failed"
                      THEN Requeued(row[t]) ELSE row[t]]

\* `start`: a queued row whose retry time is still ahead gets its timer back,
\* every other queued row goes straight onto the queue.
Start ==
    /\ ~up
    /\ up' = TRUE
    /\ configured' \in ConfigChoices
    /\ requeued' = TRUE
    /\ row' = RowsAtStart
    /\ timers' = {t \in Titles : row'[t].status = "queued" /\ row'[t].retry = "future"}
    /\ queue' \in TitleQueues({t \in Titles : row'[t].status = "queued"} \ timers')
    /\ UNCHANGED <<flight, withdrawals, arrVars, episodeVars>>

\* The process dies: what was in memory goes, what the arrs did stays done.
MemoryLost ==
    /\ "crash" \in Environment
    /\ up
    /\ up' = FALSE
    /\ queue' = <<>>
    /\ timers' = {}
    /\ flight' = NoFlight
    /\ withdrawals' = [t \in Titles |-> NoId]

Crash == MemoryLost /\ UNCHANGED <<row, requeued, configured, arrVars, episodeVars>>

-----------------------------------------------------------------------------
(* The handlers.                                                           *)

\* `enqueue`: a title waits in the queue at most once.
Enqueue(t) ==
    queue' = IF Waiting(t) THEN queue ELSE Append(queue, TitleJob(t))

\* POST /api/requests: the quota is charged only for an ask that writes a row.
Post(t, u, s) ==
    /\ up
    /\ Service(t) \in configured
    /\ createsNewRequest(row[t]) => QuotaAllows(row, u)
    /\ row' = [row EXCEPT ![t] = Created(@, u, s)]
    /\ Enqueue(t)
    /\ UNCHANGED <<requeued, up, configured, timers, flight, withdrawals,
                   arrVars, episodeVars>>

\* The assistant's request tool: a title anybody holds a row for is declined.
AgentPost(t, u, s) == ~Exists(row[t]) /\ Post(t, u, s)

\* POST /api/requests/:tconst/retry: any row, whatever its status.
Retry(t) ==
    /\ up
    /\ Exists(row[t])
    /\ row' = [row EXCEPT ![t] = Requeued(@)]
    /\ Enqueue(t)
    /\ UNCHANGED <<requeued, up, configured, timers, flight, withdrawals,
                   arrVars, episodeVars>>

MayWithdraw(t, u) ==
    /\ up
    /\ Exists(row[t])
    /\ mayWithdraw(row[t], u)
    /\ isWithdrawable(row[t].status)

\* DELETE /api/requests/:tconst for a row with no arr id: nothing to call.
WithdrawUnsent(t, u) ==
    /\ MayWithdraw(t, u)
    /\ row[t].arrId = NoId
    /\ row' = [row EXCEPT ![t] = NoRow]
    /\ UNCHANGED <<requeued, up, configured, memVars, arrVars, episodeVars>>

\* The same for a row with an arr id: the arr is asked to stop first.
WithdrawAsks(t, u) ==
    /\ MayWithdraw(t, u)
    /\ row[t].arrId # NoId
    /\ Service(t) \in configured
    /\ withdrawals[t] = NoId
    /\ withdrawals' = [withdrawals EXCEPT ![t] = row[t].arrId]
    /\ UNCHANGED <<row, requeued, up, configured, queue, timers, flight,
                   arrVars, episodeVars>>

\* Mutant: the library row is looked up by title at the last moment.
UnmonitoredByTitle(t, id) == [arr EXCEPT ![t].monitored = FALSE]

\* Unmonitoring by id reaches a library row only while the arr has that id.
Unmonitored(t, id) ==
    [arr EXCEPT ![t].monitored = @ /\ arr[t].id # id]

\* The arr obeyed, or no longer knows the id (404): the row goes either way.
WithdrawDone(t) ==
    /\ up
    /\ withdrawals[t] # NoId
    /\ arr' = Unmonitored(t, withdrawals[t])
    /\ row' = [row EXCEPT ![t] = NoRow]
    /\ withdrawals' = [withdrawals EXCEPT ![t] = NoId]
    /\ UNCHANGED <<requeued, up, configured, queue, timers, flight, lastId,
                   ourIds, episodeVars>>

\* The call failed, before or after the arr acted on it: our row stays.
WithdrawFails(t) ==
    /\ up
    /\ withdrawals[t] # NoId
    /\ arr' \in {arr, Unmonitored(t, withdrawals[t])}
    /\ withdrawals' = [withdrawals EXCEPT ![t] = NoId]
    /\ UNCHANGED <<row, requeued, up, configured, queue, timers, flight,
                   lastId, ourIds, episodeVars>>

\* POST /api/requests/episode and /season: a job, and no row.
AskEpisodes(t) ==
    /\ up
    /\ "sonarr" \in configured
    /\ t \notin Films
    /\ Cardinality({i \in 1 .. Len(queue) : queue[i].kind = "episode"}) < MaxEpisodeJobs
    /\ queue' = Append(queue, EpisodeJob(t))
    /\ UNCHANGED <<row, requeued, up, configured, timers, flight, withdrawals,
                   arrVars, episodeVars>>

-----------------------------------------------------------------------------
(* The worker: `drain` takes the next job, `process` decides what it is.   *)

TakesTitle(t) ==
    /\ up
    /\ flight = NoFlight
    /\ queue # <<>>
    /\ Head(queue) = TitleJob(t)
    /\ queue' = Tail(queue)

\* The row is gone, or somebody else has moved it on: the job is dropped.
DropJob(t) ==
    /\ TakesTitle(t)
    /\ row[t].status # "queued"
    /\ UNCHANGED <<row, requeued, up, configured, timers, flight, withdrawals,
                   arrVars, episodeVars>>

\* Enqueued before its retry time: the timer is the one that sends it.
NotDue(t) ==
    /\ TakesTitle(t)
    /\ row[t].status = "queued"
    /\ row[t].retry = "future"
    /\ timers' = timers \cup {t}
    /\ UNCHANGED <<row, requeued, up, configured, flight, withdrawals, arrVars,
                   episodeVars>>

\* The row is due, so any timer armed for it is disarmed.
Due(t) ==
    /\ TakesTitle(t)
    /\ row[t].status = "queued"
    /\ row[t].retry # "future"
    /\ timers' = timers \ {t}

\* No client for the service: no amount of waiting configures one.
FailUnconfigured(t) ==
    /\ Due(t)
    /\ Service(t) \notin configured
    /\ row' = [row EXCEPT ![t].status = "failed", ![t].retry = "none"]
    /\ UNCHANGED <<requeued, up, configured, flight, withdrawals, arrVars,
                   episodeVars>>

\* `client.add` is called, with what the row says at this moment.
SendAdd(t) ==
    /\ Due(t)
    /\ Service(t) \in configured
    /\ flight' = [kind |-> "title", tconst |-> t, stage |-> "asked",
                  id |-> NoId, sends |-> row[t].sends, sel |-> row[t].sel]
    /\ UNCHANGED <<row, requeued, up, configured, withdrawals, arrVars, episodeVars>>

\* The arr creates its library row, before finderr hears of it.
ArrAccepts(t) ==
    /\ InFlight(t)
    /\ flight.stage = "asked"
    /\ arr[t].id = NoId
    /\ lastId[Service(t)] < MaxArrId
    /\ LET id == lastId[Service(t)] + 1 IN
       /\ lastId' = [lastId EXCEPT ![Service(t)] = id]
       /\ arr' = [arr EXCEPT ![t] = [id |-> id, monitored |-> TRUE, sel |-> flight.sel]]
       /\ ourIds' = [ourIds EXCEPT ![t] = @ \cup {id}]
       /\ flight' = [flight EXCEPT !.stage = "landed", !.id = id]
    /\ UNCHANGED <<row, requeued, up, configured, queue, timers, withdrawals,
                   episodeVars>>

Answered(t) ==
    /\ InFlight(t)
    /\ flight' = NoFlight
    /\ UNCHANGED <<requeued, up, configured, queue, withdrawals, arrVars,
                   episodeVars>>

\* The answer: the row is written by title, whatever it has become meanwhile.
AnswerAdded(t) ==
    /\ Answered(t)
    /\ flight.stage = "landed"
    /\ row' = [row EXCEPT ![t] =
                  Patch(@, [@ EXCEPT !.status = "sent", !.arrId = flight.id,
                                     !.retry = "none"])]
    /\ UNCHANGED timers

\* Mutant: the id of the row that was already there is taken over.
AnswerAlreadyWithId(t) ==
    /\ Answered(t)
    /\ flight.stage = "asked"
    /\ arr[t].id # NoId
    /\ row' = [row EXCEPT ![t] =
                  Patch(@, [@ EXCEPT !.status = "sent", !.arrId = arr[t].id, !.retry = "none"])]
    /\ UNCHANGED timers

\* 400, already exists: somebody's row, or ours from an add that timed out.
AnswerAlready(t) ==
    /\ Answered(t)
    /\ flight.stage = "asked"
    /\ arr[t].id # NoId
    /\ row' = [row EXCEPT ![t] =
                  Patch(@, [@ EXCEPT !.status = "sent", !.retry = "none"])]
    /\ UNCHANGED timers

\* Mutant: the retry time is written, and no timer is armed for it.
AnswerBusyUnscheduled(t) ==
    /\ Answered(t)
    /\ flight.sends + 1 < MaxSends
    /\ row' = [row EXCEPT ![t] =
                  Patch(@, [@ EXCEPT !.status = "queued", !.retry = "future",
                                     !.sends = flight.sends + 1])]
    /\ UNCHANGED timers

\* Mutant: one retry more than the budget.
AnswerBusyOneMore(t) ==
    /\ Answered(t)
    /\ flight.sends + 1 <= MaxSends
    /\ row' = [row EXCEPT ![t] =
                  Patch(@, [@ EXCEPT !.status = "queued", !.retry = "future",
                                     !.sends = flight.sends + 1])]
    /\ timers' = timers \cup {t}

\* Mutant: the attempt is not counted, so the budget is never used up.
AnswerBusyUncounted(t) ==
    /\ Answered(t)
    /\ flight.sends + 1 < MaxSends
    /\ row' = [row EXCEPT ![t] =
                  Patch(@, [@ EXCEPT !.status = "queued", !.retry = "future"])]
    /\ timers' = timers \cup {t}

\* A timeout, a 5xx, 408 or 429, whether or not the add had landed.
AnswerBusy(t) ==
    /\ Answered(t)
    /\ flight.sends + 1 < MaxSends
    /\ row' = [row EXCEPT ![t] =
                  Patch(@, [@ EXCEPT !.status = "queued", !.retry = "future",
                                     !.sends = flight.sends + 1])]
    /\ timers' = timers \cup {t}

\* Mutant: the last attempt is counted twice.
FailedCountingTwice(r, sends) ==
    Patch(r, [r EXCEPT !.status = "failed", !.sends = sends + 1, !.retry = "none"])

Failed(r, sends) ==
    Patch(r, [r EXCEPT !.status = "failed", !.sends = sends, !.retry = "none"])

\* The same answer with every attempt spent.
GiveUp(t) ==
    /\ Answered(t)
    /\ flight.sends + 1 >= MaxSends
    /\ row' = [row EXCEPT ![t] = Failed(@, flight.sends + 1)]
    /\ UNCHANGED timers

\* A refusal waiting cannot cure, such as a title the arr cannot resolve.
AnswerRefused(t) ==
    /\ Answered(t)
    /\ flight.stage = "asked"
    /\ row' = [row EXCEPT ![t] = Failed(@, flight.sends + 1)]
    /\ UNCHANGED timers

\* An episode job: monitor, then search, then write the mirror through.
TakeEpisodes(t) ==
    /\ up
    /\ flight = NoFlight
    /\ queue # <<>>
    /\ Head(queue) = EpisodeJob(t)
    /\ queue' = Tail(queue)
    /\ flight' = IF "sonarr" \in configured
                 THEN [kind |-> "episode", tconst |-> t, stage |-> "monitor",
                       id |-> NoId, sends |-> 0, sel |-> NotHeld.sel]
                 ELSE NoFlight
    /\ UNCHANGED <<row, requeued, up, configured, timers, withdrawals, arrVars,
                   episodeVars>>

EpisodeStage(t, stage) ==
    /\ flight # NoFlight
    /\ flight.kind = "episode"
    /\ flight.tconst = t
    /\ flight.stage = stage
    /\ UNCHANGED <<row, requeued, up, configured, queue, timers, withdrawals,
                   arrVars>>

EpisodesMonitored(t) ==
    /\ EpisodeStage(t, "monitor")
    /\ episodes' = [episodes EXCEPT ![t] = "monitored"]
    /\ flight' = [flight EXCEPT !.stage = "search"]
    /\ UNCHANGED shown

EpisodesSearched(t) ==
    /\ EpisodeStage(t, "search")
    /\ episodes' = [episodes EXCEPT ![t] = "searched"]
    /\ shown' = shown \cup {t}
    /\ flight' = NoFlight

\* Mutant: the mirror is written whether or not Sonarr accepted.
EpisodesFailShown(t) ==
    /\ EpisodeStage(t, "monitor") \/ EpisodeStage(t, "search")
    /\ flight' = NoFlight
    /\ shown' = shown \cup {t}
    /\ UNCHANGED episodes

\* Either call fails, before or after Sonarr acted on it: nothing is written.
EpisodesFail(t) ==
    /\ \/ EpisodeStage(t, "monitor") /\ episodes' \in {episodes, [episodes EXCEPT ![t] = "monitored"]}
       \/ EpisodeStage(t, "search") /\ episodes' \in {episodes, [episodes EXCEPT ![t] = "searched"]}
    /\ flight' = NoFlight
    /\ UNCHANGED shown

-----------------------------------------------------------------------------
(* Time, and other people's hands.                                         *)

\* The retry time of a row passes.
RetryTimePasses(t) ==
    /\ row[t].retry = "future"
    /\ row' = [row EXCEPT ![t].retry = "past"]
    /\ UNCHANGED <<requeued, up, configured, memVars, arrVars, episodeVars>>

\* A timer fires no earlier than the retry time it was armed for.
TimerFires(t) ==
    /\ up
    /\ t \in timers
    /\ row[t].retry # "future"
    /\ timers' = timers \ {t}
    /\ Enqueue(t)
    /\ UNCHANGED <<row, requeued, up, configured, flight, withdrawals, arrVars,
                   episodeVars>>

\* UTC midnight: no row was asked for today any more.
Midnight ==
    /\ "midnight" \in Environment
    /\ \E t \in Titles : Exists(row[t]) /\ row[t].age = "today"
    /\ row' = [t \in Titles |->
                  IF Exists(row[t]) /\ row[t].age = "today"
                  THEN [row[t] EXCEPT !.age = "past"] ELSE row[t]]
    /\ UNCHANGED <<requeued, up, configured, memVars, arrVars, episodeVars>>

\* Somebody adds the title in the arr's own interface.
AddedByHand(t) ==
    /\ "hand" \in Environment
    /\ arr[t].id = NoId
    /\ lastId[Service(t)] < MaxArrId
    /\ lastId' = [lastId EXCEPT ![Service(t)] = @ + 1]
    /\ arr' = [arr EXCEPT ![t] = [NotHeld EXCEPT !.id = lastId'[Service(t)],
                                                 !.monitored = TRUE]]
    /\ UNCHANGED <<row, requeued, up, configured, memVars, ourIds, episodeVars>>

\* Somebody deletes it there.
DeletedByHand(t) ==
    /\ "hand" \in Environment
    /\ arr[t].id # NoId
    /\ arr' = [arr EXCEPT ![t] = NotHeld]
    /\ UNCHANGED <<row, requeued, up, configured, memVars, lastId, ourIds, episodeVars>>

-----------------------------------------------------------------------------
WorkerTakes(t) ==
    \/ DropJob(t) \/ NotDue(t) \/ FailUnconfigured(t) \/ SendAdd(t)
    \/ TakeEpisodes(t)

WorkerHears(t) ==
    \/ AnswerAdded(t) \/ AnswerAlready(t) \/ AnswerBusy(t) \/ GiveUp(t)
    \/ AnswerRefused(t)
    \/ EpisodesMonitored(t) \/ EpisodesSearched(t) \/ EpisodesFail(t)

Withdrawing(t) ==
    \/ \E u \in Users : WithdrawUnsent(t, u) \/ WithdrawAsks(t, u)
    \/ WithdrawDone(t)
    \/ WithdrawFails(t)

ByHand(t) == AddedByHand(t) \/ DeletedByHand(t)

Next ==
    \/ Start
    \/ Crash
    \/ Midnight
    \/ \E t \in Titles :
        \/ \E u \in Users, s \in Selections : Post(t, u, s) \/ AgentPost(t, u, s)
        \/ Retry(t)
        \/ Withdrawing(t)
        \/ AskEpisodes(t)
        \/ WorkerTakes(t)
        \/ ArrAccepts(t)
        \/ WorkerHears(t)
        \/ RetryTimePasses(t)
        \/ TimerFires(t)
        \/ ByHand(t)

Spec == Init /\ [][Next]_workerVars

(***************************************************************************)
(* The drain loop never stops while its queue has a job, every arr call is *)
(* answered or abandoned by its own timeout, the clock moves, an armed     *)
(* timer fires, and a supervisor restarts the process.                     *)
(***************************************************************************)
Fairness ==
    /\ WF_workerVars(Start)
    /\ WF_workerVars(\E t \in Titles : WorkerTakes(t))
    /\ WF_workerVars(\E t \in Titles : WorkerHears(t))
    /\ \A t \in Titles : WF_workerVars(RetryTimePasses(t))
    /\ \A t \in Titles : WF_workerVars(TimerFires(t))

FairSpec == Spec /\ Fairness

-----------------------------------------------------------------------------
(* Properties.                                                             *)

\* No ask is ever lost: while the process runs, every `queued` row is known to
\* the worker, as a job in its queue, as an armed timer, or as the add it is
\* awaiting.  Queue and timers are memory, so this is what `enqueue`,
\* `schedule` and `start` owe the table between them, across every crash.
OwedToWorker ==
    up => \A t \in Titles :
              row[t].status = "queued" => Waiting(t) \/ t \in timers \/ InFlight(t)

\* A queued row has a send left to make: an answer that uses up the last one
\* writes `failed` and never `queued`, and every other way back to `queued`
\* resets the count.
QueuedHasBudget ==
    /\ \A t \in Titles : row[t].status = "queued" => row[t].sends < MaxSends
    /\ flight # NoFlight => flight.sends < MaxSends

\* An arr id on a row, or in a withdrawal in progress, was created by one of
\* finderr's own adds of that title: the "already exists" answer records none.
ArrIdIsOurs ==
    \A t \in Titles :
        /\ row[t].arrId # NoId => row[t].arrId \in ourIds[t]
        /\ withdrawals[t] # NoId => withdrawals[t] \in ourIds[t]

\* Withdrawing an ask never switches off monitoring on a library row that
\* somebody else put into the arr, even when it replaced ours in the meantime.
OnlyOursUnmonitored ==
    [][\A t \in Titles :
           (arr[t].monitored /\ ~arr'[t].monitored /\ arr'[t].id = arr[t].id)
               => arr[t].id \in ourIds[t]]_workerVars

\* Nobody bound by the daily quota has more rows from today than it allows,
\* however asks, re-asks, revivals and withdrawals are ordered.
QuotaKept ==
    \A u \in Users :
        QuotaApplies(u) => Cardinality(AskedToday(row, u)) <= QuotaPerDay

\* The first asker keeps the credit: a row changes hands only when it was not
\* there, or was a removed one that a fresh ask replaces.
FirstAskerKeepsCredit ==
    [][\A t \in Titles :
           row'[t].by # row[t].by => createsNewRequest(row[t]) \/ ~Exists(row'[t])]_workerVars

\* The episode mirror says `monitored` only of series Sonarr accepted it for.
EpisodeMirrorHonest == \A t \in shown : episodes[t] # "none"

Pressed == \E t \in Titles : Retry(t)

\* Once people stop pressing Try again and the process stops crashing, every
\* queued ask is settled: sent, failed or withdrawn.
AsksSettle ==
    <>[][~Pressed /\ ~Crash]_workerVars =>
        \A t \in Titles : row[t].status = "queued" ~> row[t].status # "queued"

=============================================================================
