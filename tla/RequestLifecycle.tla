-------------------------- MODULE RequestLifecycle --------------------------
(***************************************************************************)
(* The whole life of a request: RequestWorker's sending half, composed     *)
(* with everything else that moves a row.  The library walk copies what    *)
(* the arrs hold into the mirror; `reconcile` walks the open rows every 30 *)
(* seconds, marks arrivals from the mirror, and after awaiting the arr     *)
(* queues writes what it derived from the rows it read BEFORE the await;   *)
(* webhooks push a status; an admin removes media; the asker reads.        *)
(*                                                                         *)
(* Timers start a pass whether or not the one before has ended, so passes  *)
(* overlap.  `passes`, `walks` and `removals` are memory; `mirror`,        *)
(* `diag` and `audit` are tables; `media` belongs to the arrs.             *)
(***************************************************************************)
EXTENDS RequestWorker

CONSTANTS
    Passes,      \* bound: reconcile passes that may be awaiting at once
    EventsSent   \* the events the arrs' connections are set up to push

ASSUME LifecycleAssumption ==
    /\ IsFiniteSet(Passes)
    /\ EventsSent \subseteq Events

VARIABLES
    media,     \* [Titles -> Media]: what the arr has and is fetching
    mirror,    \* [Titles -> Mirrored], the library table
    walks,     \* [Services -> a walk of one arr's library, or NoWalk]
    passes,    \* [Passes -> Pass], the reconcile passes
    diag,      \* titles with a request_diagnostic row
    removals,  \* [Titles -> ArrIds]: arr deletions not yet answered
    audit,     \* [Titles -> ArrIds], media_removal: the id last removed
    told,      \* arrivals announced since the ask was (re)queued, up to 2
    unread     \* arrivals announced that the asker has not been shown

observerVars == <<media, mirror, walks, passes, diag, removals, audit, told, unread>>
vars == <<workerVars, observerVars>>

Media == [file : BOOLEAN, downloading : BOOLEAN]
NoMedia == [file |-> FALSE, downloading |-> FALSE]
Mirrored == [id : ArrIds, file : BOOLEAN]
NotMirrored == [id |-> NoId, file |-> FALSE]
NoWalk == [t \in {} |-> NotMirrored]

\* What a pass still uses of a row it read before its awaits.
Read == [status : Statuses, arrId : ArrIds, looks : 0 .. MaxLooks + 1,
         old : BOOLEAN]
NotRead == [status |-> "absent", arrId |-> NoId, looks |-> 0, old |-> FALSE]
ReadOf(r) == [status |-> r.status, arrId |-> r.arrId, looks |-> r.looks,
              old |-> r.age = "old"]

Pass == [phase : {"idle", "asked", "heard", "diagnosing"},
         open : [Titles -> Read \cup {NotRead}],
         downloads : SUBSET (Services \X ArrIds)]
IdlePass == [phase |-> "idle", open |-> [t \in Titles |-> NotRead], downloads |-> {}]

TitlesOf(s) == {t \in Titles : Service(t) = s}

LifecycleTypeOK ==
    /\ TypeOK
    /\ media \in [Titles -> Media]
    /\ mirror \in [Titles -> Mirrored]
    /\ \A s \in Services : walks[s] \in [TitlesOf(s) -> Mirrored] \cup {NoWalk}
    /\ passes \in [Passes -> Pass]
    /\ diag \in SUBSET Titles
    /\ removals \in [Titles -> ArrIds]
    /\ audit \in [Titles -> ArrIds]
    /\ told \in [Titles -> 0 .. 2]
    /\ unread \in SUBSET Titles

LifecycleInit ==
    /\ Init
    /\ media = [t \in Titles |-> NoMedia]
    /\ mirror = [t \in Titles |-> NotMirrored]
    /\ walks = [s \in Services |-> NoWalk]
    /\ passes = [p \in Passes |-> IdlePass]
    /\ diag = {}
    /\ removals = [t \in Titles |-> NoId]
    /\ audit = [t \in Titles |-> NoId]
    /\ told = [t \in Titles |-> 0]
    /\ unread = {}

-----------------------------------------------------------------------------
(* The sending half, with what its handlers do to the observers' tables.   *)

\* `deleteRequest` takes the diagnostic with the row, in one transaction.
Forgotten(t) == diag' = diag \ {t}

\* An ask that is queued again may be told of again.
AskedAgain(t) ==
    told' = IF row'[t].status = "queued" /\ row[t].status # "queued"
            THEN [told EXCEPT ![t] = 0] ELSE told

\* POST /api/requests, refused for a title the mirror already holds.
Ask(t, u, s) ==
    /\ mirror[t].id = NoId
    /\ Post(t, u, s) \/ AgentPost(t, u, s)
    /\ IF row[t].status = "removed" THEN Forgotten(t) ELSE UNCHANGED diag
    /\ AskedAgain(t)
    /\ UNCHANGED <<media, mirror, walks, passes, removals, audit, unread>>

AskAgain(t) ==
    /\ Retry(t)
    /\ AskedAgain(t)
    /\ UNCHANGED <<media, mirror, walks, passes, diag, removals, audit, unread>>

Withdraw(t) ==
    /\ Withdrawing(t)
    /\ IF Exists(row'[t]) THEN UNCHANGED <<diag, told>>
       ELSE Forgotten(t) /\ told' = [told EXCEPT ![t] = 0]
    /\ UNCHANGED <<media, mirror, walks, passes, removals, audit, unread>>

AskForEpisodes(t) ==
    /\ mirror[t].id # NoId
    /\ AskEpisodes(t)
    /\ UNCHANGED observerVars

Work(t) ==
    /\ \/ WorkerTakes(t)
       \/ ArrAccepts(t)
       \/ WorkerHears(t)
       \/ RetryTimePasses(t)
       \/ TimerFires(t)
       \/ AddedByHand(t)
    /\ UNCHANGED observerVars

ProcessStarts == Start /\ UNCHANGED observerVars

ObserversStop ==
    /\ walks' = [s \in Services |-> NoWalk]
    /\ passes' = [p \in Passes |-> IdlePass]
    /\ removals' = [t \in Titles |-> NoId]

ProcessCrashes ==
    /\ Crash
    /\ ObserversStop
    /\ UNCHANGED <<media, mirror, diag, audit, told, unread>>

MidnightPasses == Midnight /\ UNCHANGED observerVars

\* A row asked for before today passes its 24 hours.
Ages(t) ==
    /\ "day" \in Environment
    /\ Exists(row[t])
    /\ row[t].age = "past"
    /\ row' = [row EXCEPT ![t].age = "old"]
    /\ UNCHANGED <<requeued, up, configured, memVars, arrVars, episodeVars, observerVars>>

-----------------------------------------------------------------------------
(* The arrs fetch and file, outside finderr's control.                     *)

MediaMoves(t, m) ==
    /\ media' = [media EXCEPT ![t] = m]
    /\ UNCHANGED <<workerVars, mirror, walks, passes, diag, removals, audit,
                   told, unread>>

ArrGrabs(t) ==
    /\ arr[t].id # NoId
    /\ arr[t].monitored
    /\ ~media[t].downloading
    /\ MediaMoves(t, [media[t] EXCEPT !.downloading = TRUE])

\* A file lands; a series may go on downloading its other episodes.
ArrImports(t) ==
    /\ media[t].downloading
    /\ \/ MediaMoves(t, [file |-> TRUE, downloading |-> FALSE])
       \/ t \notin Films /\ MediaMoves(t, [file |-> TRUE, downloading |-> TRUE])

\* A title deleted by hand takes its files and its downloads with it.
ArrDeleted(t) ==
    /\ DeletedByHand(t)
    /\ media' = [media EXCEPT ![t] = NoMedia]
    /\ UNCHANGED <<mirror, walks, passes, diag, removals, audit, told, unread>>

-----------------------------------------------------------------------------
(* The library mirror: `syncLibrary` walks each arr, then replaces.        *)

UnchangedButMirror ==
    UNCHANGED <<workerVars, media, passes, diag, removals, audit, told, unread>>

WalkReads(s) ==
    /\ up
    /\ s \in configured
    /\ walks[s] = NoWalk
    /\ TitlesOf(s) # {}
    /\ walks' = [walks EXCEPT ![s] =
                    [t \in TitlesOf(s) |-> [id |-> arr[t].id, file |-> media[t].file]]]
    /\ UNCHANGED mirror
    /\ UnchangedButMirror

\* `replaceLibrary`: one transaction swaps the rows of one service.
WalkReplaces(s) ==
    /\ walks[s] # NoWalk
    /\ mirror' = [t \in Titles |-> IF t \in TitlesOf(s) THEN walks[s][t] ELSE mirror[t]]
    /\ walks' = [walks EXCEPT ![s] = NoWalk]
    /\ UnchangedButMirror

\* A walk that breaks off leaves the previous mirror in place.
WalkFails(s) ==
    /\ walks[s] # NoWalk
    /\ walks' = [walks EXCEPT ![s] = NoWalk]
    /\ UNCHANGED mirror
    /\ UnchangedButMirror

-----------------------------------------------------------------------------
(* `reconcile`, one action per stretch between its awaits.                 *)

\* Mutant: a row waiting for a person to file its download is not looked at.
OpenWithoutManualImport == {"sent", "grabbed", "downloading"}

OpenStatuses == {"sent", "grabbed", "downloading", "manual_import"}

\* Mutant: the stamp of an earlier arrival is kept.
ArrivedStampKept(r) == [r EXCEPT !.status = "available"]

Arrived(r) == [r EXCEPT !.status = "available", !.seen = FALSE]

\* The open rows are read, and those the mirror has a file for are done: the
\* status is written and the listener announces it.
PassStarts(p) ==
    /\ up
    /\ passes[p].phase = "idle"
    /\ LET open == {t \in Titles : row[t].status \in OpenStatuses}
           arrived == {t \in open : mirror[t].file} IN
       /\ open # {}
       /\ row' = [t \in Titles |-> IF t \in arrived THEN Arrived(row[t]) ELSE row[t]]
       /\ told' = [t \in Titles |->
                      IF t \in arrived /\ told[t] < 2 THEN told[t] + 1 ELSE told[t]]
       /\ unread' = unread \cup arrived
       /\ passes' = [passes EXCEPT ![p] =
                        [IdlePass EXCEPT
                            !.phase = "asked",
                            !.open = [t \in Titles |-> IF t \in open THEN ReadOf(row[t]) ELSE NotRead]]]
    /\ UNCHANGED <<requeued, up, configured, memVars, arrVars, episodeVars,
                   media, mirror, walks, diag, removals, audit>>

\* Both arr queues are read; one that does not answer counts as empty.
QueuesAnswer(p) ==
    /\ passes[p].phase = "asked"
    /\ \E answering \in SUBSET configured :
        passes' = [passes EXCEPT
                      ![p].phase = "heard",
                      ![p].downloads =
                          {<<Service(t), arr[t].id>> : t \in
                              {x \in Titles : media[x].downloading /\ Service(x) \in answering}}]
    /\ UNCHANGED <<workerVars, media, mirror, walks, diag, removals, audit, told, unread>>

\* `downloadsByArrId`: one map for both arrs, keyed on the bare id.
DownloadsByArrId(p) == {d[2] : d \in passes[p].downloads}

Downloads(p, t) ==
    /\ passes[p].open[t].arrId # NoId
    /\ passes[p].open[t].arrId \in DownloadsByArrId(p)
    /\ passes[p].open[t].status # "downloading"

\* Given up on: looked for often enough, and asked for more than a day ago.
\* The age is measured now, on the `created_at` read before the await.
Hopeless(read, now) ==
    read.looks + 1 > MaxLooks /\ (read.old \/ now.age = "old")

\* Mutant: how often the row was looked for is not written back.
LooksUnsaved(read, r) ==
    [r EXCEPT !.status = IF Hopeless(read, r) THEN "no_release" ELSE @]

LooksOnceMore(read, r) ==
    [r EXCEPT !.looks = IF read.looks > MaxLooks THEN read.looks ELSE read.looks + 1,
              !.status = IF Hopeless(read, r) THEN "no_release" ELSE @]

\* The two loops after the await: each decides from the row it read before,
\* and writes to the row as it is now.
PassMovesRow(p, t) ==
    LET read == passes[p].open[t]
        downloading == IF Downloads(p, t) THEN [row[t] EXCEPT !.status = "downloading"]
                       ELSE row[t]
    IN IF read.status = "sent" THEN LooksOnceMore(read, downloading) ELSE downloading

PassMoves(p) ==
    /\ passes[p].phase = "heard"
    /\ row' = [t \in Titles |-> Patch(row[t], PassMovesRow(p, t))]
    /\ passes' = [passes EXCEPT ![p].phase = "diagnosing", ![p].downloads = {}]
    /\ UNCHANGED <<requeued, up, configured, memVars, arrVars, episodeVars,
                   media, mirror, walks, diag, removals, audit, told, unread>>

\* The evidence is gathered, then one diagnostic per row read is upserted.
PassDiagnoses(p) ==
    /\ passes[p].phase = "diagnosing"
    /\ diag' = diag \cup {t \in Titles : Exists(passes[p].open[t])}
    /\ passes' = [passes EXCEPT ![p] = IdlePass]
    /\ UNCHANGED <<workerVars, media, mirror, walks, removals, audit, told, unread>>

-----------------------------------------------------------------------------
(* Webhooks, removals and readers.                                         *)

\* An arr pushes an event about a title it holds or has held.
Webhook(t, event) ==
    /\ up
    /\ event \in EventsSent
    /\ lastId[Service(t)] # NoId
    /\ row[t].status \in MovesFrom(event)
    /\ row' = [row EXCEPT ![t].status = MovesTo(event)]
    /\ UNCHANGED <<requeued, up, configured, memVars, arrVars, episodeVars,
                   observerVars>>

\* `resolveTarget`: the mirror knows best what the arr holds, then our row.
RemovalTarget(t) == IF mirror[t].id # NoId THEN mirror[t].id ELSE row[t].arrId

\* DELETE /api/admin/requests/:tconst/media.
RemovalAsks(t) ==
    /\ up
    /\ Admins # {}
    /\ isRemovable(row[t].status)
    /\ RemovalTarget(t) # NoId
    /\ Service(t) \in configured
    /\ removals[t] = NoId
    /\ removals' = [removals EXCEPT ![t] = RemovalTarget(t)]
    /\ UNCHANGED <<workerVars, media, mirror, walks, passes, diag, audit, told, unread>>

\* The arr deletes by id: a library row added since has another one.
ArrRemoves(t) ==
    IF arr[t].id = removals[t]
    THEN arr' = [arr EXCEPT ![t] = NotHeld] /\ media' = [media EXCEPT ![t] = NoMedia]
    ELSE UNCHANGED <<arr, media>>

\* The row records that its media was removed.
RowRemoved(t) ==
    /\ row' = [row EXCEPT ![t] = Patch(@, [@ EXCEPT !.status = "removed"])]
    /\ told' = [told EXCEPT ![t] = 0]

\* Removed, or already gone (404): the mirror forgets it, the row and the audit record it.
RemovalDone(t) ==
    /\ up
    /\ removals[t] # NoId
    /\ ArrRemoves(t)
    /\ removals' = [removals EXCEPT ![t] = NoId]
    /\ mirror' = [mirror EXCEPT ![t] = NotMirrored]
    /\ RowRemoved(t)
    /\ audit' = [audit EXCEPT ![t] = removals[t]]
    /\ UNCHANGED <<requeued, up, configured, memVars, lastId, ourIds,
                   episodeVars, walks, passes, diag, unread>>

\* The process ends among these writes: the mirror has forgotten the title, the row
\* may record it, and the audit does not.
RemovalCut(t) ==
    /\ MemoryLost
    /\ removals[t] # NoId
    /\ ArrRemoves(t)
    /\ ObserversStop
    /\ mirror' = [mirror EXCEPT ![t] = NotMirrored]
    /\ RowRemoved(t) \/ UNCHANGED <<row, told>>
    /\ UNCHANGED <<requeued, configured, lastId, ourIds, episodeVars, diag, audit, unread>>

\* Mutant: the removal is recorded before its outcome is known.
RemovalFailsRecorded(t) ==
    /\ up
    /\ removals[t] # NoId
    /\ ArrRemoves(t) \/ UNCHANGED <<arr, media>>
    /\ removals' = [removals EXCEPT ![t] = NoId]
    /\ audit' = [audit EXCEPT ![t] = removals[t]]
    /\ UNCHANGED <<row, requeued, up, configured, memVars, lastId, ourIds,
                   episodeVars, mirror, walks, passes, diag, told, unread>>

\* The call failed, before or after the arr acted on it: nothing is recorded.
RemovalFails(t) ==
    /\ up
    /\ removals[t] # NoId
    /\ ArrRemoves(t) \/ UNCHANGED <<arr, media>>
    /\ removals' = [removals EXCEPT ![t] = NoId]
    /\ UNCHANGED <<row, requeued, up, configured, memVars, lastId, ourIds,
                   episodeVars, mirror, walks, passes, diag, audit, told, unread>>

\* `markAvailableSeen`: everything on the list of one person is seen at once.
MarkSeen(u) ==
    /\ up
    /\ LET news == {t \in Titles : row[t].by = u /\ row[t].status = "available" /\ ~row[t].seen} IN
       /\ news # {}
       /\ row' = [t \in Titles |-> IF t \in news THEN [row[t] EXCEPT !.seen = TRUE] ELSE row[t]]
       /\ unread' = unread \ news
    /\ UNCHANGED <<requeued, up, configured, memVars, arrVars, episodeVars,
                   media, mirror, walks, passes, diag, removals, audit, told>>

-----------------------------------------------------------------------------
Walk(s) == WalkReads(s) \/ WalkReplaces(s) \/ WalkFails(s)

PassGoesOn(p) == QueuesAnswer(p) \/ PassMoves(p) \/ PassDiagnoses(p)

Remove(t) == RemovalAsks(t) \/ RemovalDone(t) \/ RemovalCut(t) \/ RemovalFails(t)

LifecycleNext ==
    \/ ProcessStarts
    \/ ProcessCrashes
    \/ MidnightPasses
    \/ \E s \in Services : Walk(s)
    \/ \E p \in Passes : PassStarts(p) \/ PassGoesOn(p)
    \/ \E u \in Users : MarkSeen(u)
    \/ \E t \in Titles :
        \/ \E u \in Users, s \in Selections : Ask(t, u, s)
        \/ AskAgain(t)
        \/ Withdraw(t)
        \/ AskForEpisodes(t)
        \/ Work(t)
        \/ Ages(t)
        \/ ArrGrabs(t)
        \/ ArrImports(t)
        \/ ArrDeleted(t)
        \/ \E event \in Events : Webhook(t, event)
        \/ Remove(t)

LifecycleSpec == LifecycleInit /\ [][LifecycleNext]_vars

(***************************************************************************)
(* The two intervals keep firing and a pass goes on once it has begun; the *)
(* arrs are not unreachable for ever, so some walk of each completes; days *)
(* go by.                                                                  *)
(***************************************************************************)
ObserverFairness ==
    /\ WF_vars(ProcessStarts)
    /\ WF_vars(\E p \in Passes : PassStarts(p))
    /\ \A p \in Passes : WF_vars(PassGoesOn(p))
    /\ \A s \in Services : WF_vars(WalkReads(s)) /\ SF_vars(WalkReplaces(s))
    /\ WF_vars(MidnightPasses)
    /\ \A t \in Titles : WF_vars(Ages(t))

LifecycleFairSpec == LifecycleSpec /\ ObserverFairness

-----------------------------------------------------------------------------
(* Properties.                                                             *)

\* A request is `available` only after its arrival was announced: `reconcile`
\* is the one place both happen, whatever webhooks and retries do meanwhile.
AvailableWasAnnounced ==
    \A t \in Titles : row[t].status = "available" => told[t] > 0

\* News nobody has shown the asker yet is still counted as unseen: a title that
\* arrives a second time does not inherit the first arrival's stamp.
UnreadIsCounted ==
    \A t \in unread : row[t].status = "available" => ~row[t].seen

\* News reaches the asker, once announced and until shown: nothing arrives in
\* silence, and nothing that was not looked at is hidden by an older stamp.
NewsReachesTheAsker == AvailableWasAnnounced /\ UnreadIsCounted

\* The audit never claims more than happened: an id it lists as removed is one
\* the arr no longer has under that title, however the removal,
\* a walk, a pass and a fresh ask of the title meet.
AuditIsTrue == \A t \in Titles : audit[t] # NoId => arr[t].id # audit[t]

\* Nobody watches a spinner for ever: a sent row moves on, at the latest by
\* being given up on once it was looked for often enough and a day has gone by.
SentEnds ==
    <>[][~Crash]_vars =>
        \A t \in Titles : row[t].status = "sent" ~> row[t].status # "sent"

\* A row a person had to file by hand is not a dead end: once the arr has the
\* file, and unless the process keeps crashing, the poll moves the row on.
ManualImportEnds ==
    <>[][~Crash]_vars =>
        \A t \in Titles :
            (row[t].status = "manual_import" /\ media[t].file)
                ~> (row[t].status # "manual_import" \/ ~media[t].file)

-----------------------------------------------------------------------------
(* What the comments say of the composed system, and the code does not keep. *)

\* arr-webhook.ts: two owners of "this arrived" would mean "somebody being told
\* twice about one film".  One ask is told of one arrival.
ToldOnce == \A t \in Titles : told[t] <= 1
=============================================================================
