------------------------- MODULE TranscodeSessions -------------------------
(***************************************************************************)
(* `TranscodeSessions` (lib/transcode-session.ts): playbacks that share a  *)
(* session by key, hold slots of two limits, and have each segment made by *)
(* a short ffmpeg when it is asked for, a few of them ahead of the player. *)
(*                                                                         *)
(* Everything runs in one Bun process, so an action is the code between    *)
(* two awaits; what is awaited is the exit of an ffmpeg.  One rendition of *)
(* a session is followed: each has books of its own, and they share only   *)
(* the entry in the table.  A segment is its index.  The clock is two      *)
(* marks per session: not touched for IDLE_REAP_MS, and older than         *)
(* HARD_TTL_MS.                                                            *)
(***************************************************************************)
EXTENDS Integers, FiniteSets, Sequences

CONSTANTS
    SessionIds,         \* bound: sessions the model can name at a time
    Keys,               \* file, plan and encoder: `sessionKey`
    Expensive,          \* keys whose plan re-encodes video
    Viewers,            \* bound: handles held at a time
    LastSegment,        \* [Keys -> Nat], the last index of the timeline
    MaxSessions, ExpensiveSessions, SegmentConcurrency, SegmentCache,
    ReadAheadCheap, ReadAheadExpensive,
    NoSession           \* not a session id

ASSUME SessionsAssumption ==
    /\ Expensive \subseteq Keys
    /\ LastSegment \in [Keys -> Nat]
    /\ MaxSessions \in Nat /\ ExpensiveSessions \in Nat
    /\ SegmentConcurrency \in Nat /\ SegmentCache \in Nat
    /\ ReadAheadCheap \in Nat /\ ReadAheadExpensive \in Nat
    /\ NoSession \notin SessionIds
    /\ IsFiniteSet(SessionIds) /\ IsFiniteSet(Viewers)

\* The window, one segment more than is read ahead, fits in the cache with a
\* segment to spare: ten against four in the source.
ASSUME CacheAssumption ==
    /\ SegmentCache > ReadAheadCheap + 1
    /\ SegmentCache > ReadAheadExpensive + 1

VARIABLES
    table,      \* `states`: the entry of a live session
    byKey,      \* `byKey`: the session that serves a key
    producing,  \* segments an ffmpeg is making, per session
    background, \* the ones of them made by the read-ahead loop
    looping,    \* `aheadRunning`
    ahead,      \* the window the read-ahead is aimed at
    produced,   \* segments in the order they landed
    disk,       \* media segments in the session's directory
    init,       \* sessions whose initialisation segment is on disk
    failed,     \* history: a production failed since the last aim
    refused     \* history: the last step refused a start

makingVars == <<producing, background, looping>>
booksVars == <<produced, disk, init>>
vars == <<table, byKey, makingVars, ahead, booksVars, failed, refused>>

Indices == UNION {0 .. LastSegment[k] : k \in Keys}
Entry == [key : Keys, holders : SUBSET Viewers, idle : BOOLEAN, old : BOOLEAN]
NoEntry == [key |-> "none"]
NoWindow == [at |-> 0, from |-> 1, to |-> -1]
Window == [at : Indices, from : Nat, to : Nat]

SessionsTypeOK ==
    /\ table \in [SessionIds -> Entry \cup {NoEntry}]
    /\ byKey \in [Keys -> SessionIds \cup {NoSession}]
    /\ producing \in [SessionIds -> SUBSET Indices]
    /\ background \in [SessionIds -> SUBSET Indices]
    /\ looping \in [SessionIds -> BOOLEAN]
    /\ ahead \in [SessionIds -> Window \cup {NoWindow}]
    /\ produced \in [SessionIds -> Seq(Indices)]
    /\ disk \in [SessionIds -> SUBSET Indices]
    /\ init \subseteq SessionIds
    /\ failed \subseteq SessionIds
    /\ refused \in BOOLEAN

Live == {s \in SessionIds : table[s] # NoEntry}
Stale == {s \in Live : table[s].idle \/ table[s].old}
Segments(s) == 0 .. LastSegment[table[s].key]
Costly(S) == {s \in S : table[s].key \in Expensive}

Init ==
    /\ table = [s \in SessionIds |-> NoEntry]
    /\ byKey = [k \in Keys |-> NoSession]
    /\ producing = [s \in SessionIds |-> {}]
    /\ background = [s \in SessionIds |-> {}]
    /\ looping = [s \in SessionIds |-> FALSE]
    /\ ahead = [s \in SessionIds |-> NoWindow]
    /\ produced = [s \in SessionIds |-> <<>>]
    /\ disk = [s \in SessionIds |-> {}]
    /\ init = {}
    /\ failed = {}
    /\ refused = FALSE

-----------------------------------------------------------------------------
(* Ending sessions.                                                        *)

\* `end` for each session of S, seen from what is not the table: the directory
\* goes with everything in it.  Its ffmpegs are killed and exit later; until
\* then they are still in `producing`, and what they write reaches nobody.
Dropped(S) ==
    /\ produced' = [s \in SessionIds |-> IF s \in S THEN <<>> ELSE produced[s]]
    /\ disk' = [s \in SessionIds |-> IF s \in S THEN {} ELSE disk[s]]
    /\ ahead' = [s \in SessionIds |-> IF s \in S THEN NoWindow ELSE ahead[s]]
    /\ init' = init \ S
    /\ failed' = failed \ S
    /\ UNCHANGED makingVars

\* The table and the keys without the sessions of S; `end` gives a key back
\* only while that very session still serves it.
TableWithout(S) == [s \in SessionIds |-> IF s \in S THEN NoEntry ELSE table[s]]
KeysWithout(S) ==
    [k \in Keys |->
        IF byKey[k] \in S /\ table[byKey[k]].key = k THEN NoSession ELSE byKey[k]]

End(S) ==
    /\ table' = TableWithout(S)
    /\ byKey' = KeysWithout(S)
    /\ Dropped(S)

-----------------------------------------------------------------------------
(* start, touch, stop.                                                     *)

Holds(v) == \E s \in Live : v \in table[s].holders

\* `start` for a key somebody already plays: one more handle on that session,
\* whatever its age, and no reaping.
Join(v, k) ==
    /\ ~Holds(v)
    /\ byKey[k] \in Live
    /\ table' = [table EXCEPT ![byKey[k]].idle = FALSE,
                              ![byKey[k]].holders = @ \cup {v}]
    /\ refused' = FALSE
    /\ UNCHANGED <<byKey, makingVars, ahead, booksVars, failed>>

\* Mutant: one expensive session too many.
RoomForOneMore(k, S) ==
    /\ Cardinality(S) < MaxSessions
    /\ k \in Expensive => Cardinality(Costly(S)) <= ExpensiveSessions

\* The two budgets, with the sessions of S in the table.
Room(k, S) ==
    /\ Cardinality(S) < MaxSessions
    /\ k \in Expensive => Cardinality(Costly(S)) < ExpensiveSessions

\* An id for a new session: no ffmpeg of an earlier one of that name runs.
Free == {s \in SessionIds : producing[s] = {} /\ s \notin Live \ Stale}

\* `start` for a key nobody plays: reap, find room, make a directory.
Open(v, k) ==
    /\ ~Holds(v)
    /\ byKey[k] \notin Live
    /\ Room(k, Live \ Stale)
    /\ \E s \in Free :
        /\ table' = [TableWithout(Stale) EXCEPT
                        ![s] = [key |-> k, holders |-> {v}, idle |-> FALSE, old |-> FALSE]]
        /\ byKey' = [KeysWithout(Stale) EXCEPT ![k] = s]
    /\ Dropped(Stale)
    /\ refused' = FALSE

\* Mutant: room is looked for among the abandoned, who stay.
RefuseUnreaped(k) ==
    /\ byKey[k] \notin Live
    /\ ~Room(k, Live)
    /\ refused' = TRUE
    /\ UNCHANGED <<table, byKey, makingVars, ahead, booksVars, failed>>

\* `start` throws SessionRefused, after it has reaped.
Refuse(k) ==
    /\ byKey[k] \notin Live
    /\ ~Room(k, Live \ Stale)
    /\ End(Stale)
    /\ refused' = TRUE

\* `mkdtempSync` throws: the reaping stays, nothing else happened.
StartWithoutDirectory(k) ==
    /\ byKey[k] \notin Live
    /\ Room(k, Live \ Stale)
    /\ Stale # {}
    /\ End(Stale)
    /\ refused' = FALSE

\* A playlist is read, or a segment past the end of the film is asked for.
Touch(s) ==
    /\ table' = [table EXCEPT ![s].idle = FALSE]
    /\ refused' = FALSE
    /\ UNCHANGED <<byKey, makingVars, ahead, booksVars, failed>>

\* `stop` with a handle: the last holder ends the session.  A handle that holds
\* nothing, because Stop and a beacon both fired, changes nothing.
Leave(v, s) ==
    /\ v \in table[s].holders
    /\ \/ /\ table[s].holders # {v}
          /\ table' = [table EXCEPT ![s].holders = @ \ {v}]
          /\ UNCHANGED <<byKey, makingVars, ahead, booksVars, failed>>
       \/ /\ table[s].holders = {v}
          /\ End({s})
    /\ refused' = FALSE

\* Mutant: an old client's stop ends the session for everyone.
LeaveForEveryone(s) ==
    /\ End({s})
    /\ refused' = FALSE

\* `stop` from a client that knows no handles.
LeaveWithoutHandle(s) ==
    /\ Cardinality(table[s].holders) <= 1
    /\ End({s})
    /\ refused' = FALSE

-----------------------------------------------------------------------------
(* Producing segments.                                                     *)

Depth(s) == IF table[s].key \in Expensive THEN ReadAheadExpensive ELSE ReadAheadCheap

\* Mutant: the window runs past the end of the film.
Unclamped(i, s) == i

Clamped(i, s) == IF i <= LastSegment[table[s].key] THEN i ELSE LastSegment[table[s].key]

\* `aimAhead`: where the window goes when segment i is asked for.
Aimed(s, i) ==
    IF Depth(s) = 0 THEN ahead[s]
    ELSE [at |-> i, from |-> i + 1, to |-> Clamped(i + Depth(s), s)]

\* `nextAhead`: the first segment of window w neither on disk nor being made,
\* as a set of at most one.
NextAhead(w, onDisk, making) ==
    LET missing == (w.from .. w.to) \ (onDisk \cup making)
    IN  {i \in missing : \A j \in missing : i <= j}

\* `produce` for a request: the segment gets an ffmpeg unless it has one, or
\* the requests of this rendition already run as many as they may.
Requests(s) == producing[s] \ background[s]
Requested(s, i) ==
    IF Cardinality(Requests(s)) < SegmentConcurrency
        THEN producing[s] \cup {i} ELSE producing[s]

\* The loop of session s, free to look at window w again: it starts the next
\* ffmpeg, or ends.
LoopLooks(s, w, onDisk, making) ==
    LET next == NextAhead(w, onDisk, making)
    IN  /\ producing' = [producing EXCEPT ![s] = making \cup next]
        /\ background' = [background EXCEPT ![s] = next]
        /\ looping' = [looping EXCEPT ![s] = next # {}]

\* Mutant: every request starts a loop.
AskSegmentStartsAnother(s, i) ==
    LET making == IF i \in disk[s] THEN producing[s] ELSE Requested(s, i)
    IN  /\ i \in Segments(s)
        /\ table' = [table EXCEPT ![s].idle = FALSE]
        /\ ahead' = [ahead EXCEPT ![s] = Aimed(s, i)]
        /\ LoopLooks(s, Aimed(s, i), disk[s], making)
        /\ failed' = failed \ {s}
        /\ refused' = FALSE
        /\ UNCHANGED <<byKey, booksVars>>

\* `segmentPath`: the request's own production first, then the window is aimed
\* and the loop started if it is not running.
AskSegment(s, i) ==
    LET making == IF i \in disk[s] THEN producing[s] ELSE Requested(s, i)
    IN  /\ i \in Segments(s)
        /\ table' = [table EXCEPT ![s].idle = FALSE]
        /\ ahead' = [ahead EXCEPT ![s] = Aimed(s, i)]
        /\ IF looping[s] \/ Depth(s) = 0
             THEN /\ producing' = [producing EXCEPT ![s] = making]
                  /\ UNCHANGED <<background, looping>>
             ELSE LoopLooks(s, Aimed(s, i), disk[s], making)
        /\ failed' = failed \ {s}
        /\ refused' = FALSE
        /\ UNCHANGED <<byKey, booksVars>>

\* `initPath`: the initialisation segment comes out of the run of segment 0.
AskInit(s) ==
    /\ table' = [table EXCEPT ![s].idle = FALSE]
    /\ producing' = [producing EXCEPT ![s] = IF s \in init THEN @ ELSE Requested(s, 0)]
    /\ refused' = FALSE
    /\ UNCHANGED <<byKey, background, looping, ahead, booksVars, failed>>

\* Mutant: the oldest goes, wherever the player is.
EvictedOldest(landed, w) ==
    {landed[n] : n \in {m \in 1 .. Len(landed) : m <= Len(landed) - SegmentCache}}

\* How many of a set of positions come before one of them.
Before(positions, n) == Cardinality({m \in positions : m < n})

\* `evict`: the oldest landings outside the window, as many as are too many.
Evicted(landed, w) ==
    LET outside == {n \in DOMAIN landed : landed[n] \notin w.at .. w.to}
        over == Len(landed) - SegmentCache
    IN  {landed[n] : n \in {m \in outside : Before(outside, m) < over}}

\* `splice`: what is left closes up, in its order.
Spliced(landed, gone) ==
    LET stay == {n \in DOMAIN landed : landed[n] \notin gone}
    IN  [k \in 1 .. Cardinality(stay) |->
            landed[CHOOSE n \in stay : Before(stay, n) = k - 1]]

\* An ffmpeg exits with everything written: `publish` moves the init if it is
\* the first, the media last, and evicts.  A run of the loop is followed by
\* the loop's next look.
Publish(s, i) ==
    LET landed == Append(produced[s], i)
        gone == Evicted(landed, ahead[s])
        onDisk == (disk[s] \cup {i}) \ gone
    IN  /\ s \in Live
        /\ i \in producing[s]
        /\ produced' = [produced EXCEPT ![s] = Spliced(landed, gone)]
        /\ disk' = [disk EXCEPT ![s] = onDisk]
        /\ init' = init \cup {s}
        /\ IF i \in background[s]
             THEN LoopLooks(s, ahead[s], onDisk, producing[s] \ {i})
             ELSE /\ producing' = [producing EXCEPT ![s] = @ \ {i}]
                  /\ UNCHANGED <<background, looping>>
        /\ refused' = FALSE
        /\ UNCHANGED <<table, byKey, ahead, failed>>

\* The production of segment i of s is over and made nothing; if the loop was
\* waiting for it, the loop ends too.
Over(s, i) ==
    /\ producing' = [producing EXCEPT ![s] = @ \ {i}]
    /\ background' = [background EXCEPT ![s] = @ \ {i}]
    /\ looping' = [looping EXCEPT ![s] = @ /\ i \notin background[s]]

\* Mutant: the media is moved before the init, and the init may fail.
FailAfterMedia(s, i) ==
    /\ s \in Live
    /\ i \in producing[s]
    /\ Over(s, i)
    /\ produced' = [produced EXCEPT ![s] = Append(@, i)]
    /\ disk' = [disk EXCEPT ![s] = @ \cup {i}]
    /\ failed' = failed \cup {s}
    /\ refused' = FALSE
    /\ UNCHANGED <<table, byKey, ahead, init>>

\* An ffmpeg fails, is killed after SEGMENT_TIMEOUT_MS, never gets a working
\* directory, or leaves no media or no init; or the init is moved and the media
\* is not.
Fail(s, i) ==
    /\ s \in Live
    /\ i \in producing[s]
    /\ Over(s, i)
    /\ \/ init' = init
       \/ init' = init \cup {s}
    /\ failed' = failed \cup {s}
    /\ refused' = FALSE
    /\ UNCHANGED <<table, byKey, ahead, produced, disk>>

\* An ffmpeg of a session that ended exits: there is no directory to publish
\* into, and the loop sees that its session is gone.
StragglerExits(s, i) ==
    /\ s \notin Live
    /\ i \in producing[s]
    /\ Over(s, i)
    /\ refused' = FALSE
    /\ UNCHANGED <<table, byKey, ahead, booksVars, failed>>

-----------------------------------------------------------------------------
(* Time and restarts.                                                      *)

\* Nobody touched the session for IDLE_REAP_MS.
GoesIdle(s) ==
    /\ ~table[s].idle
    /\ table' = [table EXCEPT ![s].idle = TRUE]
    /\ refused' = FALSE
    /\ UNCHANGED <<byKey, makingVars, ahead, booksVars, failed>>

\* The session is HARD_TTL_MS old.
GetsOld(s) ==
    /\ ~table[s].old
    /\ table' = [table EXCEPT ![s].old = TRUE]
    /\ refused' = FALSE
    /\ UNCHANGED <<byKey, makingVars, ahead, booksVars, failed>>

\* The process stops, by `stopAll` or by a kill, and comes back: the table is
\* empty and `sweepStale` has emptied the directory.
Restart ==
    /\ table' = [s \in SessionIds |-> NoEntry]
    /\ byKey' = [k \in Keys |-> NoSession]
    /\ producing' = [s \in SessionIds |-> {}]
    /\ background' = [s \in SessionIds |-> {}]
    /\ looping' = [s \in SessionIds |-> FALSE]
    /\ ahead' = [s \in SessionIds |-> NoWindow]
    /\ produced' = [s \in SessionIds |-> <<>>]
    /\ disk' = [s \in SessionIds |-> {}]
    /\ init' = {}
    /\ failed' = {}
    /\ refused' = FALSE

Next ==
    \/ \E v \in Viewers, k \in Keys : Join(v, k) \/ Open(v, k)
    \/ \E k \in Keys : Refuse(k) \/ StartWithoutDirectory(k)
    \/ \E s \in Live :
        \/ Touch(s)
        \/ \E v \in Viewers : Leave(v, s)
        \/ LeaveWithoutHandle(s)
        \/ \E i \in Indices : AskSegment(s, i)
        \/ AskInit(s)
        \/ GoesIdle(s)
        \/ GetsOld(s)
    \/ \E s \in SessionIds, i \in Indices :
        Publish(s, i) \/ Fail(s, i) \/ StragglerExits(s, i)
    \/ Restart

Spec == Init /\ [][Next]_vars

-----------------------------------------------------------------------------
(* Properties.                                                             *)

\* However sessions are joined, abandoned, reaped and restarted, neither of the
\* two limits is exceeded (`start`), and one key is one session and one directory:
\* a live session is found under its key, and a key leads to a live session of
\* that key or nowhere, though a session may end while its ffmpegs still run.
WithinLimits ==
    /\ Cardinality(Live) <= MaxSessions
    /\ Cardinality(Costly(Live)) <= ExpensiveSessions
KeyFindsItsSession ==
    /\ \A s \in Live : byKey[table[s].key] = s
    /\ \A k \in Keys : byKey[k] # NoSession => byKey[k] \in Live /\ table[byKey[k]].key = k
TableIsSound == WithinLimits /\ KeyFindsItsSession

\* The back-pressure budget of one rendition, stragglers of an ended session
\* included: at most SEGMENT_CONCURRENCY runs for requests and one run ahead,
\* which is there exactly while the loop is.
FfmpegBudget ==
    \A s \in SessionIds :
        /\ Cardinality(Requests(s)) <= SegmentConcurrency
        /\ background[s] \subseteq producing[s]
        /\ Cardinality(background[s]) <= 1
        /\ looping[s] <=> background[s] # {}

\* What `produced` lists is what lies on disk, each segment once, and never more
\* than the cache holds: an unlisted file would be kept for ever.  And publish: "a
\* segment file appearing implies the init is already there".
BooksMatchDisk ==
    \A s \in Live :
        /\ disk[s] = {produced[s][n] : n \in DOMAIN produced[s]}
        /\ Cardinality(disk[s]) = Len(produced[s])
        /\ Len(produced[s]) <= SegmentCache
MediaHasInit == \A s \in Live : disk[s] # {} => s \in init
DiskIsHonest == BooksMatchDisk /\ MediaHasInit

\* The read-ahead never stops half-way: what the window names is on disk, being
\* made, or still the loop's to make, unless a run failed since the last request.
AheadKeptUp ==
    \A s \in Live \ failed :
        ahead[s].from .. ahead[s].to \subseteq disk[s] \cup producing[s] \/ looping[s]

\* One viewer's stop does not end what another is watching: a session with two
\* holders ends only for being abandoned or too old, or with the process.
SharedStreamSurvives ==
    [][\A s \in Live :
           (Cardinality(table[s].holders) > 1 /\ s \notin Stale /\ ~Restart)
               => s \in Live']_vars

\* "An abandoned session must never keep a live viewer out": whoever is refused
\* is refused for sessions all of which are in use and young.
RefusedForTheLiving == [][refused' => Stale' = {}]_vars

=============================================================================
