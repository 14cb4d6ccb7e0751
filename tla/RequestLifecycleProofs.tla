----------------------- MODULE RequestLifecycleProofs -----------------------
(***************************************************************************)
(* What the whole life of a request keeps for every set of titles, people, *)
(* passes and pushed events: what the worker alone keeps                   *)
(* (RequestWorkerProofs) survives everybody else who writes to the table,  *)
(* an arrival is announced before it shows and counted until it is seen,   *)
(* and the audit of removals is true.                                      *)
(***************************************************************************)
EXTENDS RequestLifecycle, RequestWorkerProofs

-----------------------------------------------------------------------------
(* The steps of the lifecycle, and what those do to a row that are not the *)
(* worker's.                                                               *)

\* The steps that write to the worker's variables, and are none of its own.
ObserverWrites ==
    \/ \E t \in Titles :
        \/ Ages(t) \/ (\E event \in Events : Webhook(t, event))
        \/ RemovalDone(t) \/ RemovalCut(t) \/ RemovalFails(t)
    \/ \E p \in Passes : PassStarts(p) \/ PassMoves(p)
    \/ \E u \in Users : MarkSeen(u)

LEMMA EachStepIsOneKind ==
    ASSUME [LifecycleNext]_vars
    PROVE  Next \/ ObserverWrites \/ UNCHANGED workerVars
<1>1. CASE ProcessStarts \/ ProcessCrashes \/ MidnightPasses
  BY <1>1 DEF ProcessStarts, ProcessCrashes, MidnightPasses, Next
<1>2. ASSUME NEW t \in Titles, NEW u \in Users, NEW s \in Selections, Ask(t, u, s)
      PROVE  Next
  BY <1>2 DEF Ask, Next
<1>3. ASSUME NEW t \in Titles,
             \/ AskAgain(t) \/ Withdraw(t) \/ AskForEpisodes(t) \/ Work(t) \/ ArrDeleted(t)
      PROVE  Next
  BY <1>3 DEF AskAgain, Withdraw, AskForEpisodes, Work, ArrDeleted, Next, ByHand
<1>4. ASSUME NEW t \in Titles, ArrGrabs(t) \/ ArrImports(t) \/ RemovalAsks(t)
      PROVE  UNCHANGED workerVars
  BY <1>4 DEF ArrGrabs, ArrImports, MediaMoves, RemovalAsks
<1>5. ASSUME NEW s \in Services, Walk(s)
      PROVE  UNCHANGED workerVars
  BY <1>5 DEF Walk, WalkReads, WalkReplaces, WalkFails, UnchangedButMirror
<1>6. ASSUME NEW p \in Passes, QueuesAnswer(p) \/ PassDiagnoses(p)
      PROVE  UNCHANGED workerVars
  BY <1>6 DEF QueuesAnswer, PassDiagnoses
<1>7. CASE UNCHANGED vars
  BY <1>7 DEF vars
<1> QED
  BY <1>1, <1>2, <1>3, <1>4, <1>5, <1>6, <1>7
     DEF LifecycleNext, ObserverWrites, PassGoesOn, Remove

\* A row is moved: to another status, but never to `queued`, and it keeps what
\* the worker needs of it.
MovedOn(old, new) ==
    /\ Exists(new) <=> Exists(old)
    /\ new.status = "queued" => old.status = "queued"
    /\ new.sends = old.sends
    /\ new.arrId = old.arrId
    /\ new.by = old.by
    /\ new.age = "today" => old.age = "today"

\* What the observers' writes leave of the worker's variables.
Moves ==
    /\ row' \in [Titles -> Held]
    /\ \A x \in Titles : MovedOn(row[x], row'[x])
    /\ arr' \in [Titles -> Holding]
    /\ \A x \in Titles : arr'[x] = arr[x] \/ (arr'[x] = NotHeld /\ arr[x].id # NoId)
    /\ UNCHANGED <<requeued, configured, lastId, ourIds, episodeVars>>
    /\ UNCHANGED <<up, memVars>> \/ MemoryLost

LEMMA PassMovesType ==
    ASSUME LifecycleTypeOK, NEW p \in Passes, NEW x \in Titles
    PROVE  LET r == Patch(row[x], PassMovesRow(p, x))
           IN  r \in Held /\ MovedOn(row[x], r)
               /\ (r.status = "available" => row[x].status = "available")
               /\ r.seen = row[x].seen
<1>1. row[x] \in Held /\ passes[p].open[x] \in Read \cup {NotRead}
  BY DEF LifecycleTypeOK, TypeOK, Held, Pass
<1>2. CASE ~Exists(row[x])
  BY <1>1, <1>2 DEF Patch, MovedOn
<1>3. CASE Exists(row[x])
  <2>1. row[x] \in Row
    BY <1>1, <1>3, ExistsIsRow
  <2> DEFINE read == passes[p].open[x]
             d == IF Downloads(p, x) THEN [row[x] EXCEPT !.status = "downloading"] ELSE row[x]
             m == LooksOnceMore(read, d)
  <2>2. d \in Row /\ MovedOn(row[x], d) /\ d.seen = row[x].seen
        /\ (d.status = "available" => row[x].status = "available")
    BY <2>1 DEF Row, Statuses, MovedOn, Exists
  <2>3. read.looks \in 0 .. MaxLooks + 1 /\ MaxLooks \in Nat
    BY <1>1, RowAssumption DEF Read, NotRead, RowAssumption
  <2>4. (IF read.looks > MaxLooks THEN read.looks ELSE read.looks + 1) \in 0 .. MaxLooks + 1
    BY <2>3
  <2> HIDE DEF read, d
  <2>5. m \in Row /\ m.sends = d.sends /\ m.arrId = d.arrId /\ m.by = d.by /\ m.age = d.age
        /\ m.seen = d.seen /\ m.status \in {d.status, "no_release"}
    BY <2>2, <2>4 DEF LooksOnceMore, Row, Statuses
  <2>6. MovedOn(row[x], m)
    BY <2>1, <2>2, <2>5 DEF MovedOn, Exists, Row, Statuses
  <2>7. PassMovesRow(p, x) = IF read.status = "sent" THEN m ELSE d
    BY DEF PassMovesRow, read, d
  <2> QED
    BY <1>3, <2>2, <2>5, <2>6, <2>7 DEF Patch, Held, Exists
<1> QED
  BY <1>2, <1>3

\* Nobody but the worker and the handlers queues a row, takes its arr id, counts
\* its sends or gives it to another asker.
LEMMA ObserversMove ==
    ASSUME LifecycleTypeOK, ObserverWrites
    PROVE  Moves
<1>0. /\ row \in [Titles -> Held] /\ arr \in [Titles -> Holding] /\ NotHeld \in Holding
      /\ removals \in [Titles -> ArrIds]
  BY Picks, Ranges DEF LifecycleTypeOK, TypeOK, Held, NotHeld, Holding
<1>1. ASSUME NEW t \in Titles, Ages(t)
      PROVE  Moves
  <2>1. row[t] \in Row
    BY <1>0, <1>1, ExistsIsRow DEF Ages
  <2>2. LET r == [row[t] EXCEPT !.age = "old"] IN r \in Held /\ MovedOn(row[t], r)
    BY <2>1 DEF Row, Held, MovedOn, Exists
  <2>3. \A x \in Titles : MovedOn(row[x], row'[x])
    BY <1>0, <1>1, <2>2 DEF Ages, MovedOn
  <2> QED
    BY <1>0, <1>1, <2>2, <2>3 DEF Ages, Moves, arrVars
<1>2. ASSUME NEW t \in Titles, NEW event \in Events, Webhook(t, event)
      PROVE  Moves
  <2>1. /\ row[t].status \in Statuses
        /\ MovesTo(event) \in Statuses \ {"queued"}
    BY <1>2 DEF Webhook, Events, MovesFrom, MovesTo, GrabMoves, ImportMoves, BlockMoves, Statuses
  <2>2. row[t] \in Row
    BY <1>0, <2>1 DEF Held, NoRow, Statuses
  <2>3. LET r == [row[t] EXCEPT !.status = MovesTo(event)] IN r \in Held /\ MovedOn(row[t], r)
    BY <2>1, <2>2 DEF Row, Held, MovedOn, Exists, Statuses
  <2>4. \A x \in Titles : MovedOn(row[x], row'[x])
    BY <1>0, <1>2, <2>3 DEF Webhook, MovedOn
  <2> QED
    BY <1>0, <1>2, <2>3, <2>4 DEF Webhook, Moves, arrVars
<1>3. ASSUME NEW t \in Titles, removals[t] # NoId, ArrRemoves(t)
      PROVE  /\ arr' \in [Titles -> Holding]
             /\ \A x \in Titles : arr'[x] = arr[x] \/ (arr'[x] = NotHeld /\ arr[x].id # NoId)
  BY <1>0, <1>3 DEF ArrRemoves
<1>4. ASSUME NEW t \in Titles, RemovalDone(t) \/ RemovalCut(t)
      PROVE  Moves
  <2>1. LET r == Patch(row[t], [row[t] EXCEPT !.status = "removed"])
        IN  r \in Held /\ MovedOn(row[t], r)
    BY <1>0, ExistsIsRow DEF Patch, Row, Held, MovedOn, Exists, Statuses
  <2>2. /\ row' \in [Titles -> Held]
        /\ \A x \in Titles : MovedOn(row[x], row'[x])
    BY <1>0, <1>4, <2>1 DEF RemovalDone, RemovalCut, RowRemoved, MovedOn
  <2>3. CASE RemovalDone(t)
    BY <1>0, <1>3, <2>2, <2>3 DEF RemovalDone, Moves
  <2>4. CASE RemovalCut(t)
    BY <1>0, <1>3, <2>2, <2>4 DEF RemovalCut, Moves
  <2> QED
    BY <1>4, <2>3, <2>4
<1>5. ASSUME NEW t \in Titles, RemovalFails(t)
      PROVE  Moves
  BY <1>0, <1>3, <1>5 DEF RemovalFails, Moves, MovedOn
<1>6. ASSUME NEW p \in Passes, PassStarts(p)
      PROVE  Moves
  <2>1. ASSUME NEW x \in Titles, row[x].status \in OpenStatuses
        PROVE  Arrived(row[x]) \in Held /\ MovedOn(row[x], Arrived(row[x]))
    <3>1. row[x] \in Row
      BY <1>0, <2>1 DEF Held, NoRow, OpenStatuses
    <3> QED
      BY <3>1 DEF Arrived, Row, Held, MovedOn, Exists, Statuses
  <2>2. /\ row' \in [Titles -> Held]
        /\ \A x \in Titles : MovedOn(row[x], row'[x])
    BY <1>0, <1>6, <2>1 DEF PassStarts, MovedOn
  <2> QED
    BY <1>0, <1>6, <2>2 DEF PassStarts, Moves, arrVars
<1>7. ASSUME NEW p \in Passes, PassMoves(p)
      PROVE  Moves
  <2>1. row' = [x \in Titles |-> Patch(row[x], PassMovesRow(p, x))]
    BY <1>7 DEF PassMoves
  <2>2. /\ row' \in [Titles -> Held]
        /\ \A x \in Titles : MovedOn(row[x], row'[x])
    BY <2>1, PassMovesType
  <2> QED
    BY <1>0, <1>7, <2>2 DEF PassMoves, Moves, arrVars
<1>8. ASSUME NEW u \in Users, MarkSeen(u)
      PROVE  Moves
  <2>1. ASSUME NEW x \in Titles, row[x].status = "available"
        PROVE  LET r == [row[x] EXCEPT !.seen = TRUE] IN r \in Held /\ MovedOn(row[x], r)
    <3>1. row[x] \in Row
      BY <1>0, <2>1 DEF Held, NoRow
    <3> QED
      BY <3>1 DEF Row, Held, MovedOn, Exists, Statuses
  <2>2. /\ row' \in [Titles -> Held]
        /\ \A x \in Titles : MovedOn(row[x], row'[x])
    BY <1>0, <1>8, <2>1 DEF MarkSeen, MovedOn
  <2> QED
    BY <1>0, <1>8, <2>2 DEF MarkSeen, Moves, arrVars
<1> QED
  BY <1>1, <1>2, <1>4, <1>5, <1>6, <1>7, <1>8 DEF ObserverWrites

-----------------------------------------------------------------------------
(* What the worker keeps survives the observers.                           *)

\* Jobs, timers and the flight are the worker's alone.
LEMMA MovesKeepIds ==
    ASSUME IdInv, Moves
    PROVE  IdInv'
<1>1. \A x \in Titles : row'[x].status = "queued" => row'[x].sends < MaxSends
  BY DEF Moves, MovedOn, IdInv, IInv, QueuedHasBudget
<1>2. CASE UNCHANGED <<up, memVars>>
  <2>1. IInv'
    BY <1>1, <1>2 DEF Moves, IdInv, IInv, TypeOK, QueuedHasBudget, Held, memVars, episodeVars
  <2> QED
    BY <1>2, <2>1 DEF Moves, MovedOn, IdInv, ArrIdIsOurs, LandedIsOurs, memVars
<1>3. CASE MemoryLost
  <2>1. IInv'
    <3>1. queue' \in Seq(Job) /\ withdrawals' \in [Titles -> ArrIds]
      BY <1>3, Ranges DEF MemoryLost
    <3> QED
      BY <1>1, <1>3, <3>1 DEF Moves, MemoryLost, IdInv, IInv, TypeOK, QueuedHasBudget, Held, episodeVars
  <2> QED
    BY <1>3, <2>1 DEF Moves, MemoryLost, MovedOn, IdInv, ArrIdIsOurs, LandedIsOurs
<1> QED
  BY <1>2, <1>3 DEF Moves

LEMMA MovesKeepOwed ==
    ASSUME OwedToWorker, Moves
    PROVE  OwedToWorker'
<1>1. CASE UNCHANGED <<up, memVars>>
  BY <1>1 DEF Moves, MovedOn, OwedToWorker, Waiting, InFlight, memVars
<1>2. CASE MemoryLost
  BY <1>2 DEF MemoryLost, OwedToWorker
<1> QED
  BY <1>1, <1>2 DEF Moves

LEMMA MovesKeepQuota ==
    ASSUME QuotaKept, Moves
    PROVE  QuotaKept'
<1> SUFFICES ASSUME NEW u \in Users, QuotaApplies(u)
             PROVE  Cardinality(AskedToday(row', u)) <= QuotaPerDay
  BY DEF QuotaKept, AskedToday, QuotaApplies
<1> DEFINE before == AskedToday(row, u)
           after == AskedToday(row', u)
<1>1. after \subseteq before
  BY DEF Moves, MovedOn, AskedToday
<1>2. IsFiniteSet(before) /\ Cardinality(before) <= QuotaPerDay
  <2>1. before \subseteq Titles
    BY DEF AskedToday
  <2> QED
    BY <2>1, RowAssumption, FS_Subset DEF RowAssumption, QuotaKept
<1> HIDE DEF before, after
<1>3. /\ Cardinality(after) \in Nat /\ Cardinality(before) \in Nat
      /\ Cardinality(after) <= Cardinality(before)
  BY <1>1, <1>2, FS_Subset, FS_CardinalityType
<1>4. Cardinality(after) <= QuotaPerDay
  BY <1>2, <1>3, RowAssumption DEF RowAssumption
<1> QED
  BY <1>4 DEF after

\* What the worker keeps, all of it.
WorkerInv == IdInv /\ OwedToWorker /\ QuotaKept

-----------------------------------------------------------------------------
(* Types.                                                                  *)

\* `walks` is a table of both services, which its entry in the type leaves open.
ObserversTyped ==
    /\ LifecycleTypeOK
    /\ DOMAIN walks = Services

LEMMA ReadOfType ==
    ASSUME NEW r \in Row
    PROVE  ReadOf(r) \in Read
BY DEF ReadOf, Read, Row

LEMMA NoneTypes ==
    /\ NoMedia \in Media
    /\ NotMirrored \in Mirrored
    /\ IdlePass \in Pass
BY Ranges DEF NoMedia, Media, NotMirrored, Mirrored, IdlePass, Pass

LEMMA HeardType ==
    ASSUME NEW a \in Pass, NEW d \in SUBSET (Services \X ArrIds)
    PROVE  /\ [a EXCEPT !.phase = "heard", !.downloads = d] \in Pass
           /\ [a EXCEPT !.phase = "diagnosing", !.downloads = {}] \in Pass
BY DEF Pass

LEMMA InitWorkerInv == LifecycleInit => WorkerInv
<1> SUFFICES ASSUME LifecycleInit PROVE WorkerInv
  OBVIOUS
<1>1. Init
  BY DEF LifecycleInit
<1>2. OwedToWorker
  BY <1>1 DEF Init, OwedToWorker
<1>3. QuotaKept
  <2> SUFFICES ASSUME NEW u \in Users PROVE AskedToday(row, u) = {}
    BY FS_EmptySet, RowAssumption DEF QuotaKept, RowAssumption
  <2> QED
    BY <1>1 DEF Init, AskedToday, LegacyRow, NewRow, NoRow, Exists
<1> QED
  BY <1>1, <1>2, <1>3, InitIds DEF WorkerInv

LEMMA InitTyped == LifecycleInit => ObserversTyped
<1> SUFFICES ASSUME LifecycleInit PROVE ObserversTyped
  OBVIOUS
<1>1. TypeOK
  BY InitWorkerInv DEF WorkerInv, IdInv, IInv
<1> QED
  BY <1>1, NoneTypes, Ranges DEF LifecycleInit, ObserversTyped, LifecycleTypeOK

\* The observers' own variables keep their types, whatever the worker does.
OwnTyped ==
    /\ media \in [Titles -> Media]
    /\ mirror \in [Titles -> Mirrored]
    /\ DOMAIN walks = Services
    /\ \A s \in Services : walks[s] \in [TitlesOf(s) -> Mirrored] \cup {NoWalk}
    /\ passes \in [Passes -> Pass]
    /\ diag \in SUBSET Titles
    /\ removals \in [Titles -> ArrIds]
    /\ audit \in [Titles -> ArrIds]
    /\ told \in [Titles -> 0 .. 2]
    /\ unread \in SUBSET Titles

LEMMA OwnTypedStep ==
    ASSUME ObserversTyped, [LifecycleNext]_vars
    PROVE  OwnTyped'
<1> USE DEF ObserversTyped, LifecycleTypeOK, OwnTyped
<1>1. CASE UNCHANGED observerVars
  BY <1>1 DEF observerVars, TitlesOf, Service
<1>2. CASE ProcessCrashes
  BY <1>2, Ranges, NoneTypes DEF ProcessCrashes, ObserversStop, TitlesOf, Service
<1>3. ASSUME NEW t \in Titles, NEW u \in Users, NEW s \in Selections, Ask(t, u, s)
      PROVE  OwnTyped'
  <2>1. told' \in [Titles -> 0 .. 2] /\ diag' \in SUBSET Titles
    BY <1>3 DEF Ask, AskedAgain, Forgotten
  <2> QED
    BY <1>3, <2>1 DEF Ask
<1>4. ASSUME NEW t \in Titles, AskAgain(t)
      PROVE  OwnTyped'
  <2>1. told' \in [Titles -> 0 .. 2]
    BY <1>4 DEF AskAgain, AskedAgain
  <2> QED
    BY <1>4, <2>1 DEF AskAgain
<1>5. ASSUME NEW t \in Titles, Withdraw(t)
      PROVE  OwnTyped'
  <2>1. told' \in [Titles -> 0 .. 2] /\ diag' \in SUBSET Titles
    BY <1>5 DEF Withdraw, Forgotten
  <2> QED
    BY <1>5, <2>1 DEF Withdraw
<1>6. ASSUME NEW t \in Titles, ArrGrabs(t) \/ ArrImports(t) \/ ArrDeleted(t)
      PROVE  OwnTyped'
  <2>1. CASE ArrGrabs(t)
    BY <1>6, <2>1 DEF ArrGrabs, MediaMoves, Media
  <2>2. CASE ArrImports(t)
    <3>1. PICK m \in Media : media' = [media EXCEPT ![t] = m]
      BY <2>2 DEF ArrImports, MediaMoves, Media
    <3> QED
      BY <2>2, <3>1 DEF ArrImports, MediaMoves
  <2>3. CASE ArrDeleted(t)
    BY <1>6, <2>3, NoneTypes DEF ArrDeleted
  <2> QED
    BY <1>6, <2>1, <2>2, <2>3
<1>7. ASSUME NEW s \in Services, WalkReads(s)
      PROVE  OwnTyped'
  <2>1. [t \in TitlesOf(s) |-> [id |-> arr[t].id, file |-> media[t].file]]
           \in [TitlesOf(s) -> Mirrored]
    BY DEF TypeOK, Holding, Media, Mirrored, TitlesOf
  <2> QED
    BY <1>7, <2>1 DEF WalkReads, UnchangedButMirror
<1>8. ASSUME NEW s \in Services, WalkReplaces(s)
      PROVE  OwnTyped'
  <2>1. mirror' \in [Titles -> Mirrored]
    BY <1>8 DEF WalkReplaces
  <2> QED
    BY <1>8, <2>1 DEF WalkReplaces, UnchangedButMirror
<1>9. ASSUME NEW s \in Services, WalkFails(s)
      PROVE  OwnTyped'
  BY <1>9 DEF WalkFails, UnchangedButMirror
<1>10. ASSUME NEW p \in Passes, PassStarts(p)
       PROVE  OwnTyped'
  <2> DEFINE open == {t \in Titles : row[t].status \in OpenStatuses}
             reads == [t \in Titles |-> IF t \in open THEN ReadOf(row[t]) ELSE NotRead]
             begun == [IdlePass EXCEPT !.phase = "asked", !.open = reads]
  <2>1. reads \in [Titles -> Read \cup {NotRead}]
    BY ReadOfType DEF TypeOK, NoRow, OpenStatuses
  <2> HIDE DEF reads
  <2>2. begun \in Pass
    BY <2>1 DEF IdlePass, Pass
  <2>3. passes' = [passes EXCEPT ![p] = begun]
    BY <1>10 DEF PassStarts, reads
  <2>4. told' \in [Titles -> 0 .. 2] /\ unread' \in SUBSET Titles
    BY <1>10 DEF PassStarts
  <2> QED
    BY <1>10, <2>2, <2>3, <2>4 DEF PassStarts
<1>11. ASSUME NEW p \in Passes, QueuesAnswer(p)
       PROVE  OwnTyped'
  <2>1. PICK answering \in SUBSET configured :
           passes' = [passes EXCEPT
                      ![p].phase = "heard",
                      ![p].downloads =
                          {<<Service(t), arr[t].id>> : t \in
                              {x \in Titles : media[x].downloading /\ Service(x) \in answering}}]
    BY <1>11 DEF QueuesAnswer
  <2> DEFINE heard == {<<Service(t), arr[t].id>> : t \in
                         {x \in Titles : media[x].downloading /\ Service(x) \in answering}}
  <2>2. heard \in SUBSET (Services \X ArrIds)
    BY DEF TypeOK, Holding, Service, Services
  <2> HIDE DEF heard
  <2>3. passes' = [passes EXCEPT ![p] = [passes[p] EXCEPT !.phase = "heard", !.downloads = heard]]
    BY <2>1 DEF heard
  <2>4. passes[p] \in Pass
    OBVIOUS
  <2>5. [passes[p] EXCEPT !.phase = "heard", !.downloads = heard] \in Pass
    BY <2>2, <2>4, HeardType
  <2> QED
    BY <1>11, <2>3, <2>5 DEF QueuesAnswer
<1>12. ASSUME NEW p \in Passes, PassMoves(p)
       PROVE  OwnTyped'
  <2>1. passes' = [passes EXCEPT ![p] = [passes[p] EXCEPT !.phase = "diagnosing", !.downloads = {}]]
    BY <1>12 DEF PassMoves
  <2>2. [passes[p] EXCEPT !.phase = "diagnosing", !.downloads = {}] \in Pass
    BY HeardType
  <2> QED
    BY <1>12, <2>1, <2>2 DEF PassMoves
<1>13. ASSUME NEW p \in Passes, PassDiagnoses(p)
       PROVE  OwnTyped'
  BY <1>13, NoneTypes DEF PassDiagnoses
<1>14. ASSUME NEW t \in Titles, RemovalAsks(t)
       PROVE  OwnTyped'
  <2>1. RemovalTarget(t) \in ArrIds
    BY DEF RemovalTarget, TypeOK, Row, NoRow, Mirrored, ArrIds
  <2> QED
    BY <1>14, <2>1 DEF RemovalAsks
<1>15. ASSUME NEW t \in Titles, RemovalDone(t) \/ RemovalCut(t) \/ RemovalFails(t)
       PROVE  OwnTyped'
  <2>1. media' \in [Titles -> Media]
    BY <1>15, NoneTypes DEF RemovalDone, RemovalCut, RemovalFails, ArrRemoves
  <2>2. 0 \in 0 .. 2
    OBVIOUS
  <2>3. CASE RemovalDone(t) \/ RemovalFails(t)
    BY <2>1, <2>2, <2>3, NoneTypes, Ranges DEF RemovalDone, RowRemoved, RemovalFails
  <2>4. CASE RemovalCut(t)
    <3>1. told' \in [Titles -> 0 .. 2]
      BY <2>2, <2>4 DEF RemovalCut, RowRemoved
    <3> QED
      BY <2>1, <2>4, <3>1, NoneTypes, Ranges DEF RemovalCut, ObserversStop, TitlesOf, Service
  <2> QED
    BY <1>15, <2>3, <2>4
<1>16. ASSUME NEW u \in Users, MarkSeen(u)
       PROVE  OwnTyped'
  BY <1>16 DEF MarkSeen
<1>17. ASSUME NEW t \in Titles, NEW event \in Events, Webhook(t, event)
       PROVE  OwnTyped'
  BY <1>1, <1>17 DEF Webhook
<1>18. ASSUME NEW t \in Titles, AskForEpisodes(t) \/ Work(t) \/ Ages(t)
       PROVE  OwnTyped'
  BY <1>1, <1>18 DEF AskForEpisodes, Work, Ages
<1>19. CASE ProcessStarts \/ MidnightPasses
  BY <1>1, <1>19 DEF ProcessStarts, MidnightPasses
<1>20. CASE UNCHANGED vars
  BY <1>1, <1>20 DEF vars
<1> HIDE DEF ObserversTyped, LifecycleTypeOK, OwnTyped
<1> QED
  BY <1>2, <1>3, <1>4, <1>5, <1>6, <1>7, <1>8, <1>9, <1>10, <1>11, <1>12, <1>13, <1>14,
     <1>15, <1>16, <1>17, <1>18, <1>19, <1>20
     DEF LifecycleNext, Walk, PassGoesOn, Remove

\* What every step keeps, the worker's and the observers'.
LEMMA LifecycleStep ==
    ASSUME WorkerInv, ObserversTyped, [LifecycleNext]_vars
    PROVE  (WorkerInv /\ ObserversTyped)'
<1>1. OwnTyped'
  BY OwnTypedStep
<1>2. ASSUME Next \/ UNCHANGED workerVars
      PROVE  WorkerInv'
  BY <1>2, NextIds, NextOwed, NextQuota DEF WorkerInv, IdInv
<1>3. ASSUME ObserverWrites
      PROVE  WorkerInv'
  <2>1. Moves
    BY <1>3, ObserversMove DEF ObserversTyped
  <2> QED
    BY <2>1, MovesKeepIds, MovesKeepOwed, MovesKeepQuota DEF WorkerInv
<1>4. WorkerInv'
  BY <1>2, <1>3, EachStepIsOneKind
<1>5. TypeOK'
  BY <1>4 DEF WorkerInv, IdInv, IInv
<1> QED
  BY <1>1, <1>4, <1>5 DEF OwnTyped, ObserversTyped, LifecycleTypeOK

LEMMA LifecycleInvHolds == LifecycleSpec => [](WorkerInv /\ ObserversTyped)
BY InitWorkerInv, InitTyped, LifecycleStep, PTL DEF LifecycleSpec

\* Every variable keeps its type while handlers, worker, passes, walks, webhooks,
\* removals and readers interleave: no pass counts a look too many, and no answer,
\* walk or removal names an id out of range.
THEOREM LifecycleTypes == LifecycleSpec => []LifecycleTypeOK
<1>1. WorkerInv /\ ObserversTyped => LifecycleTypeOK
  BY DEF ObserversTyped
<1> QED
  BY LifecycleInvHolds, <1>1, PTL

\* What RequestWorkerProofs proves of the worker alone holds with everybody else who
\* writes to the table: no ask is lost, no add goes over budget, an arr id on a row
\* is finderr's own and the quota binds, although `reconcile` writes rows from what
\* it read before its awaits.
THEOREM WorkerKeepsItsWord ==
    LifecycleSpec => [](OwedToWorker /\ QueuedHasBudget /\ ArrIdIsOurs /\ QuotaKept)
<1>1. WorkerInv /\ ObserversTyped =>
         OwedToWorker /\ QueuedHasBudget /\ ArrIdIsOurs /\ QuotaKept
  BY DEF WorkerInv, IdInv, IInv
<1> QED
  BY LifecycleInvHolds, <1>1, PTL

-----------------------------------------------------------------------------
(* News.                                                                   *)

\* A row that shows as arrived did so before, with the stamp it has.
StaysNews(x) ==
    row'[x].status = "available" =>
        row[x].status = "available" /\ (row'[x].seen => row[x].seen)

\* Statuses and stamps the pure rules write: none of them is `available`.
LEMMA RulesMakeNoNews ==
    ASSUME NEW r \in Held, NEW u \in Users, NEW s \in Selections,
           NEW id \in ArrIds, NEW n \in 0 .. MaxSends
    PROVE  LET News(new) == new.status = "available" =>
                                r.status = "available" /\ (new.seen => r.seen)
           IN  /\ News(Requeued(r))
               /\ News(Created(r, u, s))
               /\ News(Failed(r, n))
               /\ News(Patch(r, [r EXCEPT !.status = "sent", !.arrId = id, !.retry = "none"]))
               /\ News(Patch(r, [r EXCEPT !.status = "sent", !.retry = "none"]))
               /\ News(Patch(r, [r EXCEPT !.status = "queued", !.retry = "future", !.sends = n]))
               /\ News(Patch(r, [r EXCEPT !.status = "removed"]))
<1>1. CASE r = NoRow
  BY <1>1 DEF NoRow, Requeued, Created, Failed, Patch, NewRow, Exists, createsNewRequest
<1>2. CASE r \in Row
  BY <1>2 DEF Row, Requeued, Created, Failed, Patch, NewRow, Exists, createsNewRequest,
     revivesHeldRequest
<1> QED
  BY <1>1, <1>2 DEF Held

\* The worker and the handlers announce nothing and stamp nothing.
LEMMA WorkerMakesNoNews ==
    ASSUME IInv, Next, NEW x \in Titles
    PROVE  StaysNews(x)
<1>0. row \in [Titles -> Held] /\ row[x] \in Held
  BY DEF IInv, TypeOK, Held
<1>1. ASSUME row' = row PROVE StaysNews(x)
  BY <1>1 DEF StaysNews
<1>2. CASE Start
  BY <1>0, <1>2, RulesMakeNoNews, Picks, Ranges DEF Start, RowsAtStart, StaysNews
<1>3. CASE Midnight
  BY <1>0, <1>3, ExistsIsRow DEF Midnight, Row, StaysNews
<1>4. ASSUME NEW t \in Titles, NEW u \in Users, NEW s \in Selections,
             Post(t, u, s) \/ AgentPost(t, u, s)
      PROVE  StaysNews(x)
  <2>1. LET new == Created(row[x], u, s)
        IN  new.status = "available" => row[x].status = "available" /\ (new.seen => row[x].seen)
    BY <1>0, RulesMakeNoNews, Ranges
  <2>2. row'[x] = row[x] \/ row'[x] = Created(row[x], u, s)
    BY <1>0, <1>4 DEF Post, AgentPost
  <2> QED
    BY <2>1, <2>2 DEF StaysNews
<1>5. ASSUME NEW t \in Titles, Retry(t)
      PROVE  StaysNews(x)
  BY <1>0, <1>5, RulesMakeNoNews, Picks, Ranges DEF Retry, StaysNews
<1>6. ASSUME NEW t \in Titles, Withdrawing(t)
      PROVE  StaysNews(x)
  BY <1>0, <1>6 DEF Withdrawing, WithdrawUnsent, WithdrawAsks, WithdrawDone, WithdrawFails,
     NoRow, StaysNews
<1>7. ASSUME NEW t \in Titles, FailUnconfigured(t)
      PROVE  StaysNews(x)
  BY <1>0, <1>7, ExistsIsRow DEF FailUnconfigured, Due, Exists, Row, StaysNews
<1>8. ASSUME NEW t \in Titles, RetryTimePasses(t)
      PROVE  StaysNews(x)
  BY <1>0, <1>8 DEF RetryTimePasses, Held, Row, NoRow, StaysNews
<1>9. ASSUME NEW t \in Titles,
             \/ AnswerAdded(t) \/ AnswerAlready(t) \/ AnswerBusy(t) \/ GiveUp(t)
             \/ AnswerRefused(t)
      PROVE  StaysNews(x)
  <2>1. flight.id \in ArrIds /\ flight.sends + 1 \in 0 .. MaxSends
    BY <1>9, Ranges DEF AnswerAdded, AnswerAlready, AnswerBusy, GiveUp, AnswerRefused,
       Answered, InFlight, Flight, IInv, TypeOK, QueuedHasBudget
  <2>2. CASE x # t
    BY <1>0, <1>9, <2>2, <1>1 DEF AnswerAdded, AnswerAlready, AnswerBusy, GiveUp,
       AnswerRefused, StaysNews
  <2>3. CASE x = t /\ AnswerAdded(t)
    BY <1>0, <2>1, <2>3, RulesMakeNoNews, Picks DEF AnswerAdded, StaysNews
  <2>4. CASE x = t /\ AnswerAlready(t)
    BY <1>0, <2>1, <2>4, RulesMakeNoNews, Picks DEF AnswerAlready, StaysNews
  <2>5. CASE x = t /\ AnswerBusy(t)
    BY <1>0, <2>1, <2>5, RulesMakeNoNews, Picks DEF AnswerBusy, StaysNews
  <2>6. CASE x = t /\ (GiveUp(t) \/ AnswerRefused(t))
    <3>1. row'[x] = Failed(row[x], flight.sends + 1)
      BY <1>0, <2>6 DEF GiveUp, AnswerRefused
    <3>2. LET new == Failed(row[x], flight.sends + 1)
          IN  new.status = "available" => row[x].status = "available" /\ (new.seen => row[x].seen)
      BY <1>0, <2>1, RulesMakeNoNews, Picks
    <3> QED
      BY <3>1, <3>2 DEF StaysNews
  <2> QED
    BY <1>9, <2>2, <2>3, <2>4, <2>5, <2>6
<1>10. ASSUME NEW t \in Titles,
              \/ DropJob(t) \/ NotDue(t) \/ SendAdd(t) \/ TakeEpisodes(t)
              \/ ArrAccepts(t) \/ AskEpisodes(t) \/ TimerFires(t) \/ ByHand(t)
              \/ EpisodesMonitored(t) \/ EpisodesSearched(t) \/ EpisodesFail(t)
       PROVE  row' = row
  BY <1>10 DEF DropJob, NotDue, SendAdd, TakeEpisodes, ArrAccepts, AskEpisodes, TimerFires,
     ByHand, AddedByHand, DeletedByHand, EpisodesMonitored, EpisodesSearched, EpisodesFail,
     EpisodeStage
<1>11. CASE Crash
  BY <1>1, <1>11 DEF Crash
<1> QED
  BY <1>1, <1>2, <1>3, <1>4, <1>5, <1>6, <1>7, <1>8, <1>9, <1>10, <1>11
     DEF Next, WorkerTakes, WorkerHears

\* Of the observers only the pass announces, and only the reader stamps.
LEMMA ObserversMakeNoNews ==
    ASSUME IInv, LifecycleTypeOK, ObserverWrites, NEW x \in Titles,
           \A p \in Passes : ~PassStarts(p),
           \A u \in Users : ~MarkSeen(u)
    PROVE  StaysNews(x)
<1>0. row \in [Titles -> Held] /\ row[x] \in Held
  BY DEF IInv, TypeOK, Held
<1>1. ASSUME NEW t \in Titles, Ages(t)
      PROVE  StaysNews(x)
  BY <1>0, <1>1, ExistsIsRow DEF Ages, Row, StaysNews
<1>2. ASSUME NEW t \in Titles, NEW event \in Events, Webhook(t, event)
      PROVE  StaysNews(x)
  <2>1. MovesTo(event) # "available" /\ row[t].status # "absent"
    BY <1>2 DEF Webhook, Events, MovesFrom, MovesTo, GrabMoves, ImportMoves, BlockMoves
  <2>2. row[t] \in Row
    BY <1>0, <2>1, ExistsIsRow DEF Exists
  <2>3. [row[t] EXCEPT !.status = MovesTo(event)].status # "available"
    BY <2>1, <2>2 DEF Row
  <2> QED
    BY <1>0, <1>2, <2>3 DEF Webhook, StaysNews
<1>3. ASSUME NEW t \in Titles, RemovalDone(t) \/ RemovalCut(t)
      PROVE  StaysNews(x)
  <2>1. row'[x] = row[x] \/ row'[x] = Patch(row[x], [row[x] EXCEPT !.status = "removed"])
    BY <1>0, <1>3 DEF RemovalDone, RemovalCut, RowRemoved
  <2>2. LET r == Patch(row[x], [row[x] EXCEPT !.status = "removed"])
        IN  r.status = "available" => row[x].status = "available" /\ (r.seen => row[x].seen)
    BY <1>0, RulesMakeNoNews, Picks, Ranges
  <2> QED
    BY <2>1, <2>2 DEF StaysNews
<1>4. ASSUME NEW t \in Titles, RemovalFails(t)
      PROVE  StaysNews(x)
  BY <1>4 DEF RemovalFails, StaysNews
<1>5. ASSUME NEW p \in Passes, PassMoves(p)
      PROVE  StaysNews(x)
  BY <1>5, PassMovesType DEF PassMoves, StaysNews
<1> QED
  BY <1>1, <1>2, <1>3, <1>4, <1>5 DEF ObserverWrites

\* An arrival that shows, or is not seen yet, is counted as one that was announced.
Heard(x) ==
    /\ row[x].status = "available" => told[x] > 0
    /\ x \in unread => (row[x].status = "available" => ~row[x].seen)

\* While no news is made, the count of announcements only goes back to nothing for
\* a row that is queued, removed or gone.
LEMMA ToldKept ==
    ASSUME ObserversTyped, LifecycleNext, NEW x \in Titles,
           \A p \in Passes : ~PassStarts(p),
           \A u \in Users : ~MarkSeen(u)
    PROVE  /\ row'[x].status = "available" => told'[x] = told[x]
           /\ unread' = unread
<1>0. told \in [Titles -> 0 .. 2] /\ row \in [Titles -> Held]
  BY DEF ObserversTyped, LifecycleTypeOK, TypeOK, Held
<1>1. CASE told' = told /\ unread' = unread
  BY <1>1
<1>2. ASSUME NEW t \in Titles, NEW u \in Users, NEW s \in Selections,
             Ask(t, u, s) \/ AskAgain(t)
      PROVE  /\ row'[x].status = "available" => told'[x] = told[x]
             /\ unread' = unread
  BY <1>0, <1>2 DEF Ask, AskAgain, AskedAgain
<1>3. ASSUME NEW t \in Titles, Withdraw(t)
      PROVE  /\ row'[x].status = "available" => told'[x] = told[x]
             /\ unread' = unread
  BY <1>0, <1>3 DEF Withdraw, Exists
<1>4. ASSUME NEW t \in Titles, RemovalDone(t) \/ RemovalCut(t)
      PROVE  /\ row'[x].status = "available" => told'[x] = told[x]
             /\ unread' = unread
  <2>1. Patch(row[t], [row[t] EXCEPT !.status = "removed"]).status # "available"
    BY <1>0, ExistsIsRow DEF Patch, Row, Exists
  <2> QED
    BY <1>0, <1>4, <2>1 DEF RemovalDone, RemovalCut, RowRemoved
<1>5. ASSUME NEW t \in Titles,
             \/ AskForEpisodes(t) \/ Work(t) \/ Ages(t) \/ ArrGrabs(t) \/ ArrImports(t)
             \/ ArrDeleted(t) \/ RemovalAsks(t) \/ RemovalFails(t)
             \/ \E event \in Events : Webhook(t, event)
      PROVE  told' = told /\ unread' = unread
  BY <1>5 DEF AskForEpisodes, Work, Ages, ArrGrabs, ArrImports, ArrDeleted, MediaMoves,
     RemovalAsks, RemovalFails, Webhook, observerVars
<1>6. ASSUME NEW s \in Services, Walk(s)
      PROVE  told' = told /\ unread' = unread
  BY <1>6 DEF Walk, WalkReads, WalkReplaces, WalkFails, UnchangedButMirror
<1>7. ASSUME NEW p \in Passes, PassGoesOn(p)
      PROVE  told' = told /\ unread' = unread
  BY <1>7 DEF PassGoesOn, QueuesAnswer, PassMoves, PassDiagnoses
<1>8. CASE ProcessStarts \/ ProcessCrashes \/ MidnightPasses
  BY <1>8 DEF ProcessStarts, ProcessCrashes, MidnightPasses, observerVars
<1> QED
  BY <1>1, <1>2, <1>3, <1>4, <1>5, <1>6, <1>7, <1>8, Picks DEF LifecycleNext, Remove

LEMMA NewsStep ==
    ASSUME WorkerInv, ObserversTyped, NewsReachesTheAsker, [LifecycleNext]_vars
    PROVE  NewsReachesTheAsker'
<1> SUFFICES ASSUME NEW x \in Titles PROVE Heard(x)'
  <2>1. unread' \subseteq Titles
    BY LifecycleStep DEF ObserversTyped, LifecycleTypeOK
  <2> QED
    BY <2>1 DEF NewsReachesTheAsker, AvailableWasAnnounced, UnreadIsCounted, Heard
<1>0. /\ told \in [Titles -> 0 .. 2] /\ row \in [Titles -> Held]
      /\ Heard(x) /\ unread \subseteq Titles
  BY DEF ObserversTyped, LifecycleTypeOK, TypeOK, Held, Heard, NewsReachesTheAsker,
     AvailableWasAnnounced, UnreadIsCounted
<1>1. CASE UNCHANGED vars
  BY <1>0, <1>1 DEF vars, workerVars, observerVars, Heard
<1>2. ASSUME NEW p \in Passes, PassStarts(p)
      PROVE  Heard(x)'
  <2> DEFINE arrived == {t \in Titles : row[t].status \in OpenStatuses /\ mirror[t].file}
  <2>1. CASE x \in arrived
    <3>1. row[x] \in Row
      BY <1>0, <2>1 DEF Held, NoRow, OpenStatuses
    <3>2. row'[x] = Arrived(row[x]) /\ told'[x] > 0
      BY <1>0, <1>2, <2>1 DEF PassStarts
    <3>3. row'[x].seen = FALSE
      BY <3>1, <3>2 DEF Arrived, Row
    <3> QED
      BY <3>2, <3>3 DEF Heard
  <2>2. CASE x \notin arrived
    BY <1>0, <1>2, <2>2 DEF PassStarts, Heard
  <2> QED
    BY <2>1, <2>2
<1>3. ASSUME NEW u \in Users, MarkSeen(u)
      PROVE  Heard(x)'
  <2> DEFINE news == {t \in Titles : row[t].by = u /\ row[t].status = "available" /\ ~row[t].seen}
  <2>1. CASE x \in news
    <3>1. row[x] \in Row
      BY <1>0, <2>1 DEF Held, NoRow
    <3>2. row'[x] = [row[x] EXCEPT !.seen = TRUE] /\ told' = told /\ x \notin unread'
      BY <1>3, <2>1 DEF MarkSeen
    <3> QED
      BY <1>0, <3>1, <3>2 DEF Heard, Row
  <2>2. CASE x \notin news
    BY <1>0, <1>3, <2>2 DEF MarkSeen, Heard
  <2> QED
    BY <2>1, <2>2
<1>4. CASE /\ LifecycleNext
           /\ \A p \in Passes : ~PassStarts(p)
           /\ \A u \in Users : ~MarkSeen(u)
  <2>1. StaysNews(x)
    <3>1. ASSUME UNCHANGED workerVars
          PROVE  StaysNews(x)
      BY <3>1 DEF workerVars, StaysNews
    <3> QED
      BY <1>4, <3>1, EachStepIsOneKind, WorkerMakesNoNews, ObserversMakeNoNews
         DEF WorkerInv, IdInv, ObserversTyped
  <2>2. /\ row'[x].status = "available" => told'[x] = told[x]
        /\ unread' = unread
    BY <1>4, ToldKept
  <2> QED
    BY <1>0, <2>1, <2>2 DEF StaysNews, Heard
<1> QED
  BY <1>1, <1>2, <1>3, <1>4

\* Nothing arrives in silence and nothing announced is hidden by an older stamp, with
\* any number of passes, webhooks, retries, withdrawals, removals and readers at once.
THEOREM NewsArrives == LifecycleSpec => []NewsReachesTheAsker
<1>1. LifecycleInit => NewsReachesTheAsker
  <2>1. LegacyRow.status # "available"
    BY DEF LegacyRow, NewRow
  <2> QED
    BY <2>1 DEF LifecycleInit, Init, NewsReachesTheAsker, AvailableWasAnnounced,
       UnreadIsCounted, NoRow
<1>2. WorkerInv /\ ObserversTyped /\ NewsReachesTheAsker /\ [LifecycleNext]_vars
         => NewsReachesTheAsker'
  BY NewsStep
<1> QED
  BY LifecycleInvHolds, <1>1, <1>2, PTL DEF LifecycleSpec

-----------------------------------------------------------------------------
(* The audit.                                                              *)

\* The ids the arr of a title has handed out, and the one that stands for none.
Known(t) == 0 .. lastId[Service(t)]

\* Wherever an id is written down, an arr has handed it out: so an id that is handed
\* out later is none of those.
IdsAreKnown ==
    /\ \A t \in Titles :
        /\ arr[t].id \in Known(t)
        /\ ourIds[t] \subseteq Known(t)
        /\ mirror[t].id \in Known(t)
        /\ removals[t] \in Known(t)
        /\ audit[t] \in Known(t)
    /\ \A s \in Services : walks[s] # NoWalk =>
        \A t \in TitlesOf(s) : walks[s][t].id \in Known(t)

\* A title the arr holds anew has an id that was never handed out before.
FreshIds ==
    \A x \in Titles :
        /\ lastId[Service(x)] <= lastId'[Service(x)]
        /\ \/ arr'[x].id \in {NoId, arr[x].id}
           \/ arr'[x].id = lastId'[Service(x)] /\ lastId[Service(x)] < lastId'[Service(x)]
        /\ ourIds'[x] \subseteq ourIds[x] \cup {lastId'[Service(x)]}

LEMMA ServiceType == \A t \in Titles : Service(t) \in Services
BY DEF Service, Services

LEMMA WorkerIdsAreFresh ==
    ASSUME IInv, Next
    PROVE  FreshIds
<1>0. /\ arr \in [Titles -> Holding] /\ lastId \in [Services -> Nat]
      /\ ourIds \in [Titles -> SUBSET ArrIds] /\ \A x \in Titles : arr[x].id \in Nat
  BY Ranges DEF IInv, TypeOK, Holding
<1>1. ASSUME UNCHANGED arrVars PROVE FreshIds
  BY <1>0, <1>1, ServiceType DEF arrVars, FreshIds
<1>2. ASSUME NEW t \in Titles, ArrAccepts(t)
      PROVE  FreshIds
  <2> DEFINE n == lastId[Service(t)] + 1
  <2>1. /\ lastId' = [lastId EXCEPT ![Service(t)] = n]
        /\ arr' = [arr EXCEPT ![t] = [id |-> n, monitored |-> TRUE, sel |-> flight.sel]]
        /\ ourIds' = [ourIds EXCEPT ![t] = ourIds[t] \cup {n}]
    BY <1>2 DEF ArrAccepts
  <2> QED
    BY <1>0, <2>1, ServiceType DEF FreshIds
<1>3. ASSUME NEW t \in Titles, AddedByHand(t)
      PROVE  FreshIds
  <2> DEFINE n == lastId[Service(t)] + 1
  <2>1. lastId' = [lastId EXCEPT ![Service(t)] = n] /\ ourIds' = ourIds
    BY <1>3 DEF AddedByHand
  <2>2. lastId'[Service(t)] = n
    BY <1>0, <2>1, ServiceType
  <2>3. arr' = [arr EXCEPT ![t] = [NotHeld EXCEPT !.id = n, !.monitored = TRUE]]
    BY <1>3, <2>2 DEF AddedByHand
  <2>4. arr'[t].id = n
    BY <1>0, <2>3 DEF NotHeld
  <2> QED
    BY <1>0, <2>1, <2>3, <2>4, ServiceType DEF FreshIds
<1>4. ASSUME NEW t \in Titles, DeletedByHand(t)
      PROVE  FreshIds
  BY <1>0, <1>4, ServiceType DEF DeletedByHand, NotHeld, FreshIds
<1>5. ASSUME NEW t \in Titles, Withdrawing(t)
      PROVE  FreshIds
  <2>1. UNCHANGED <<lastId, ourIds>>
    BY <1>5 DEF Withdrawing, WithdrawUnsent, WithdrawAsks, WithdrawDone, WithdrawFails, arrVars
  <2>2. \A x \in Titles : arr'[x].id = arr[x].id
    BY <1>0, <1>5 DEF Withdrawing, WithdrawUnsent, WithdrawAsks, WithdrawDone, WithdrawFails,
       arrVars, Unmonitored, Holding
  <2> QED
    BY <1>0, <2>1, <2>2, ServiceType DEF FreshIds
<1>6. ASSUME NEW t \in Titles,
             \/ \E u \in Users, s \in Selections : Post(t, u, s) \/ AgentPost(t, u, s)
             \/ Retry(t) \/ AskEpisodes(t) \/ RetryTimePasses(t) \/ TimerFires(t)
             \/ WorkerTakes(t)
      PROVE  UNCHANGED arrVars
  BY <1>6 DEF Post, AgentPost, Retry, AskEpisodes, RetryTimePasses, TimerFires, WorkerTakes,
     DropJob, NotDue, FailUnconfigured, SendAdd, TakeEpisodes
<1>7. ASSUME NEW t \in Titles, WorkerHears(t)
      PROVE  UNCHANGED arrVars
  BY <1>7 DEF WorkerHears, AnswerAdded, AnswerAlready, AnswerBusy, GiveUp, AnswerRefused,
     Answered, EpisodesMonitored, EpisodesSearched, EpisodesFail, EpisodeStage
<1>8. CASE Start \/ Crash \/ Midnight
  BY <1>1, <1>8 DEF Start, Crash, Midnight
<1> QED
  BY <1>1, <1>2, <1>3, <1>4, <1>5, <1>6, <1>7, <1>8 DEF Next, ByHand

LEMMA IdsAreFresh ==
    ASSUME WorkerInv, ObserversTyped, [LifecycleNext]_vars
    PROVE  FreshIds
<1>0. /\ lastId \in [Services -> Nat]
      /\ \A x \in Titles : arr[x].id \in Nat
  BY Ranges DEF ObserversTyped, LifecycleTypeOK, TypeOK, Holding
<1>1. CASE ObserverWrites
  <2>1. Moves
    BY <1>1, ObserversMove DEF ObserversTyped
  <2> QED
    BY <1>0, <2>1, ServiceType DEF Moves, NotHeld, FreshIds
<1>2. CASE UNCHANGED workerVars
  BY <1>0, <1>2, ServiceType DEF workerVars, arrVars, FreshIds
<1> QED
  BY <1>1, <1>2, EachStepIsOneKind, WorkerIdsAreFresh DEF WorkerInv, IdInv

\* What the observers write down of an id they had written down, or was known.
ObserversCopy ==
    /\ \A x \in Titles :
        /\ \/ mirror'[x].id \in {NoId, mirror[x].id}
           \/ walks[Service(x)] # NoWalk /\ mirror'[x] = walks[Service(x)][x]
        /\ removals'[x] \in {NoId, removals[x], mirror[x].id, row[x].arrId}
        /\ \/ audit'[x] = audit[x]
           \/ removals[x] # NoId /\ audit'[x] = removals[x] /\ arr'[x].id # removals[x]
    /\ \A s \in Services : walks'[s] # NoWalk =>
        \/ walks'[s] = walks[s]
        \/ \A x \in TitlesOf(s) : walks'[s][x].id = arr[x].id

LEMMA ObserversOnlyCopy ==
    ASSUME WorkerInv, ObserversTyped, [LifecycleNext]_vars
    PROVE  ObserversCopy
<1>0. /\ mirror \in [Titles -> Mirrored] /\ DOMAIN walks = Services
      /\ removals \in [Titles -> ArrIds] /\ audit \in [Titles -> ArrIds]
      /\ arr \in [Titles -> Holding]
  BY DEF ObserversTyped, LifecycleTypeOK, TypeOK
<1>1. ASSUME UNCHANGED <<mirror, walks, removals, audit>> PROVE ObserversCopy
  BY <1>1 DEF ObserversCopy
<1>2. CASE ProcessCrashes
  BY <1>2 DEF ProcessCrashes, ObserversStop, ObserversCopy
<1>3. ASSUME NEW s \in Services, WalkReads(s)
      PROVE  ObserversCopy
  BY <1>0, <1>3 DEF WalkReads, UnchangedButMirror, ObserversCopy
<1>4. ASSUME NEW s \in Services, WalkReplaces(s)
      PROVE  ObserversCopy
  <2>1. \A x \in Titles : x \in TitlesOf(s) <=> Service(x) = s
    BY DEF TitlesOf
  <2> QED
    BY <1>0, <1>4, <2>1 DEF WalkReplaces, UnchangedButMirror, ObserversCopy
<1>5. ASSUME NEW s \in Services, WalkFails(s)
      PROVE  ObserversCopy
  BY <1>0, <1>5 DEF WalkFails, UnchangedButMirror, ObserversCopy
<1>6. ASSUME NEW t \in Titles, RemovalAsks(t)
      PROVE  ObserversCopy
  BY <1>0, <1>6 DEF RemovalAsks, RemovalTarget, ObserversCopy
<1>7. ASSUME NEW t \in Titles, RemovalDone(t)
      PROVE  ObserversCopy
  <2>1. removals[t] # NoId /\ arr'[t].id # removals[t]
    BY <1>0, <1>7 DEF RemovalDone, ArrRemoves, NotHeld
  <2> QED
    BY <1>0, <1>7, <2>1 DEF RemovalDone, NotMirrored, ObserversCopy
<1>8. ASSUME NEW t \in Titles, RemovalFails(t) \/ RemovalCut(t)
      PROVE  ObserversCopy
  <2>1. CASE RemovalFails(t)
    BY <1>0, <2>1 DEF RemovalFails, ObserversCopy
  <2>2. CASE RemovalCut(t)
    BY <1>0, <2>2 DEF RemovalCut, ObserversStop, NotMirrored, ObserversCopy
  <2> QED
    BY <1>8, <2>1, <2>2
<1>9. ASSUME NEW t \in Titles,
             \/ \E u \in Users, s \in Selections : Ask(t, u, s)
             \/ AskAgain(t) \/ Withdraw(t) \/ AskForEpisodes(t) \/ Work(t) \/ Ages(t)
             \/ ArrGrabs(t) \/ ArrImports(t) \/ ArrDeleted(t)
             \/ \E event \in Events : Webhook(t, event)
      PROVE  UNCHANGED <<mirror, walks, removals, audit>>
  BY <1>9 DEF Ask, AskAgain, Withdraw, AskForEpisodes, Work, Ages, ArrGrabs, ArrImports,
     ArrDeleted, MediaMoves, Webhook, observerVars
<1>10. ASSUME NEW p \in Passes, PassStarts(p) \/ PassGoesOn(p)
       PROVE  UNCHANGED <<mirror, walks, removals, audit>>
  BY <1>10 DEF PassStarts, PassGoesOn, QueuesAnswer, PassMoves, PassDiagnoses
<1>11. ASSUME NEW u \in Users, MarkSeen(u)
       PROVE  UNCHANGED <<mirror, walks, removals, audit>>
  BY <1>11 DEF MarkSeen
<1>12. CASE ProcessStarts \/ MidnightPasses \/ UNCHANGED vars
  BY <1>1, <1>12 DEF ProcessStarts, MidnightPasses, observerVars, vars
<1> QED
  BY <1>1, <1>2, <1>3, <1>4, <1>5, <1>6, <1>7, <1>8, <1>9, <1>10, <1>11, <1>12
     DEF LifecycleNext, Walk, Remove

LEMMA AuditStep ==
    ASSUME WorkerInv, ObserversTyped, IdsAreKnown, AuditIsTrue, [LifecycleNext]_vars
    PROVE  IdsAreKnown' /\ AuditIsTrue'
<1>0. /\ FreshIds /\ ObserversCopy
      /\ \A x \in Titles :
            lastId[Service(x)] \in Nat /\ lastId'[Service(x)] \in Nat
  <2>1. (WorkerInv /\ ObserversTyped)'
    BY LifecycleStep
  <2>2. lastId \in [Services -> ArrIds] /\ lastId' \in [Services -> ArrIds]
    BY <2>1 DEF ObserversTyped, LifecycleTypeOK, TypeOK
  <2> QED
    BY <2>2, IdsAreFresh, ObserversOnlyCopy, ServiceType, Ranges
<1>1. \A x \in Titles : Known(x) \subseteq Known(x)' /\ lastId'[Service(x)] \in Known(x)'
                         /\ 0 \in Known(x)'
  BY <1>0 DEF FreshIds, Known
<1>2. \A x \in Titles : row[x].arrId \in Known(x)
  BY <1>0 DEF WorkerInv, IdInv, ArrIdIsOurs, IdsAreKnown, Known, NoId
<1>3. ASSUME NEW x \in Titles
      PROVE  /\ arr'[x].id \in Known(x)'
             /\ ourIds'[x] \subseteq Known(x)'
             /\ mirror'[x].id \in Known(x)'
             /\ removals'[x] \in Known(x)'
             /\ audit'[x] \in Known(x)'
  <2>1. walks[Service(x)] # NoWalk => walks[Service(x)][x].id \in Known(x)
    BY ServiceType DEF IdsAreKnown, TitlesOf
  <2> QED
    BY <1>0, <1>1, <1>2, <2>1 DEF FreshIds, ObserversCopy, IdsAreKnown, NoId
<1>4. ASSUME NEW s \in Services, walks'[s] # NoWalk, NEW x \in TitlesOf(s)
      PROVE  walks'[s][x].id \in Known(x)'
  <2>1. x \in Titles
    BY DEF TitlesOf
  <2> QED
    BY <1>0, <1>1, <1>4, <2>1 DEF ObserversCopy, IdsAreKnown
<1>5. IdsAreKnown'
  <2>1. \A s \in Services : TitlesOf(s)' = TitlesOf(s)
    BY DEF TitlesOf, Service
  <2> QED
    BY <1>3, <1>4, <2>1 DEF IdsAreKnown
<1>6. ASSUME NEW x \in Titles, audit'[x] # NoId
      PROVE  arr'[x].id # audit'[x]
  <2>1. CASE removals[x] # NoId /\ audit'[x] = removals[x] /\ arr'[x].id # removals[x]
    BY <2>1
  <2>2. CASE audit'[x] = audit[x]
    <3>1. audit[x] \in Known(x) /\ arr[x].id # audit[x]
      BY <1>6, <2>2 DEF IdsAreKnown, AuditIsTrue
    <3>2. audit[x] <= lastId[Service(x)] /\ audit[x] \in Nat
      BY <1>0, <3>1 DEF Known
    <3> QED
      BY <1>0, <1>6, <2>2, <3>1, <3>2 DEF FreshIds
  <2> QED
    BY <1>0, <2>1, <2>2 DEF ObserversCopy
<1> QED
  BY <1>5, <1>6 DEF AuditIsTrue

\* An id the audit lists as removed is one the arr no longer has under that title,
\* for any number of titles and of ids the arrs hand out: an id is never handed out
\* twice, and a removal is recorded in the step that finds the id gone.
THEOREM AuditTellsTheTruth == LifecycleSpec => []AuditIsTrue
<1>1. LifecycleInit => IdsAreKnown /\ AuditIsTrue
  BY ServiceType
     DEF LifecycleInit, Init, NotHeld, NotMirrored, NoId, Known, IdsAreKnown, AuditIsTrue
<1>2. /\ WorkerInv /\ ObserversTyped
      /\ IdsAreKnown /\ AuditIsTrue
      /\ [LifecycleNext]_vars
      => (IdsAreKnown /\ AuditIsTrue)'
  BY AuditStep
<1> QED
  BY LifecycleInvHolds, <1>1, <1>2, PTL DEF LifecycleSpec

-----------------------------------------------------------------------------
(* What the worker never does, the observers never do.                     *)

\* Withdrawing, and a removal that meets it, switches off monitoring only on a library
\* row finderr added; and no pass, webhook, removal or reader takes the credit of the
\* first asker.
THEOREM OthersStillLeftAlone ==
    LifecycleSpec => OnlyOursUnmonitored /\ FirstAskerKeepsCredit
<1>1. ASSUME WorkerInv, ObserversTyped, [LifecycleNext]_vars, NEW t \in Titles
      PROVE  /\ (arr[t].monitored /\ ~arr'[t].monitored /\ arr'[t].id = arr[t].id)
                    => arr[t].id \in ourIds[t]
             /\ row'[t].by # row[t].by => createsNewRequest(row[t]) \/ ~Exists(row'[t])
  <2>1. CASE Next
    <3>1. (arr[t].monitored /\ ~arr'[t].monitored /\ arr'[t].id = arr[t].id)
             => arr[t].id \in ourIds[t]
      BY <1>1, <2>1, UnmonitoredByWithdrawal DEF WorkerInv, IdInv, ArrIdIsOurs
    <3>2. row'[t].by # row[t].by => createsNewRequest(row[t]) \/ ~Exists(row'[t])
      BY <1>1, <2>1, OnlyAsksCredit DEF WorkerInv, IdInv, Kept
    <3> QED
      BY <3>1, <3>2
  <2>2. CASE ObserverWrites
    <3>1. Moves
      BY <1>1, <2>2, ObserversMove DEF ObserversTyped
    <3> QED
      BY <3>1 DEF Moves, MovedOn, NotHeld
  <2>3. CASE UNCHANGED workerVars
    BY <2>3 DEF workerVars, arrVars
  <2> QED
    BY <1>1, <2>1, <2>2, <2>3, EachStepIsOneKind
<1>2. WorkerInv /\ ObserversTyped /\ [LifecycleNext]_vars =>
         [\A t \in Titles :
             (arr[t].monitored /\ ~arr'[t].monitored /\ arr'[t].id = arr[t].id)
                 => arr[t].id \in ourIds[t]]_workerVars
  BY <1>1
<1>3. WorkerInv /\ ObserversTyped /\ [LifecycleNext]_vars =>
         [\A t \in Titles :
             row'[t].by # row[t].by => createsNewRequest(row[t]) \/ ~Exists(row'[t])]_workerVars
  BY <1>1
<1> QED
  BY LifecycleInvHolds, <1>2, <1>3, PTL
     DEF LifecycleSpec, OnlyOursUnmonitored, FirstAskerKeepsCredit
=============================================================================
