------------------------ MODULE RequestWorkerProofs ------------------------
(***************************************************************************)
(* What RequestWorker keeps for every set of titles, users and selections, *)
(* every budget and every bound: its types and send budget, that no queued *)
(* row is ever lost by the worker, that an arr id is finderr's own, and    *)
(* that the first asker keeps the credit.                                  *)
(***************************************************************************)
EXTENDS RequestWorker, TLAPS, FiniteSetTheorems

\* What the table holds for one title.
Held == Row \cup {NoRow}

-----------------------------------------------------------------------------
(* Rows: what the pure rules return.                                       *)

\* The picks behind NoRow, NotHeld and LegacyRow are in their sets.
LEMMA Picks ==
    /\ (CHOOSE u \in Users : TRUE) \in Users
    /\ (CHOOSE s \in Selections : TRUE) \in Selections
BY RowAssumption DEF RowAssumption

\* The ranges of the counters of a row start at zero.
LEMMA Ranges ==
    /\ NoId \in ArrIds
    /\ ArrIds \subseteq Nat
    /\ 0 \in 0 .. MaxSends
    /\ 0 < MaxSends
    /\ MaxSends \in Nat
    /\ 0 \in 0 .. MaxLooks + 1
BY RowAssumption DEF RowAssumption, ArrIds, NoId

\* A row has a status of its own, which NoRow lacks.
LEMMA ExistsIsRow ==
    ASSUME NEW r \in Held
    PROVE  Exists(r) <=> r \in Row
BY DEF Held, Exists, Row, NoRow, Statuses

LEMMA NewRowType ==
    ASSUME NEW u \in Users, NEW s \in Selections
    PROVE  NewRow(u, s) \in Row
BY Ranges DEF NewRow, Row, Statuses

LEMMA RequeuedType ==
    ASSUME NEW r \in Held
    PROVE  /\ Requeued(r) \in Held
           /\ Exists(r) => Requeued(r) \in Row
           /\ ~Exists(r) => Requeued(r) = r
<1>1. ASSUME Exists(r)
      PROVE  [r EXCEPT !.status = "queued", !.looks = 0, !.sends = 0, !.retry = "none"] \in Row
  <2>1. r \in Row
    BY <1>1, ExistsIsRow
  <2> QED
    BY <2>1, Ranges DEF Row, Statuses
<1> QED
  BY <1>1 DEF Requeued, Patch, Held

LEMMA CreatedType ==
    ASSUME NEW r \in Held, NEW u \in Users, NEW s \in Selections
    PROVE  Created(r, u, s) \in Row
<1>1. CASE createsNewRequest(r)
  BY <1>1, NewRowType DEF Created
<1>2. CASE ~createsNewRequest(r)
  <2>1. r \in Row
    BY <1>2, ExistsIsRow DEF createsNewRequest
  <2>2. [r EXCEPT !.sel = s] \in Row
    BY <2>1 DEF Row
  <2>3. Requeued([r EXCEPT !.sel = s]) \in Row
    BY <2>2, RequeuedType, ExistsIsRow DEF Held
  <2> QED
    BY <1>2, <2>2, <2>3 DEF Created
<1> QED
  BY <1>1, <1>2

\* A second attempt, and a fresh ask, start with the whole send count to spend.
LEMMA QueuedAgainHasBudget ==
    ASSUME NEW r \in Held, NEW u \in Users, NEW s \in Selections,
           r.status = "queued" => r.sends < MaxSends
    PROVE  /\ Requeued(r).status = "queued" => Requeued(r).sends < MaxSends
           /\ Created(r, u, s).status = "queued" => Created(r, u, s).sends < MaxSends
BY Ranges, ExistsIsRow DEF Requeued, Created, Patch, NewRow, Held, Row, Exists, NoRow,
   createsNewRequest, revivesHeldRequest

-----------------------------------------------------------------------------
(* Types and the send budget.                                              *)

IInv == TypeOK /\ QueuedHasBudget

\* The jobs a process starts with form a queue of jobs, one for each title.
LEMMA TitleQueuesAreQueues ==
    ASSUME NEW S \in SUBSET Titles, NEW q \in TitleQueues(S)
    PROVE  /\ q \in Seq(Job)
           /\ \A t \in S : \E i \in 1 .. Len(q) : q[i] = TitleJob(t)
<1>1. Cardinality(S) \in Nat
  BY RowAssumption, FS_Subset, FS_CardinalityType DEF RowAssumption
<1>2. \A t \in S : TitleJob(t) \in Job
  BY DEF TitleJob, Job
<1>3. q \in [1 .. Cardinality(S) -> Job]
  BY <1>2 DEF TitleQueues
<1>4. q \in Seq(Job) /\ Len(q) = Cardinality(S)
  BY <1>1, <1>3
<1> QED
  BY <1>4 DEF TitleQueues

LEMMA EnqueueType ==
    ASSUME queue \in Seq(Job), NEW t \in Titles, Enqueue(t)
    PROVE  queue' \in Seq(Job)
<1>1. TitleJob(t) \in Job
  BY DEF TitleJob, Job
<1>2. Append(queue, TitleJob(t)) \in Seq(Job)
  BY <1>1
<1> QED
  BY <1>2 DEF Enqueue

LEMMA InitIInv == Init => IInv
<1> SUFFICES ASSUME Init PROVE IInv
  OBVIOUS
<1>1. LegacyRow \in Row
  <2>1. ASSUME NEW r \in Row
        PROVE  [r EXCEPT !.status = "failed", !.age = "old"] \in Row
    BY DEF Row, Statuses
  <2> QED
    BY <2>1, Picks, NewRowType DEF LegacyRow
<1>2. row \in [Titles -> Held]
  BY <1>1 DEF Init, Held
<1>3. NotHeld \in Holding
  BY Picks, Ranges DEF NotHeld, Holding
<1>4. <<>> \in Seq(Job)
  OBVIOUS
<1>5. TypeOK
  BY <1>2, <1>3, <1>4, Ranges DEF Init, TypeOK, Held, Services
<1>6. LegacyRow.status = "failed"
  BY DEF LegacyRow, NewRow
<1>7. QueuedHasBudget
  BY <1>6 DEF Init, QueuedHasBudget, NoRow
<1> QED
  BY <1>5, <1>7 DEF IInv

\* Every action that writes one row keeps the table's type and its budget when
\* the row it writes is typed and, if queued, has a send left.
LEMMA OneRowWritten ==
    ASSUME IInv, NEW t \in Titles, NEW r \in Held,
           row' = [row EXCEPT ![t] = r],
           r.status = "queued" => r.sends < MaxSends
    PROVE  /\ row' \in [Titles -> Held]
           /\ \A x \in Titles : row'[x].status = "queued" => row'[x].sends < MaxSends
BY DEF IInv, TypeOK, QueuedHasBudget, Held

LEMMA StartStep == IInv /\ Start => IInv'
<1> SUFFICES ASSUME IInv, Start PROVE IInv'
  OBVIOUS
<1>1. RowsAtStart \in [Titles -> Held]
  BY RequeuedType DEF RowsAtStart, IInv, TypeOK, Held
<1>2. \A t \in Titles : RowsAtStart[t].status = "queued" => RowsAtStart[t].sends < MaxSends
  <2> SUFFICES ASSUME NEW t \in Titles
               PROVE  RowsAtStart[t].status = "queued" => RowsAtStart[t].sends < MaxSends
    OBVIOUS
  <2>1. row[t] \in Held /\ (row[t].status = "queued" => row[t].sends < MaxSends)
    BY DEF IInv, TypeOK, QueuedHasBudget, Held
  <2> QED
    BY <2>1, Picks, QueuedAgainHasBudget DEF RowsAtStart
<1>3. queue' \in Seq(Job)
  BY TitleQueuesAreQueues DEF Start
<1>4. configured' \in SUBSET Services
  BY WorkerAssumption DEF Start, WorkerAssumption
<1>5. TypeOK'
  BY <1>1, <1>3, <1>4 DEF Start, IInv, TypeOK, Held, arrVars, episodeVars
<1>6. QueuedHasBudget'
  BY <1>2 DEF Start, IInv, QueuedHasBudget
<1> QED
  BY <1>5, <1>6 DEF IInv

LEMMA CrashStep == IInv /\ Crash => IInv'
<1> SUFFICES ASSUME IInv, Crash PROVE IInv'
  OBVIOUS
<1>1. queue' \in Seq(Job)
  BY DEF Crash, MemoryLost
<1>2. withdrawals' \in [Titles -> ArrIds]
  BY Ranges DEF Crash, MemoryLost
<1> QED
  BY <1>1, <1>2 DEF IInv, TypeOK, QueuedHasBudget, Crash, MemoryLost, arrVars, episodeVars

\* The handlers.
LEMMA PostStep ==
    ASSUME IInv, NEW t \in Titles, NEW u \in Users, NEW s \in Selections, Post(t, u, s)
    PROVE  IInv'
<1>1. row[t] \in Held /\ (row[t].status = "queued" => row[t].sends < MaxSends)
  BY DEF IInv, TypeOK, QueuedHasBudget, Held
<1>2. /\ Created(row[t], u, s) \in Held
      /\ Created(row[t], u, s).status = "queued" => Created(row[t], u, s).sends < MaxSends
  BY <1>1, CreatedType, QueuedAgainHasBudget DEF Held
<1>3. row' = [row EXCEPT ![t] = Created(row[t], u, s)]
  BY DEF Post, IInv, TypeOK
<1>4. /\ row' \in [Titles -> Held]
      /\ \A x \in Titles : row'[x].status = "queued" => row'[x].sends < MaxSends
  BY <1>2, <1>3, OneRowWritten
<1>5. queue' \in Seq(Job)
  BY EnqueueType DEF Post, IInv, TypeOK
<1> QED
  BY <1>4, <1>5 DEF Post, IInv, TypeOK, QueuedHasBudget, Held, arrVars, episodeVars

LEMMA RetryStep ==
    ASSUME IInv, NEW t \in Titles, Retry(t)
    PROVE  IInv'
<1>1. row[t] \in Held /\ (row[t].status = "queued" => row[t].sends < MaxSends)
  BY DEF IInv, TypeOK, QueuedHasBudget, Held
<1>2. /\ Requeued(row[t]) \in Held
      /\ Requeued(row[t]).status = "queued" => Requeued(row[t]).sends < MaxSends
  BY <1>1, RequeuedType, QueuedAgainHasBudget, Picks
<1>3. row' = [row EXCEPT ![t] = Requeued(row[t])]
  BY DEF Retry, IInv, TypeOK
<1>4. /\ row' \in [Titles -> Held]
      /\ \A x \in Titles : row'[x].status = "queued" => row'[x].sends < MaxSends
  BY <1>2, <1>3, OneRowWritten
<1>5. queue' \in Seq(Job)
  BY EnqueueType DEF Retry, IInv, TypeOK
<1> QED
  BY <1>4, <1>5 DEF Retry, IInv, TypeOK, QueuedHasBudget, Held, arrVars, episodeVars

\* Withdrawing.
LEMMA WithdrawStep ==
    ASSUME IInv, NEW t \in Titles, Withdrawing(t)
    PROVE  IInv'
<1> USE DEF IInv, TypeOK, QueuedHasBudget, Held, arrVars, memVars, episodeVars
<1>1. ASSUME NEW u \in Users, WithdrawUnsent(t, u)
      PROVE  IInv'
  <2>1. row' = [row EXCEPT ![t] = NoRow]
    BY <1>1 DEF WithdrawUnsent
  <2>2. /\ row' \in [Titles -> Held]
        /\ \A x \in Titles : row'[x].status = "queued" => row'[x].sends < MaxSends
    BY <2>1, OneRowWritten DEF NoRow
  <2> QED
    BY <1>1, <2>2 DEF WithdrawUnsent
<1>2. ASSUME NEW u \in Users, WithdrawAsks(t, u)
      PROVE  IInv'
  <2>1. row[t].arrId \in ArrIds
    BY <1>2, ExistsIsRow DEF WithdrawAsks, MayWithdraw, Row
  <2> QED
    BY <1>2, <2>1 DEF WithdrawAsks
<1>3. \A id \in ArrIds : Unmonitored(t, id) \in [Titles -> Holding]
  BY DEF Unmonitored, Holding
<1>4. ASSUME WithdrawDone(t)
      PROVE  IInv'
  <2>1. row' = [row EXCEPT ![t] = NoRow]
    BY <1>4 DEF WithdrawDone
  <2>2. /\ row' \in [Titles -> Held]
        /\ \A x \in Titles : row'[x].status = "queued" => row'[x].sends < MaxSends
    BY <2>1, OneRowWritten DEF NoRow
  <2> QED
    BY <1>3, <1>4, <2>2, Ranges DEF WithdrawDone
<1>5. ASSUME WithdrawFails(t)
      PROVE  IInv'
  BY <1>3, <1>5, Ranges DEF WithdrawFails
<1> QED
  BY <1>1, <1>2, <1>4, <1>5 DEF Withdrawing

\* The worker takes a job.
LEMMA TakesStep ==
    ASSUME IInv, NEW t \in Titles, WorkerTakes(t)
    PROVE  IInv'
<1> USE DEF IInv, TypeOK, QueuedHasBudget, Held, arrVars, episodeVars
<1>1. ASSUME queue # <<>>
      PROVE  Tail(queue) \in Seq(Job)
  BY <1>1
<1>2. CASE DropJob(t)
  BY <1>1, <1>2 DEF DropJob, TakesTitle
<1>3. CASE NotDue(t)
  BY <1>1, <1>3 DEF NotDue, TakesTitle
<1>4. CASE FailUnconfigured(t)
  <2>1. row[t] \in Row
    BY <1>4, ExistsIsRow DEF FailUnconfigured, Due, Exists
  <2>2. [row[t] EXCEPT !.status = "failed", !.retry = "none"] \in Row
    BY <2>1 DEF Row, Statuses
  <2>3. row' = [row EXCEPT ![t] = [row[t] EXCEPT !.status = "failed", !.retry = "none"]]
    BY <1>4 DEF FailUnconfigured
  <2>4. [row[t] EXCEPT !.status = "failed", !.retry = "none"].status # "queued"
    BY <2>1 DEF Row
  <2>5. /\ row' \in [Titles -> Held]
        /\ \A x \in Titles : row'[x].status = "queued" => row'[x].sends < MaxSends
    BY <2>2, <2>3, <2>4, OneRowWritten
  <2> QED
    BY <1>1, <1>4, <2>5 DEF FailUnconfigured, Due, TakesTitle
<1>5. CASE SendAdd(t)
  <2>1. row[t] \in Row /\ row[t].sends < MaxSends
    BY <1>5, ExistsIsRow DEF SendAdd, Due, Exists
  <2>2. flight' \in Flight /\ flight'.sends < MaxSends
    BY <1>5, <2>1, Ranges DEF SendAdd, Flight, Row
  <2> QED
    BY <1>1, <1>5, <2>2 DEF SendAdd, Due, TakesTitle
<1>6. CASE TakeEpisodes(t)
  <2>1. flight' \in Flight \cup {NoFlight} /\ (flight' # NoFlight => flight'.sends < MaxSends)
    BY <1>6, Picks, Ranges DEF TakeEpisodes, Flight, NotHeld
  <2> QED
    BY <1>1, <1>6, <2>1 DEF TakeEpisodes
<1> QED
  BY <1>2, <1>3, <1>4, <1>5, <1>6 DEF WorkerTakes

\* The arr creates a library row while the add is awaited.
LEMMA AcceptStep ==
    ASSUME IInv, NEW t \in Titles, ArrAccepts(t)
    PROVE  IInv'
<1> USE DEF IInv, TypeOK, QueuedHasBudget, Held, episodeVars
<1> DEFINE id == lastId[Service(t)] + 1
<1>1. id \in ArrIds /\ Service(t) \in Services
  BY RowAssumption DEF ArrAccepts, ArrIds, Service, Services, RowAssumption
<1>2. flight \in Flight
  BY DEF ArrAccepts, InFlight
<1>3. arr' \in [Titles -> Holding]
  BY <1>1, <1>2 DEF ArrAccepts, Holding, Flight
<1>4. flight' \in Flight /\ flight'.sends = flight.sends
  BY <1>1, <1>2 DEF ArrAccepts, Flight
<1>5. lastId' \in [Services -> ArrIds] /\ ourIds' \in [Titles -> SUBSET ArrIds]
  BY <1>1 DEF ArrAccepts
<1>6. flight' # NoFlight => flight'.sends < MaxSends
  BY <1>2, <1>4 DEF ArrAccepts, InFlight
<1> QED
  BY <1>3, <1>4, <1>5, <1>6 DEF ArrAccepts

\* What an answer writes: a queued row is due for another send it may make.
LEMMA AnswerWrites ==
    ASSUME NEW r \in Held, NEW id \in ArrIds, NEW n \in 0 .. MaxSends
    PROVE  LET added == Patch(r, [r EXCEPT !.status = "sent", !.arrId = id, !.retry = "none"])
               already == Patch(r, [r EXCEPT !.status = "sent", !.retry = "none"])
               busy == Patch(r, [r EXCEPT !.status = "queued", !.retry = "future", !.sends = n])
               failed == Failed(r, n)
           IN /\ added \in Held /\ added.status # "queued"
              /\ already \in Held /\ already.status # "queued"
              /\ busy \in Held /\ (busy.status = "queued" => busy.sends = n)
              /\ failed \in Held /\ failed.status # "queued"
<1>1. CASE Exists(r)
  <2>1. r \in Row
    BY <1>1, ExistsIsRow
  <2>2. LET added == [r EXCEPT !.status = "sent", !.arrId = id, !.retry = "none"]
        IN added \in Row /\ added.status = "sent"
    BY <2>1 DEF Row, Statuses
  <2>3. LET already == [r EXCEPT !.status = "sent", !.retry = "none"]
        IN already \in Row /\ already.status = "sent"
    BY <2>1 DEF Row, Statuses
  <2>4. LET busy == [r EXCEPT !.status = "queued", !.retry = "future", !.sends = n]
        IN busy \in Row /\ busy.sends = n
    BY <2>1 DEF Row, Statuses
  <2>5. LET failed == [r EXCEPT !.status = "failed", !.sends = n, !.retry = "none"]
        IN failed \in Row /\ failed.status = "failed"
    BY <2>1 DEF Row, Statuses
  <2> QED
    BY <1>1, <2>2, <2>3, <2>4, <2>5 DEF Patch, Failed, Held
<1>2. CASE ~Exists(r)
  <2>1. r = NoRow
    BY <1>2, ExistsIsRow DEF Held
  <2> QED
    BY <1>2, <2>1 DEF Patch, Failed, Held, NoRow
<1> QED
  BY <1>1, <1>2

LEMMA AnswerStep ==
    ASSUME IInv, NEW t \in Titles,
           \/ AnswerAdded(t) \/ AnswerAlready(t) \/ AnswerBusy(t) \/ GiveUp(t)
           \/ AnswerRefused(t)
    PROVE  IInv'
<1>1. /\ row[t] \in Held
      /\ flight \in Flight
      /\ flight.id \in ArrIds
      /\ flight.sends + 1 \in 0 .. MaxSends
  <2>1. flight \in Flight /\ flight.sends < MaxSends
    BY DEF AnswerAdded, AnswerAlready, AnswerBusy, GiveUp, AnswerRefused, Answered,
       InFlight, IInv, TypeOK, QueuedHasBudget
  <2> QED
    BY <2>1, Ranges DEF Flight, IInv, TypeOK, Held
<1>2. \E r \in Held :
         /\ row' = [row EXCEPT ![t] = r]
         /\ r.status = "queued" => r.sends < MaxSends
  <2>1. CASE AnswerAdded(t)
    BY <1>1, <2>1, AnswerWrites DEF AnswerAdded
  <2>2. CASE AnswerAlready(t)
    BY <1>1, <2>2, AnswerWrites DEF AnswerAlready
  <2>3. CASE AnswerBusy(t)
    BY <1>1, <2>3, AnswerWrites DEF AnswerBusy
  <2>4. CASE GiveUp(t)
    BY <1>1, <2>4, AnswerWrites DEF GiveUp
  <2>5. CASE AnswerRefused(t)
    BY <1>1, <2>5, AnswerWrites DEF AnswerRefused
  <2> QED
    BY <2>1, <2>2, <2>3, <2>4, <2>5
<1>3. /\ row' \in [Titles -> Held]
      /\ \A x \in Titles : row'[x].status = "queued" => row'[x].sends < MaxSends
  <2>1. PICK r \in Held :
           /\ row' = [row EXCEPT ![t] = r]
           /\ r.status = "queued" => r.sends < MaxSends
    BY <1>2
  <2> QED
    BY <2>1, OneRowWritten
<1>4. timers' \in SUBSET Titles
  BY DEF AnswerAdded, AnswerAlready, AnswerBusy, GiveUp, AnswerRefused, IInv, TypeOK
<1>5. Answered(t)
  BY DEF AnswerAdded, AnswerAlready, AnswerBusy, GiveUp, AnswerRefused
<1> QED
  BY <1>3, <1>4, <1>5 DEF Answered, IInv, TypeOK, QueuedHasBudget, Held, arrVars, episodeVars

LEMMA EpisodeStep ==
    ASSUME IInv, NEW t \in Titles,
           EpisodesMonitored(t) \/ EpisodesSearched(t) \/ EpisodesFail(t)
    PROVE  IInv'
<1> USE DEF IInv, TypeOK, QueuedHasBudget, arrVars
<1>1. flight \in Flight
  BY DEF EpisodesMonitored, EpisodesSearched, EpisodesFail, EpisodeStage
<1>2. CASE EpisodesMonitored(t)
  <2>1. flight' \in Flight /\ flight'.sends = flight.sends
    BY <1>1, <1>2 DEF EpisodesMonitored, Flight
  <2>2. episodes' \in [Titles -> {"none", "monitored", "searched"}]
    BY <1>2 DEF EpisodesMonitored
  <2> QED
    BY <1>2, <2>1, <2>2 DEF EpisodesMonitored, EpisodeStage
<1>3. CASE EpisodesSearched(t)
  <2>1. episodes' \in [Titles -> {"none", "monitored", "searched"}]
    BY <1>3 DEF EpisodesSearched
  <2> QED
    BY <1>3, <2>1 DEF EpisodesSearched, EpisodeStage
<1>4. CASE EpisodesFail(t)
  <2>1. episodes' \in [Titles -> {"none", "monitored", "searched"}]
    BY <1>4 DEF EpisodesFail
  <2> QED
    BY <1>4, <2>1 DEF EpisodesFail, EpisodeStage
<1> QED
  BY <1>2, <1>3, <1>4

\* Time, other people's hands, and episode jobs.
LEMMA OutsideStep ==
    ASSUME IInv, NEW t \in Titles,
           \/ AskEpisodes(t) \/ RetryTimePasses(t) \/ TimerFires(t) \/ ByHand(t)
           \/ Midnight
    PROVE  IInv'
<1> USE DEF IInv, TypeOK, QueuedHasBudget, Held, arrVars, memVars, episodeVars
<1>1. CASE AskEpisodes(t)
  <2>1. EpisodeJob(t) \in Job
    BY DEF EpisodeJob, Job
  <2>2. queue' \in Seq(Job)
    BY <1>1, <2>1 DEF AskEpisodes
  <2> QED
    BY <1>1, <2>2 DEF AskEpisodes
<1>2. CASE RetryTimePasses(t)
  <2>1. row[t] \in Row
    BY <1>2 DEF RetryTimePasses, NoRow
  <2>2. [row[t] EXCEPT !.retry = "past"] \in Held
    BY <2>1 DEF Row
  <2>3. row' = [row EXCEPT ![t] = [row[t] EXCEPT !.retry = "past"]]
    BY <1>2 DEF RetryTimePasses
  <2>4. LET r == [row[t] EXCEPT !.retry = "past"]
        IN r.status = "queued" => r.sends < MaxSends
    BY <2>1 DEF Row
  <2>5. /\ row' \in [Titles -> Held]
        /\ \A x \in Titles : row'[x].status = "queued" => row'[x].sends < MaxSends
    BY <2>2, <2>3, <2>4, OneRowWritten
  <2> QED
    BY <1>2, <2>5 DEF RetryTimePasses
<1>3. CASE TimerFires(t)
  <2>1. queue' \in Seq(Job)
    BY <1>3, EnqueueType DEF TimerFires
  <2> QED
    BY <1>3, <2>1 DEF TimerFires
<1>4. CASE ByHand(t)
  <2>1. Service(t) \in Services /\ NotHeld \in Holding
    BY Picks, Ranges DEF Service, Services, NotHeld, Holding
  <2>2. CASE AddedByHand(t)
    <3>1. lastId[Service(t)] + 1 \in ArrIds
      BY <2>1, <2>2, RowAssumption DEF AddedByHand, ArrIds, RowAssumption
    <3>2. lastId' = [lastId EXCEPT ![Service(t)] = lastId[Service(t)] + 1]
      BY <2>2 DEF AddedByHand
    <3>3. lastId' \in [Services -> ArrIds] /\ lastId'[Service(t)] \in ArrIds
      BY <2>1, <3>1, <3>2
    <3>4. arr' \in [Titles -> Holding]
      BY <2>1, <2>2, <3>3 DEF AddedByHand, Holding
    <3> QED
      BY <2>2, <3>3, <3>4 DEF AddedByHand
  <2>3. CASE DeletedByHand(t)
    BY <2>1, <2>3 DEF DeletedByHand
  <2> QED
    BY <1>4, <2>2, <2>3 DEF ByHand
<1>5. CASE Midnight
  <2>1. ASSUME NEW x \in Titles, Exists(row[x])
        PROVE  [row[x] EXCEPT !.age = "past"] \in Row
    <3>1. row[x] \in Row
      BY <2>1, ExistsIsRow
    <3> QED
      BY <3>1 DEF Row
  <2>2. row' \in [Titles -> Held]
    BY <1>5, <2>1 DEF Midnight
  <2>3. \A x \in Titles : /\ row'[x].status = row[x].status
                          /\ row'[x].sends = row[x].sends
    BY <1>5, ExistsIsRow DEF Midnight, Row
  <2> QED
    BY <1>5, <2>2, <2>3 DEF Midnight
<1> QED
  BY <1>1, <1>2, <1>3, <1>4, <1>5

\* Every step keeps the invariant.
LEMMA NextIInv == IInv /\ [Next]_workerVars => IInv'
<1> SUFFICES ASSUME IInv, [Next]_workerVars PROVE IInv'
  OBVIOUS
<1>1. CASE UNCHANGED workerVars
  BY <1>1 DEF workerVars, memVars, arrVars, episodeVars, IInv, TypeOK, QueuedHasBudget
<1>2. CASE Start
  BY <1>2, StartStep
<1>3. CASE Crash
  BY <1>3, CrashStep
<1>4. CASE Midnight
  <2>1. PICK t \in Titles : Exists(row[t])
    BY <1>4 DEF Midnight
  <2> QED
    BY <1>4, <2>1, OutsideStep
<1>5. ASSUME NEW t \in Titles, NEW u \in Users, NEW s \in Selections,
             Post(t, u, s) \/ AgentPost(t, u, s)
      PROVE  IInv'
  BY <1>5, PostStep DEF AgentPost
<1>6. ASSUME NEW t \in Titles,
             \/ Retry(t) \/ Withdrawing(t) \/ AskEpisodes(t) \/ WorkerTakes(t)
             \/ ArrAccepts(t) \/ WorkerHears(t) \/ RetryTimePasses(t)
             \/ TimerFires(t) \/ ByHand(t)
      PROVE  IInv'
  BY <1>6, RetryStep, WithdrawStep, TakesStep, AcceptStep, AnswerStep, EpisodeStep,
     OutsideStep DEF WorkerHears
<1> QED
  BY <1>1, <1>2, <1>3, <1>4, <1>5, <1>6 DEF Next

\* Every variable keeps its type, whatever the instance: no answer counts a
\* send beyond MAX_SEND_ATTEMPTS and no arr id is out of range.
THEOREM TypeCorrect == Spec => []TypeOK
<1>1. IInv => TypeOK
  BY DEF IInv
<1> QED
  BY InitIInv, NextIInv, <1>1, PTL DEF Spec

\* A queued row, and an add in flight, always have a send left, so the worker
\* never sends for a row whose budget is spent.
THEOREM BudgetLeft == Spec => []QueuedHasBudget
<1>1. IInv => QueuedHasBudget
  BY DEF IInv
<1> QED
  BY InitIInv, NextIInv, <1>1, PTL DEF Spec

-----------------------------------------------------------------------------
(* No queued row is lost.                                                  *)

LEMMA JobsDiffer ==
    ASSUME NEW t \in Titles, NEW x \in Titles
    PROVE  /\ TitleJob(t) = TitleJob(x) <=> t = x
           /\ EpisodeJob(t) # TitleJob(x)
BY DEF TitleJob, EpisodeJob

\* Pushing a job takes nobody's place.
LEMMA AppendWaits ==
    ASSUME queue \in Seq(Job), NEW x \in Titles, NEW j \in Job, queue' = Append(queue, j)
    PROVE  (Waiting(x) => Waiting(x)') /\ (j = TitleJob(x) => Waiting(x)')
<1>1. /\ Len(queue') = Len(queue) + 1
      /\ Len(queue) \in Nat
      /\ queue'[Len(queue) + 1] = j
      /\ \A i \in 1 .. Len(queue) : queue'[i] = queue[i]
  OBVIOUS
<1>2. Len(queue) + 1 \in 1 .. Len(queue') /\ 1 .. Len(queue) \subseteq 1 .. Len(queue')
  BY <1>1
<1> QED
  BY <1>1, <1>2 DEF Waiting

\* Taking the head of the queue takes only the place of that job.
LEMMA TailWaits ==
    ASSUME queue \in Seq(Job), NEW x \in Titles, queue # <<>>, queue' = Tail(queue),
           Head(queue) # TitleJob(x), Waiting(x)
    PROVE  Waiting(x)'
<1>1. PICK i \in 1 .. Len(queue) : queue[i] = TitleJob(x)
  BY DEF Waiting
<1>2. i # 1
  BY <1>1
<1>3. i - 1 \in 1 .. Len(queue') /\ queue'[i - 1] = queue[i]
  BY <1>1, <1>2
<1> QED
  BY <1>1, <1>3 DEF Waiting

LEMMA EnqueueWaits ==
    ASSUME queue \in Seq(Job), NEW t \in Titles, Enqueue(t), NEW x \in Titles
    PROVE  Waiting(t)' /\ (Waiting(x) => Waiting(x)')
<1>1. TitleJob(t) \in Job
  BY DEF TitleJob, Job
<1>2. CASE Waiting(t)
  BY <1>2 DEF Enqueue, Waiting
<1>3. CASE ~Waiting(t)
  BY <1>1, <1>3, AppendWaits DEF Enqueue
<1> QED
  BY <1>2, <1>3

Owed(x) == row[x].status = "queued" => Waiting(x) \/ x \in timers \/ InFlight(x)

\* Nothing an action leaves alone stops being owed.
LEMMA OwedStutter ==
    ASSUME NEW x \in Titles, Owed(x), UNCHANGED <<queue, timers, flight>>,
           row'[x].status = "queued" => row[x].status = "queued"
    PROVE  Owed(x)'
BY DEF Owed, Waiting, InFlight

LEMMA OwedStart ==
    ASSUME IInv, Start, NEW x \in Titles
    PROVE  Owed(x)'
<1> DEFINE S == {t \in Titles : row'[t].status = "queued"} \ timers'
<1>1. \A t \in S : \E i \in 1 .. Len(queue') : queue'[i] = TitleJob(t)
  <2>1. queue' \in TitleQueues(S)
    BY DEF Start
  <2>2. S \in SUBSET Titles
    OBVIOUS
  <2> QED
    BY <2>1, <2>2, TitleQueuesAreQueues
<1> QED
  BY <1>1 DEF Owed, Waiting

\* A handler that queues a row pushes its job; no other row changes.
LEMMA OwedHandlers ==
    ASSUME IInv, NEW t \in Titles, NEW x \in Titles, Owed(x),
           \/ \E u \in Users, s \in Selections : Post(t, u, s) \/ AgentPost(t, u, s)
           \/ Retry(t)
    PROVE  Owed(x)'
<1>1. Enqueue(t) /\ timers' = timers /\ flight' = flight
  BY DEF Post, AgentPost, Retry
<1>2. x # t => row'[x] = row[x]
  BY DEF Post, AgentPost, Retry, IInv, TypeOK
<1>3. Waiting(t)' /\ (Waiting(x) => Waiting(x)')
  BY <1>1, EnqueueWaits DEF IInv, TypeOK
<1> QED
  BY <1>1, <1>2, <1>3 DEF Owed, InFlight

LEMMA OwedWithdraw ==
    ASSUME IInv, NEW t \in Titles, NEW x \in Titles, Owed(x), Withdrawing(t)
    PROVE  Owed(x)'
<1>1. UNCHANGED <<queue, timers, flight>>
  BY DEF Withdrawing, WithdrawUnsent, WithdrawAsks, WithdrawDone, WithdrawFails, memVars
<1>2. row'[x] = row[x] \/ row'[x] = NoRow
  BY DEF Withdrawing, WithdrawUnsent, WithdrawAsks, WithdrawDone, WithdrawFails, IInv, TypeOK
<1> QED
  BY <1>1, <1>2, OwedStutter DEF NoRow

\* A job leaves the queue only for a row that is not queued, for an armed timer
\* or for the flight.
LEMMA OwedTakes ==
    ASSUME IInv, NEW t \in Titles, NEW x \in Titles, Owed(x), WorkerTakes(t)
    PROVE  Owed(x)'
<1> USE DEF IInv, TypeOK
<1>1. /\ queue # <<>> /\ queue' = Tail(queue) /\ flight = NoFlight
      /\ Head(queue) \in {TitleJob(t), EpisodeJob(t)}
  BY DEF WorkerTakes, DropJob, NotDue, FailUnconfigured, SendAdd, TakeEpisodes, Due, TakesTitle
<1>2. Head(queue) # TitleJob(x) /\ Waiting(x) => Waiting(x)'
  BY <1>1, TailWaits
<1>3. ~InFlight(x)
  BY <1>1 DEF InFlight
<1>4. CASE TakeEpisodes(t)
  <2>1. Head(queue) # TitleJob(x)
    BY <1>4, JobsDiffer DEF TakeEpisodes
  <2> QED
    BY <1>2, <1>3, <1>4, <2>1 DEF Owed, TakeEpisodes
<1>5. CASE TakesTitle(t) /\ x # t /\ ~TakeEpisodes(t)
  <2>1. Head(queue) # TitleJob(x)
    BY <1>5, JobsDiffer DEF TakesTitle
  <2>2. row'[x] = row[x] /\ (x \in timers => x \in timers')
    BY <1>5 DEF WorkerTakes, DropJob, NotDue, FailUnconfigured, SendAdd, Due
  <2> QED
    BY <1>2, <1>3, <2>1, <2>2 DEF Owed
<1>6. CASE x = t /\ DropJob(t)
  BY <1>6 DEF Owed, DropJob
<1>7. CASE x = t /\ NotDue(t)
  BY <1>7 DEF Owed, NotDue
<1>8. CASE x = t /\ FailUnconfigured(t)
  <2>1. row[t] \in Row
    BY <1>8, ExistsIsRow DEF FailUnconfigured, Due, Exists, Held
  <2>2. row'[t].status = "failed"
    BY <1>8, <2>1 DEF FailUnconfigured, Row
  <2> QED
    BY <1>8, <2>2 DEF Owed
<1>9. CASE x = t /\ SendAdd(t)
  <2>1. flight'.kind = "title" /\ flight'.tconst = t
    BY <1>9 DEF SendAdd
  <2>2. InFlight(t)'
    BY <2>1 DEF InFlight, NoFlight
  <2> QED
    BY <1>9, <2>2 DEF Owed
<1> QED
  BY <1>4, <1>5, <1>6, <1>7, <1>8, <1>9
     DEF WorkerTakes, DropJob, NotDue, FailUnconfigured, SendAdd, Due

\* An answer ends the flight: the row it was for is settled, or has its timer.
LEMMA OwedAnswer ==
    ASSUME IInv, NEW t \in Titles, NEW x \in Titles, Owed(x),
           \/ AnswerAdded(t) \/ AnswerAlready(t) \/ AnswerBusy(t) \/ GiveUp(t)
           \/ AnswerRefused(t)
    PROVE  Owed(x)'
<1>1. /\ Answered(t) /\ timers \subseteq timers'
      /\ x # t => row'[x] = row[x]
  BY DEF AnswerAdded, AnswerAlready, AnswerBusy, GiveUp, AnswerRefused, IInv, TypeOK
<1>2. CASE x # t
  <2>1. ~InFlight(x)
    BY <1>1, <1>2 DEF Answered, InFlight
  <2> QED
    BY <1>1, <1>2, <2>1 DEF Owed, Waiting, Answered
<1>3. CASE x = t /\ AnswerBusy(t)
  BY <1>3 DEF Owed, AnswerBusy
<1>4. CASE x = t /\ ~AnswerBusy(t)
  <2>1. /\ row[t] \in Held /\ flight \in Flight /\ flight.id \in ArrIds
        /\ flight.sends + 1 \in 0 .. MaxSends
    BY <1>1, Ranges
       DEF Answered, InFlight, Flight, IInv, TypeOK, QueuedHasBudget, Held
  <2>2. row'[t].status # "queued"
    <3>1. CASE AnswerAdded(t)
      BY <2>1, <3>1, AnswerWrites DEF AnswerAdded, IInv, TypeOK
    <3>2. CASE AnswerAlready(t)
      BY <2>1, <3>2, AnswerWrites DEF AnswerAlready, IInv, TypeOK
    <3>3. CASE GiveUp(t)
      BY <2>1, <3>3, AnswerWrites DEF GiveUp, IInv, TypeOK
    <3>4. CASE AnswerRefused(t)
      BY <2>1, <3>4, AnswerWrites DEF AnswerRefused, IInv, TypeOK
    <3> QED
      BY <1>4, <3>1, <3>2, <3>3, <3>4
  <2> QED
    BY <1>4, <2>2 DEF Owed
<1> QED
  BY <1>2, <1>3, <1>4

\* What is left: the arr, the episode jobs, time, and hands on the arr.
LEMMA OwedOutside ==
    ASSUME IInv, NEW t \in Titles, NEW x \in Titles, Owed(x),
           \/ ArrAccepts(t)
           \/ EpisodesMonitored(t) \/ EpisodesSearched(t) \/ EpisodesFail(t)
           \/ AskEpisodes(t) \/ RetryTimePasses(t) \/ TimerFires(t) \/ ByHand(t)
           \/ Midnight
    PROVE  Owed(x)'
<1>1. CASE ArrAccepts(t)
  <2>1. flight \in Flight /\ flight.kind = "title" /\ flight.tconst = t
    BY <1>1 DEF ArrAccepts, InFlight, IInv, TypeOK
  <2>2. flight'.kind = "title" /\ flight'.tconst = t /\ flight' # NoFlight
    BY <1>1, <2>1 DEF ArrAccepts, Flight, NoFlight
  <2> QED
    BY <1>1, <2>1, <2>2 DEF Owed, Waiting, InFlight, ArrAccepts
<1>2. CASE EpisodesMonitored(t) \/ EpisodesSearched(t) \/ EpisodesFail(t)
  <2>1. ~InFlight(x) /\ UNCHANGED <<row, queue, timers>>
    BY <1>2 DEF EpisodesMonitored, EpisodesSearched, EpisodesFail, EpisodeStage, InFlight
  <2> QED
    BY <2>1 DEF Owed, Waiting
<1>3. CASE AskEpisodes(t)
  <2>1. EpisodeJob(t) \in Job
    BY DEF EpisodeJob, Job
  <2>2. Waiting(x) => Waiting(x)'
    BY <1>3, <2>1, AppendWaits DEF AskEpisodes, IInv, TypeOK
  <2> QED
    BY <1>3, <2>2 DEF Owed, InFlight, AskEpisodes
<1>4. CASE RetryTimePasses(t)
  <2>1. row'[x].status = row[x].status
    <3>1. row[t] \in Row
      BY <1>4 DEF RetryTimePasses, NoRow, IInv, TypeOK
    <3>2. [row[t] EXCEPT !.retry = "past"].status = row[t].status
      BY <3>1 DEF Row
    <3> QED
      BY <1>4, <3>2 DEF RetryTimePasses, IInv, TypeOK
  <2> QED
    BY <1>4, <2>1, OwedStutter DEF RetryTimePasses, memVars
<1>5. CASE TimerFires(t)
  <2>1. Waiting(t)' /\ (Waiting(x) => Waiting(x)')
    BY <1>5, EnqueueWaits DEF TimerFires, IInv, TypeOK
  <2> QED
    BY <1>5, <2>1 DEF Owed, InFlight, TimerFires
<1>6. CASE ByHand(t)
  BY <1>6, OwedStutter DEF ByHand, AddedByHand, DeletedByHand, memVars
<1>7. CASE Midnight
  <2>1. row'[x].status = row[x].status
    BY <1>7, ExistsIsRow DEF Midnight, Row, IInv, TypeOK, Held
  <2> QED
    BY <1>7, <2>1, OwedStutter DEF Midnight, memVars
<1> QED
  BY <1>1, <1>2, <1>3, <1>4, <1>5, <1>6, <1>7

LEMMA NextOwed == IInv /\ OwedToWorker /\ [Next]_workerVars => OwedToWorker'
<1> SUFFICES ASSUME IInv, OwedToWorker, [Next]_workerVars, up', NEW x \in Titles
             PROVE  Owed(x)'
  BY DEF OwedToWorker, Owed
<1>1. CASE Start
  BY <1>1, OwedStart
<1>2. CASE ~Start
  <2>1. ~Crash
    BY DEF Crash, MemoryLost
  <2>2. up
    BY <1>2, <2>1
       DEF Next, workerVars, Midnight, Post, AgentPost, Retry, Withdrawing, WithdrawUnsent,
           WithdrawAsks, WithdrawDone, WithdrawFails, AskEpisodes, WorkerTakes, DropJob,
           NotDue, FailUnconfigured, SendAdd, Due, TakesTitle, TakeEpisodes, ArrAccepts,
           WorkerHears, AnswerAdded, AnswerAlready, AnswerBusy, GiveUp, AnswerRefused,
           Answered, EpisodesMonitored, EpisodesSearched, EpisodesFail, EpisodeStage,
           RetryTimePasses, TimerFires, ByHand, AddedByHand, DeletedByHand
  <2>3. Owed(x)
    BY <2>2 DEF OwedToWorker, Owed
  <2>4. CASE UNCHANGED workerVars
    BY <2>3, <2>4, OwedStutter DEF workerVars, memVars
  <2>5. CASE Next
    BY <1>2, <2>1, <2>3, <2>5, OwedHandlers, OwedWithdraw, OwedTakes, OwedAnswer,
       OwedOutside DEF Next, WorkerHears
  <2> QED
    BY <2>4, <2>5
<1> QED
  BY <1>1, <1>2

\* No ask is lost: in every running process each `queued` row is in the queue,
\* has an armed timer, or is the add being awaited, across crashes, retries,
\* withdrawals and the timers that fire meanwhile.
THEOREM NoAskLost == Spec => []OwedToWorker
<1>1. Init => OwedToWorker
  BY DEF Init, OwedToWorker
<1> QED
  BY InitIInv, NextIInv, NextOwed, <1>1, PTL DEF Spec

-----------------------------------------------------------------------------
(* The arr ids finderr may act on.                                         *)

\* The id an add was given, from the moment it lands until it is written.
LandedIsOurs ==
    (flight # NoFlight /\ flight.stage = "landed") => flight.id \in ourIds[flight.tconst]

IdInv == IInv /\ ArrIdIsOurs /\ LandedIsOurs

LEMMA RowIdsKept ==
    ASSUME NEW r \in Held, NEW u \in Users, NEW s \in Selections
    PROVE  /\ Requeued(r).arrId = r.arrId
           /\ Created(r, u, s).arrId \in {NoId, r.arrId}
BY ExistsIsRow DEF Requeued, Created, Patch, NewRow, Held, Row, Exists, NoRow,
   createsNewRequest, revivesHeldRequest

\* Where an id on a row comes from: it was there, or the landed add brought it.
LEMMA WhereIdsComeFrom ==
    ASSUME IInv, Next, NEW x \in Titles
    PROVE  \/ row'[x].arrId \in {NoId, row[x].arrId}
           \/ InFlight(x) /\ flight.stage = "landed" /\ row'[x].arrId = flight.id
<1> DEFINE Kept == row'[x].arrId \in {NoId, row[x].arrId}
<1>0. row \in [Titles -> Held]
  BY DEF IInv, TypeOK, Held
<1>1. ASSUME row' = row PROVE Kept
  BY <1>1
<1>2. CASE Start
  BY <1>0, <1>2, RowIdsKept, Picks DEF Start, RowsAtStart
<1>3. CASE Midnight
  BY <1>0, <1>3, ExistsIsRow DEF Midnight, Row
<1>4. ASSUME NEW t \in Titles, NEW u \in Users, NEW s \in Selections,
             Post(t, u, s) \/ AgentPost(t, u, s)
      PROVE  Kept
  BY <1>0, <1>4, RowIdsKept DEF Post, AgentPost
<1>5. ASSUME NEW t \in Titles, Retry(t)
      PROVE  Kept
  BY <1>0, <1>5, RowIdsKept, Picks DEF Retry
<1>6. ASSUME NEW t \in Titles, Withdrawing(t)
      PROVE  Kept
  BY <1>0, <1>6 DEF Withdrawing, WithdrawUnsent, WithdrawAsks, WithdrawDone, WithdrawFails,
     NoRow
<1>7. ASSUME NEW t \in Titles, FailUnconfigured(t)
      PROVE  Kept
  BY <1>0, <1>7, ExistsIsRow DEF FailUnconfigured, Due, Exists, Row
<1>8. ASSUME NEW t \in Titles, RetryTimePasses(t)
      PROVE  Kept
  BY <1>0, <1>8 DEF RetryTimePasses, Held, Row, NoRow
<1>9. ASSUME NEW t \in Titles, AnswerAlready(t) \/ AnswerBusy(t) \/ GiveUp(t) \/ AnswerRefused(t)
      PROVE  Kept
  <2> DEFINE n == flight.sends + 1
  <2>1. row[t] \in Held
    BY <1>0
  <2>2. /\ Patch(row[t], [row[t] EXCEPT !.status = "sent", !.retry = "none"]).arrId = row[t].arrId
        /\ Patch(row[t], [row[t] EXCEPT !.status = "queued", !.retry = "future", !.sends = n]).arrId
              = row[t].arrId
        /\ Failed(row[t], n).arrId = row[t].arrId
    BY <2>1, ExistsIsRow DEF Failed, Patch, Row
  <2>3. CASE x # t
    BY <1>0, <1>9, <2>3 DEF AnswerAlready, AnswerBusy, GiveUp, AnswerRefused
  <2>4. CASE x = t /\ AnswerAlready(t)
    BY <1>0, <2>2, <2>4 DEF AnswerAlready
  <2>5. CASE x = t /\ AnswerBusy(t)
    BY <1>0, <2>2, <2>5 DEF AnswerBusy
  <2>6. CASE x = t /\ (GiveUp(t) \/ AnswerRefused(t))
    BY <1>0, <2>2, <2>6 DEF GiveUp, AnswerRefused
  <2> QED
    BY <1>9, <2>3, <2>4, <2>5, <2>6
<1>10. ASSUME NEW t \in Titles, AnswerAdded(t)
       PROVE  Kept \/ (InFlight(x) /\ flight.stage = "landed" /\ row'[x].arrId = flight.id)
  BY <1>0, <1>10, ExistsIsRow DEF AnswerAdded, Answered, Patch, Row
<1>11. ASSUME NEW t \in Titles,
              \/ DropJob(t) \/ NotDue(t) \/ SendAdd(t) \/ TakeEpisodes(t)
              \/ ArrAccepts(t) \/ AskEpisodes(t) \/ TimerFires(t) \/ ByHand(t)
              \/ EpisodesMonitored(t) \/ EpisodesSearched(t) \/ EpisodesFail(t) \/ Crash
       PROVE  row' = row
  BY <1>11 DEF DropJob, NotDue, SendAdd, TakeEpisodes, ArrAccepts, AskEpisodes, TimerFires,
     ByHand, AddedByHand, DeletedByHand, EpisodesMonitored, EpisodesSearched, EpisodesFail,
     EpisodeStage, Crash, MemoryLost
<1> QED
  BY <1>1, <1>2, <1>3, <1>4, <1>5, <1>6, <1>7, <1>8, <1>9, <1>10, <1>11
     DEF Next, WorkerTakes, WorkerHears

LEMMA InitIds == Init => IdInv
<1> SUFFICES ASSUME Init PROVE IdInv
  OBVIOUS
<1>1. LegacyRow.arrId = NoId
  BY DEF LegacyRow, NewRow
<1> QED
  BY <1>1, InitIInv DEF Init, IdInv, ArrIdIsOurs, LandedIsOurs, NoRow

\* Ids on record are never forgotten, and an add lands with an id just recorded.
LEMMA OurIdsGrow ==
    ASSUME IInv, LandedIsOurs, Next
    PROVE  /\ \A x \in Titles : ourIds[x] \subseteq ourIds'[x]
           /\ LandedIsOurs'
<1>0. flight \in Flight \cup {NoFlight} /\ ourIds \in [Titles -> SUBSET ArrIds]
  BY DEF IInv, TypeOK
<1>1. ASSUME NEW t \in Titles, ArrAccepts(t)
      PROVE  (\A x \in Titles : ourIds[x] \subseteq ourIds'[x]) /\ LandedIsOurs'
  <2>1. flight \in Flight /\ flight.tconst = t
    BY <1>0, <1>1 DEF ArrAccepts, InFlight
  <2>2. flight'.tconst = t /\ flight'.id = lastId[Service(t)] + 1
    BY <1>1, <2>1 DEF ArrAccepts, Flight
  <2> QED
    BY <1>0, <1>1, <2>2 DEF ArrAccepts, LandedIsOurs
<1>2. ASSUME NEW t \in Titles,
             \/ DropJob(t) \/ NotDue(t) \/ FailUnconfigured(t) \/ SendAdd(t)
             \/ TakeEpisodes(t)
      PROVE  ourIds' = ourIds /\ LandedIsOurs'
  BY <1>2 DEF DropJob, NotDue, FailUnconfigured, SendAdd, TakeEpisodes, LandedIsOurs, arrVars
<1>3. ASSUME NEW t \in Titles, EpisodesMonitored(t) \/ EpisodesSearched(t) \/ EpisodesFail(t)
      PROVE  ourIds' = ourIds /\ LandedIsOurs'
  <2>1. flight \in Flight
    BY <1>0, <1>3 DEF EpisodesMonitored, EpisodesSearched, EpisodesFail, EpisodeStage
  <2> QED
    BY <1>3, <2>1 DEF EpisodesMonitored, EpisodesSearched, EpisodesFail, EpisodeStage,
       LandedIsOurs, arrVars, Flight
<1>4. ASSUME NEW t \in Titles,
             \/ AnswerAdded(t) \/ AnswerAlready(t) \/ AnswerBusy(t) \/ GiveUp(t)
             \/ AnswerRefused(t)
      PROVE  ourIds' = ourIds /\ LandedIsOurs'
  BY <1>4 DEF AnswerAdded, AnswerAlready, AnswerBusy, GiveUp, AnswerRefused, Answered,
     LandedIsOurs, arrVars
<1>5. ASSUME NEW t \in Titles,
             \/ \E u \in Users, s \in Selections : Post(t, u, s) \/ AgentPost(t, u, s)
             \/ Retry(t) \/ Withdrawing(t) \/ AskEpisodes(t) \/ RetryTimePasses(t)
             \/ TimerFires(t) \/ ByHand(t)
      PROVE  ourIds' = ourIds /\ flight' = flight
  BY <1>5 DEF Post, AgentPost, Retry, Withdrawing, WithdrawUnsent, WithdrawAsks,
     WithdrawDone, WithdrawFails, AskEpisodes, RetryTimePasses, TimerFires, ByHand,
     AddedByHand, DeletedByHand, arrVars, memVars
<1>6. CASE Crash
  BY <1>6 DEF Crash, MemoryLost, LandedIsOurs, arrVars
<1>7. CASE Start \/ Midnight
  BY <1>7 DEF Start, Midnight, LandedIsOurs, arrVars, memVars
<1> QED
  BY <1>1, <1>2, <1>3, <1>4, <1>5, <1>6, <1>7 DEF Next, WorkerTakes, WorkerHears, LandedIsOurs

\* A withdrawal acts on an id that was on the row.
LEMMA WithdrawnIdsWereOnRows ==
    ASSUME IInv, Next, NEW x \in Titles
    PROVE  withdrawals'[x] \in {NoId, withdrawals[x], row[x].arrId}
<1>0. withdrawals \in [Titles -> ArrIds]
  BY DEF IInv, TypeOK
<1>1. CASE Crash
  BY <1>1 DEF Crash, MemoryLost
<1>2. CASE Start \/ Midnight
  BY <1>2 DEF Start, Midnight, memVars
<1>3. ASSUME NEW t \in Titles, Withdrawing(t)
      PROVE  withdrawals'[x] \in {NoId, withdrawals[x], row[x].arrId}
  BY <1>0, <1>3 DEF Withdrawing, WithdrawUnsent, WithdrawAsks, WithdrawDone, WithdrawFails,
     memVars
<1>4. ASSUME NEW t \in Titles,
             \/ \E u \in Users, s \in Selections : Post(t, u, s) \/ AgentPost(t, u, s)
             \/ Retry(t) \/ AskEpisodes(t) \/ WorkerTakes(t) \/ ArrAccepts(t)
             \/ RetryTimePasses(t) \/ TimerFires(t) \/ ByHand(t)
      PROVE  withdrawals' = withdrawals
  BY <1>4 DEF Post, AgentPost, Retry, AskEpisodes, WorkerTakes, DropJob, NotDue,
     FailUnconfigured, SendAdd, TakeEpisodes, ArrAccepts, RetryTimePasses, TimerFires, ByHand,
     AddedByHand, DeletedByHand, memVars
<1>5. ASSUME NEW t \in Titles, WorkerHears(t)
      PROVE  withdrawals' = withdrawals
  BY <1>5 DEF WorkerHears, AnswerAdded, AnswerAlready, AnswerBusy, GiveUp, AnswerRefused,
     Answered, EpisodesMonitored, EpisodesSearched, EpisodesFail, EpisodeStage
<1> QED
  BY <1>1, <1>2, <1>3, <1>4, <1>5 DEF Next

LEMMA NextIds == IdInv /\ [Next]_workerVars => IdInv'
<1> SUFFICES ASSUME IdInv, [Next]_workerVars PROVE IdInv'
  OBVIOUS
<1>1. CASE UNCHANGED workerVars
  BY <1>1, NextIInv
     DEF IdInv, ArrIdIsOurs, LandedIsOurs, workerVars, memVars, arrVars, episodeVars
<1>2. CASE Next
  <2>1. IInv' /\ LandedIsOurs' /\ \A x \in Titles : ourIds[x] \subseteq ourIds'[x]
    BY <1>2, NextIInv, OurIdsGrow DEF IdInv
  <2>2. ASSUME NEW x \in Titles, row'[x].arrId # NoId
        PROVE  row'[x].arrId \in ourIds'[x]
    BY <1>2, <2>1, <2>2, WhereIdsComeFrom DEF IdInv, ArrIdIsOurs, LandedIsOurs, InFlight
  <2>3. ASSUME NEW x \in Titles, withdrawals'[x] # NoId
        PROVE  withdrawals'[x] \in ourIds'[x]
    BY <1>2, <2>1, <2>3, WithdrawnIdsWereOnRows DEF IdInv, ArrIdIsOurs
  <2> QED
    BY <2>1, <2>2, <2>3 DEF IdInv, ArrIdIsOurs
<1> QED
  BY <1>1, <1>2

\* Every arr id on a row, and in a withdrawal in progress, was created by an add
\* of that same title: "already exists" records none, a stale answer carries the
\* id of its own add, and a new row starts without one.
THEOREM ArrIdsAreOurs == Spec => []ArrIdIsOurs
<1>1. IdInv => ArrIdIsOurs
  BY DEF IdInv
<1> QED
  BY InitIds, NextIds, <1>1, PTL DEF Spec

\* Only the answer to a withdrawal switches monitoring off.
LEMMA UnmonitoredByWithdrawal ==
    ASSUME IInv, Next, NEW x \in Titles,
           arr[x].monitored, ~arr'[x].monitored, arr'[x].id = arr[x].id
    PROVE  withdrawals[x] # NoId /\ arr[x].id = withdrawals[x]
<1>0. arr \in [Titles -> Holding]
  BY DEF IInv, TypeOK
<1>1. ASSUME NEW t \in Titles, WithdrawDone(t) \/ WithdrawFails(t)
      PROVE  withdrawals[x] # NoId /\ arr[x].id = withdrawals[x]
  BY <1>0, <1>1 DEF WithdrawDone, WithdrawFails, Unmonitored, Holding
<1>2. ASSUME NEW t \in Titles, ArrAccepts(t) \/ ByHand(t)
      PROVE  FALSE
  <2>1. CASE ArrAccepts(t)
    BY <1>0, <2>1 DEF ArrAccepts
  <2>2. CASE AddedByHand(t)
    <3>1. arr'[t].monitored
      BY <1>0, <2>2 DEF AddedByHand, NotHeld
    <3>2. x # t => arr'[x] = arr[x]
      BY <1>0, <2>2 DEF AddedByHand
    <3> QED
      BY <3>1, <3>2
  <2>3. CASE DeletedByHand(t)
    BY <1>0, <2>3 DEF DeletedByHand, NotHeld
  <2> QED
    BY <1>2, <2>1, <2>2, <2>3 DEF ByHand
<1>3. arr' # arr
  OBVIOUS
<1>4. ASSUME NEW t \in Titles,
             \/ \E u \in Users, s \in Selections : Post(t, u, s) \/ AgentPost(t, u, s)
             \/ Retry(t) \/ AskEpisodes(t) \/ WorkerTakes(t)
             \/ RetryTimePasses(t) \/ TimerFires(t)
             \/ \E u \in Users : WithdrawUnsent(t, u) \/ WithdrawAsks(t, u)
      PROVE  FALSE
  BY <1>3, <1>4 DEF Post, AgentPost, Retry, AskEpisodes, WorkerTakes, DropJob, NotDue,
     FailUnconfigured, SendAdd, TakeEpisodes, RetryTimePasses, TimerFires, WithdrawUnsent,
     WithdrawAsks, arrVars
<1>5. ASSUME NEW t \in Titles, WorkerHears(t)
      PROVE  FALSE
  BY <1>3, <1>5 DEF WorkerHears, AnswerAdded, AnswerAlready, AnswerBusy, GiveUp,
     AnswerRefused, Answered, EpisodesMonitored, EpisodesSearched, EpisodesFail,
     EpisodeStage, arrVars
<1>6. ~Start /\ ~Crash /\ ~Midnight
  BY <1>3 DEF Start, Crash, MemoryLost, Midnight, arrVars
<1> QED
  BY <1>1, <1>2, <1>4, <1>5, <1>6 DEF Next, Withdrawing

\* Withdrawing never unmonitors a library row that somebody else added, even one
\* that took the place of ours while the call was on its way.
THEOREM OthersRowsLeftAlone == Spec => OnlyOursUnmonitored
<1>1. IdInv /\ [Next]_workerVars =>
         [\A t \in Titles :
             (arr[t].monitored /\ ~arr'[t].monitored /\ arr'[t].id = arr[t].id)
                 => arr[t].id \in ourIds[t]]_workerVars
  <2> SUFFICES ASSUME IdInv, Next, NEW t \in Titles,
                      arr[t].monitored, ~arr'[t].monitored, arr'[t].id = arr[t].id
               PROVE  arr[t].id \in ourIds[t]
    OBVIOUS
  <2>1. withdrawals[t] # NoId /\ arr[t].id = withdrawals[t]
    BY UnmonitoredByWithdrawal DEF IdInv
  <2> QED
    BY <2>1 DEF IdInv, ArrIdIsOurs
<1> QED
  BY InitIds, NextIds, <1>1, PTL DEF Spec, OnlyOursUnmonitored

-----------------------------------------------------------------------------
(* Credit and quota.                                                       *)

\* A row that is still there has the asker and the day it had.
Kept(x) ==
    Exists(row'[x]) =>
        /\ Exists(row[x])
        /\ row'[x].by = row[x].by
        /\ row'[x].age = "today" => row[x].age = "today"

\* What the rules keep of a row: its asker and its day.
LEMMA RulesKeep ==
    ASSUME NEW r \in Held, NEW u \in Users, NEW s \in Selections,
           NEW id \in ArrIds, NEW n \in 0 .. MaxSends
    PROVE  /\ Requeued(r).by = r.by /\ Requeued(r).age = r.age
           /\ Exists(Requeued(r)) => Exists(r)
           /\ ~createsNewRequest(r) =>
                /\ Created(r, u, s).by = r.by
                /\ Created(r, u, s).age = r.age
                /\ Exists(r)
<1>1. CASE Exists(r)
  <2>1. r \in Row
    BY <1>1, ExistsIsRow
  <2> QED
    BY <1>1, <2>1 DEF Requeued, Created, Patch, Row, createsNewRequest, revivesHeldRequest
<1>2. CASE ~Exists(r)
  BY <1>2, RequeuedType DEF createsNewRequest
<1> QED
  BY <1>1, <1>2

\* Only an ask that creates a row gives it an asker and a day.
LEMMA OnlyAsksCredit ==
    ASSUME IInv, Next, NEW x \in Titles
    PROVE  \/ Kept(x)
           \/ \E u \in Users, s \in Selections : Post(x, u, s) /\ createsNewRequest(row[x])
<1>0. row \in [Titles -> Held]
  BY DEF IInv, TypeOK, Held
<1>1. ASSUME row' = row PROVE Kept(x)
  BY <1>1 DEF Kept
<1>2. CASE Start
  BY <1>0, <1>2, RulesKeep, Picks, Ranges DEF Start, RowsAtStart, Kept
<1>3. CASE Midnight
  <2>1. Exists(row[x]) => row[x] \in Row
    BY <1>0, ExistsIsRow
  <2> QED
    BY <1>3, <2>1 DEF Midnight, Row, Kept
<1>4. ASSUME NEW t \in Titles, NEW u \in Users, NEW s \in Selections, Post(t, u, s)
      PROVE  Kept(x) \/ (x = t /\ createsNewRequest(row[x]))
  BY <1>0, <1>4, RulesKeep, Ranges DEF Post, Kept
<1>5. ASSUME NEW t \in Titles, Retry(t)
      PROVE  Kept(x)
  BY <1>0, <1>5, RulesKeep, Picks, Ranges DEF Retry, Kept
<1>6. ASSUME NEW t \in Titles, Withdrawing(t)
      PROVE  Kept(x)
  BY <1>0, <1>6 DEF Withdrawing, WithdrawUnsent, WithdrawAsks, WithdrawDone, WithdrawFails,
     NoRow, Exists, Kept
<1>7. ASSUME NEW t \in Titles,
             \/ FailUnconfigured(t) \/ RetryTimePasses(t) \/ AnswerAdded(t)
             \/ AnswerAlready(t) \/ AnswerBusy(t) \/ GiveUp(t) \/ AnswerRefused(t)
      PROVE  Kept(x)
  <2>1. x # t => row'[x] = row[x]
    BY <1>0, <1>7 DEF FailUnconfigured, RetryTimePasses, AnswerAdded, AnswerAlready,
       AnswerBusy, GiveUp, AnswerRefused
  <2>2. CASE Exists(row[t])
    <3>1. row[t] \in Row
      BY <1>0, <2>2, ExistsIsRow
    <3>2. row'[t].by = row[t].by /\ row'[t].age = row[t].age
      <4>1. CASE FailUnconfigured(t)
        BY <1>0, <3>1, <4>1 DEF FailUnconfigured, Row
      <4>2. CASE RetryTimePasses(t)
        BY <1>0, <3>1, <4>2 DEF RetryTimePasses, Row
      <4>3. CASE AnswerAdded(t)
        BY <1>0, <2>2, <3>1, <4>3 DEF AnswerAdded, Patch, Row
      <4>4. CASE AnswerAlready(t)
        BY <1>0, <2>2, <3>1, <4>4 DEF AnswerAlready, Patch, Row
      <4>5. CASE AnswerBusy(t)
        BY <1>0, <2>2, <3>1, <4>5 DEF AnswerBusy, Patch, Row
      <4>6. CASE GiveUp(t)
        BY <1>0, <2>2, <3>1, <4>6 DEF GiveUp, Failed, Patch, Row
      <4>7. CASE AnswerRefused(t)
        BY <1>0, <2>2, <3>1, <4>7 DEF AnswerRefused, Failed, Patch, Row
      <4> QED
        BY <1>7, <4>1, <4>2, <4>3, <4>4, <4>5, <4>6, <4>7
    <3> QED
      BY <2>1, <2>2, <3>2 DEF Kept
  <2>3. CASE ~Exists(row[t])
    <3>1. row[t] = NoRow
      BY <1>0, <2>3, ExistsIsRow DEF Held
    <3>2. ~FailUnconfigured(t) /\ ~RetryTimePasses(t)
      BY <3>1 DEF FailUnconfigured, Due, RetryTimePasses, NoRow
    <3>3. CASE AnswerAdded(t) \/ AnswerAlready(t)
      BY <1>0, <2>1, <2>3, <3>3 DEF AnswerAdded, AnswerAlready, Patch, Kept
    <3>4. CASE AnswerBusy(t)
      BY <1>0, <2>1, <2>3, <3>4 DEF AnswerBusy, Patch, Kept
    <3>5. CASE GiveUp(t) \/ AnswerRefused(t)
      BY <1>0, <2>1, <2>3, <3>5 DEF GiveUp, AnswerRefused, Failed, Patch, Kept
    <3> QED
      BY <1>7, <3>2, <3>3, <3>4, <3>5
  <2> QED
    BY <2>2, <2>3
<1>8. ASSUME NEW t \in Titles,
             \/ DropJob(t) \/ NotDue(t) \/ SendAdd(t) \/ TakeEpisodes(t)
             \/ ArrAccepts(t) \/ AskEpisodes(t) \/ TimerFires(t) \/ ByHand(t)
             \/ EpisodesMonitored(t) \/ EpisodesSearched(t) \/ EpisodesFail(t) \/ Crash
      PROVE  row' = row
  BY <1>8 DEF DropJob, NotDue, SendAdd, TakeEpisodes, ArrAccepts, AskEpisodes, TimerFires,
     ByHand, AddedByHand, DeletedByHand, EpisodesMonitored, EpisodesSearched, EpisodesFail,
     EpisodeStage, Crash, MemoryLost
<1> QED
  BY <1>1, <1>2, <1>3, <1>4, <1>5, <1>6, <1>7, <1>8
     DEF Next, WorkerTakes, WorkerHears, AgentPost

\* A row changes hands only when a removed one is asked for afresh: no retry,
\* answer, restart or second ask takes the credit from the first asker.
THEOREM CreditKept == Spec => FirstAskerKeepsCredit
<1>1. IInv /\ [Next]_workerVars =>
         [\A t \in Titles :
             row'[t].by # row[t].by => createsNewRequest(row[t]) \/ ~Exists(row'[t])]_workerVars
  <2> SUFFICES ASSUME IInv, Next, NEW t \in Titles, row'[t].by # row[t].by
               PROVE  createsNewRequest(row[t]) \/ ~Exists(row'[t])
    OBVIOUS
  <2> QED
    BY OnlyAsksCredit DEF Kept
<1> QED
  BY InitIInv, NextIInv, <1>1, PTL DEF Spec, FirstAskerKeepsCredit

LEMMA NextQuota == IInv /\ QuotaKept /\ [Next]_workerVars => QuotaKept'
<1> SUFFICES ASSUME IInv, QuotaKept, [Next]_workerVars, NEW u \in Users, QuotaApplies(u)
             PROVE  Cardinality(AskedToday(row', u)) <= QuotaPerDay
  BY DEF QuotaKept, AskedToday, QuotaApplies
<1> DEFINE before == AskedToday(row, u)
           after == AskedToday(row', u)
<1>1. IsFiniteSet(before) /\ Cardinality(before) \in Nat /\ Cardinality(before) <= QuotaPerDay
  <2>1. before \subseteq Titles
    BY DEF AskedToday
  <2> QED
    BY <2>1, RowAssumption, FS_Subset, FS_CardinalityType DEF RowAssumption, QuotaKept
<1>2. ASSUME after \subseteq before
      PROVE  Cardinality(after) <= QuotaPerDay
  <2>1. Cardinality(after) \in Nat /\ Cardinality(after) <= Cardinality(before)
    BY <1>1, <1>2, FS_Subset, FS_CardinalityType
  <2> QED
    BY <1>1, <2>1, RowAssumption DEF RowAssumption
<1>3. CASE UNCHANGED workerVars
  BY <1>2, <1>3 DEF workerVars, AskedToday
<1>4. CASE Next /\ \A x \in Titles : Kept(x)
  BY <1>2, <1>4 DEF Kept, AskedToday
<1>5. ASSUME NEW x \in Titles, NEW v \in Users, NEW s \in Selections,
             Post(x, v, s), createsNewRequest(row[x])
      PROVE  Cardinality(after) <= QuotaPerDay
  <2>1. /\ row'[x].by = v
        /\ \A y \in Titles : y # x => row'[y] = row[y]
    BY <1>5 DEF Post, Created, NewRow, IInv, TypeOK
  <2>2. CASE v # u
    <3>1. after \subseteq before
      BY <2>1, <2>2 DEF AskedToday
    <3> QED
      BY <1>2, <3>1
  <2>3. CASE v = u
    <3>1. Cardinality(before) < QuotaPerDay
      BY <1>5, <2>3 DEF Post, QuotaAllows
    <3>2. after \subseteq before \cup {x}
      BY <2>1 DEF AskedToday
    <3>3. /\ IsFiniteSet(before \cup {x})
          /\ Cardinality(before \cup {x}) \in Nat
          /\ Cardinality(before \cup {x}) <= Cardinality(before) + 1
      <4> HIDE DEF before
      <4>1. /\ IsFiniteSet(before \cup {x})
            /\ Cardinality(before \cup {x}) = IF x \in before THEN Cardinality(before)
                                              ELSE Cardinality(before) + 1
        BY <1>1, FS_AddElement
      <4> QED
        BY <1>1, <4>1
    <3>4. Cardinality(after) \in Nat /\ Cardinality(after) <= Cardinality(before \cup {x})
      BY <3>2, <3>3, FS_Subset, FS_CardinalityType
    <3> QED
      BY <1>1, <3>1, <3>3, <3>4, RowAssumption DEF RowAssumption
  <2> QED
    BY <2>2, <2>3
<1> QED
  BY <1>3, <1>4, <1>5, OnlyAsksCredit

\* Nobody bound by the daily quota ever holds more rows from today than it
\* allows, whatever the number of people, titles and asks.
THEOREM QuotaIsKept == Spec => []QuotaKept
<1>1. Init => QuotaKept
  <2> SUFFICES ASSUME Init, NEW u \in Users PROVE AskedToday(row, u) = {}
    BY FS_EmptySet, RowAssumption DEF QuotaKept, RowAssumption
  <2> QED
    BY DEF Init, AskedToday, LegacyRow, NewRow, NoRow, Exists
<1> QED
  BY InitIInv, NextIInv, NextQuota, <1>1, PTL DEF Spec

-----------------------------------------------------------------------------
(* The episode mirror.                                                     *)

\* Only the three answers of an episode job touch what Sonarr was asked or what
\* the mirror shows.
LEMMA EpisodesAlone ==
    ASSUME [Next]_workerVars,
           \A t \in Titles :
               ~EpisodesMonitored(t) /\ ~EpisodesSearched(t) /\ ~EpisodesFail(t)
    PROVE  UNCHANGED episodeVars
<1>1. CASE UNCHANGED workerVars
  BY <1>1 DEF workerVars
<1>2. CASE Start \/ Crash \/ Midnight
  BY <1>2 DEF Start, Crash, MemoryLost, Midnight
<1>3. ASSUME NEW t \in Titles, NEW u \in Users,
             \/ \E s \in Selections : Post(t, u, s)
             \/ WithdrawUnsent(t, u) \/ WithdrawAsks(t, u)
      PROVE  UNCHANGED episodeVars
  BY <1>3 DEF Post, WithdrawUnsent, WithdrawAsks
<1>4. ASSUME NEW t \in Titles,
             \/ Retry(t) \/ WithdrawDone(t) \/ WithdrawFails(t) \/ AskEpisodes(t)
             \/ ArrAccepts(t) \/ RetryTimePasses(t) \/ TimerFires(t) \/ ByHand(t)
      PROVE  UNCHANGED episodeVars
  BY <1>4 DEF Retry, WithdrawDone, WithdrawFails, AskEpisodes, ArrAccepts, RetryTimePasses,
     TimerFires, ByHand, AddedByHand, DeletedByHand
<1>5. ASSUME NEW t \in Titles, WorkerTakes(t)
      PROVE  UNCHANGED episodeVars
  BY <1>5 DEF WorkerTakes, DropJob, NotDue, FailUnconfigured, SendAdd, TakeEpisodes
<1>6. ASSUME NEW t \in Titles,
             \/ AnswerAdded(t) \/ AnswerAlready(t) \/ AnswerBusy(t)
             \/ GiveUp(t) \/ AnswerRefused(t)
      PROVE  UNCHANGED episodeVars
  BY <1>6 DEF AnswerAdded, AnswerAlready, AnswerBusy, GiveUp, AnswerRefused, Answered
<1> QED
  BY <1>1, <1>2, <1>3, <1>4, <1>5, <1>6 DEF Next, WorkerHears, Withdrawing, AgentPost

\* What Sonarr accepted stays accepted, and the mirror shows a series only with
\* the answer to a search, before which Sonarr took the monitoring.
LEMMA NextMirror ==
    IInv /\ EpisodeMirrorHonest /\ [Next]_workerVars => EpisodeMirrorHonest'
<1> SUFFICES ASSUME IInv, EpisodeMirrorHonest, [Next]_workerVars
             PROVE  EpisodeMirrorHonest'
  OBVIOUS
<1>0. /\ episodes \in [Titles -> {"none", "monitored", "searched"}]
      /\ shown \subseteq Titles
  BY DEF IInv, TypeOK
<1>1. ASSUME NEW t \in Titles, EpisodesMonitored(t)
      PROVE  EpisodeMirrorHonest'
  BY <1>0, <1>1 DEF EpisodesMonitored, EpisodeMirrorHonest
<1>2. ASSUME NEW t \in Titles, EpisodesSearched(t)
      PROVE  EpisodeMirrorHonest'
  BY <1>0, <1>2 DEF EpisodesSearched, EpisodeMirrorHonest
<1>3. ASSUME NEW t \in Titles, EpisodesFail(t)
      PROVE  EpisodeMirrorHonest'
  BY <1>0, <1>3 DEF EpisodesFail, EpisodeMirrorHonest
<1>4. CASE UNCHANGED episodeVars
  BY <1>4 DEF episodeVars, EpisodeMirrorHonest
<1> QED
  BY <1>1, <1>2, <1>3, <1>4, EpisodesAlone

\* The mirror never claims monitoring Sonarr was not asked for, in whatever
\* order jobs, failures and crashes come.
THEOREM MirrorIsHonest == Spec => []EpisodeMirrorHonest
<1>1. Init => EpisodeMirrorHonest
  BY DEF Init, EpisodeMirrorHonest
<1> QED
  BY InitIInv, NextIInv, NextMirror, <1>1, PTL DEF Spec
=============================================================================
