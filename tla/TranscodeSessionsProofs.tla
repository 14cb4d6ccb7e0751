----------------------- MODULE TranscodeSessionsProofs -----------------------
(***************************************************************************)
(* What TranscodeSessions keeps for every set of keys, viewers and session *)
(* ids, every timeline and every limit: the table and the keys agree and   *)
(* stay within the two limits, the ffmpegs of a rendition stay within      *)
(* their budget, a shared stream survives one viewer's stop, nobody is     *)
(* refused for the sake of an abandoned session, the books say what lies   *)
(* on disk, and the read-ahead never stops half-way.                       *)
(***************************************************************************)
EXTENDS TranscodeSessions, TLAPS, FiniteSetTheorems

\* What the table holds for one id, and what is aimed at for one.
Held == Entry \cup {NoEntry}
Aim == [at : Int, from : Int, to : Int]

\* The types the table and the ffmpegs need: segments and windows are integers, and
\* only finitely many ffmpegs run.  SessionsTypes, below, says the rest.
Types ==
    /\ table \in [SessionIds -> Held]
    /\ byKey \in [Keys -> SessionIds \cup {NoSession}]
    /\ producing \in [SessionIds -> SUBSET Int]
    /\ background \in [SessionIds -> SUBSET Int]
    /\ looping \in [SessionIds -> BOOLEAN]
    /\ ahead \in [SessionIds -> Aim]
    /\ \A s \in SessionIds : IsFiniteSet(producing[s])

LEMMA NoEntryIsNone == NoEntry \notin Entry
BY DEF NoEntry, Entry

LEMMA LiveHolds ==
    ASSUME Types, NEW s \in Live
    PROVE  s \in SessionIds /\ table[s] \in Entry
BY DEF Types, Live, Held

LEMMA IndicesAreInts == Indices \subseteq Int
BY SessionsAssumption DEF SessionsAssumption, Indices

LEMMA DepthIsNat == \A s : Depth(s) \in Nat
BY SessionsAssumption DEF SessionsAssumption, Depth

LEMMA AimedType ==
    ASSUME Types, NEW s \in Live, NEW i \in Int
    PROVE  Aimed(s, i) \in Aim
BY LiveHolds, DepthIsNat, SessionsAssumption DEF Types, Aimed, Aim, Clamped, SessionsAssumption, Entry

\* `nextAhead` names at most one segment, of the window, that nobody is making.
LEMMA NextIsOne ==
    ASSUME NEW w \in Aim, NEW onDisk, NEW making
    PROVE  LET next == NextAhead(w, onDisk, making) IN
           /\ next \subseteq Int
           /\ next \cap making = {}
           /\ IsFiniteSet(next)
           /\ Cardinality(next) <= 1
<1> DEFINE next == NextAhead(w, onDisk, making)
<1>1. next \subseteq Int /\ next \cap making = {}
  BY DEF NextAhead, Aim
<1>2. \A i, j \in next : i = j
  BY <1>1 DEF NextAhead, Aim
<1>3. CASE next = {}
  BY <1>1, <1>3, FS_EmptySet
<1>4. CASE next # {}
  <2>1. PICK i \in next : TRUE
    BY <1>4
  <2>2. next = {i}
    BY <1>2, <2>1
  <2>3. IsFiniteSet({i}) /\ Cardinality({i}) = 1
    BY FS_Singleton
  <2> QED
    BY <1>1, <2>2, <2>3
<1> QED
  BY <1>3, <1>4

\* A set with one element more.
LEMMA OneMore ==
    ASSUME NEW S, NEW T, NEW x, IsFiniteSet(S), T = S \/ T = S \cup {x}
    PROVE  /\ IsFiniteSet(T)
           /\ Cardinality(S) \in Nat /\ Cardinality(T) \in Nat
           /\ Cardinality(T) <= Cardinality(S) + 1
<1>1. Cardinality(S) \in Nat
  BY FS_CardinalityType
<1>2. CASE T = S
  BY <1>1, <1>2
<1>3. CASE T = S \cup {x}
  BY <1>1, <1>3, FS_AddElement
<1> QED
  BY <1>2, <1>3

\* A request adds at most its own segment, and only within the ceiling.
LEMMA RequestedFits ==
    ASSUME Types, NEW s \in SessionIds, NEW i \in Int,
           Cardinality(Requests(s)) <= SegmentConcurrency
    PROVE  LET making == Requested(s, i) IN
           /\ making \subseteq Int
           /\ IsFiniteSet(making)
           /\ producing[s] \subseteq making
           /\ Cardinality(making \ background[s]) <= SegmentConcurrency
<1> DEFINE making == Requested(s, i)
<1>1. IsFiniteSet(Requests(s)) /\ Cardinality(Requests(s)) \in Nat
  BY FS_Difference, FS_CardinalityType DEF Types, Requests
<1>2. IsFiniteSet(producing[s] \cup {i})
  BY FS_AddElement DEF Types
<1>3. CASE Cardinality(Requests(s)) < SegmentConcurrency
  <2>1. \/ making \ background[s] = Requests(s)
        \/ making \ background[s] = Requests(s) \cup {i}
    BY <1>3 DEF Requested, Requests
  <2>2. /\ Cardinality(making \ background[s]) \in Nat
        /\ Cardinality(making \ background[s]) <= Cardinality(Requests(s)) + 1
    BY <1>1, <2>1, OneMore
  <2>3. Cardinality(making \ background[s]) <= SegmentConcurrency
    <3> HIDE DEF making
    <3> QED
      BY <1>1, <1>3, <2>2, SessionsAssumption DEF SessionsAssumption
  <2> QED
    BY <1>2, <1>3, <2>3 DEF Types, Requested
<1>4. CASE ~(Cardinality(Requests(s)) < SegmentConcurrency)
  BY <1>1, <1>4 DEF Types, Requested, Requests
<1> QED
  BY <1>3, <1>4

-----------------------------------------------------------------------------
(* The table and the keys.                                                 *)

LEMMA LiveIsFinite ==
    /\ IsFiniteSet(Live) /\ Cardinality(Live) \in Nat
    /\ IsFiniteSet(Costly(Live)) /\ Cardinality(Costly(Live)) \in Nat
<1>1. Live \subseteq SessionIds /\ Costly(Live) \subseteq SessionIds
  BY DEF Live, Costly
<1> QED
  BY <1>1, SessionsAssumption, FS_Subset, FS_CardinalityType DEF SessionsAssumption

\* An entry that changes, but not its key.
LEMMA SameKeys ==
    ASSUME Types, TableIsSound, NEW s \in Live, NEW e \in Entry, e.key = table[s].key,
           table' = [table EXCEPT ![s] = e], byKey' = byKey
    PROVE  TableIsSound' /\ table' \in [SessionIds -> Held] /\ Live' = Live
<1>1. table' \in [SessionIds -> Held] /\ s \in SessionIds
  BY LiveHolds DEF Types, Held
<1>2. Live' = Live /\ \A t \in Live : table'[t].key = table[t].key
  BY <1>1, LiveHolds, NoEntryIsNone DEF Types, Live, Held
<1>3. Costly(Live)' = Costly(Live)
  BY <1>2 DEF Costly
<1>4. WithinLimits'
  BY <1>2, <1>3 DEF TableIsSound, WithinLimits
<1>5. KeyFindsItsSession'
  BY <1>2 DEF TableIsSound, KeyFindsItsSession
<1> QED
  BY <1>1, <1>2, <1>4, <1>5 DEF TableIsSound

\* Who is left when the sessions of S end, and what the keys then lead to.
LEMMA Without ==
    ASSUME Types, TableIsSound, NEW S \in SUBSET Live
    PROVE  /\ TableWithout(S) \in [SessionIds -> Held]
           /\ KeysWithout(S) \in [Keys -> SessionIds \cup {NoSession}]
           /\ \A s \in SessionIds : TableWithout(S)[s] # NoEntry <=> s \in Live \ S
           /\ \A s \in Live \ S : TableWithout(S)[s] = table[s]
           /\ \A s \in Live \ S : KeysWithout(S)[table[s].key] = s
           /\ \A k \in Keys : KeysWithout(S)[k] # NoSession =>
                  /\ KeysWithout(S)[k] = byKey[k]
                  /\ KeysWithout(S)[k] \in Live \ S
                  /\ table[KeysWithout(S)[k]].key = k
BY LiveHolds, SessionsAssumption
   DEF Types, Held, Live, Entry, TableWithout, KeysWithout, TableIsSound, KeyFindsItsSession, SessionsAssumption

LEMMA EndKeeps ==
    ASSUME Types, TableIsSound, NEW S \in SUBSET Live,
           table' = TableWithout(S), byKey' = KeysWithout(S)
    PROVE  TableIsSound' /\ Live' = Live \ S
<1>1. Live' = Live \ S /\ \A s \in Live' : table'[s] = table[s]
  BY Without DEF Live
<1>2. Costly(Live)' \subseteq Costly(Live) /\ Live' \subseteq Live
  BY <1>1 DEF Costly
<1>3. /\ Cardinality(Live') <= Cardinality(Live)
      /\ Cardinality(Costly(Live)') <= Cardinality(Costly(Live))
      /\ Cardinality(Live') \in Nat /\ Cardinality(Costly(Live)') \in Nat
  BY <1>2, LiveIsFinite, FS_Subset, FS_CardinalityType
<1>4. WithinLimits'
  BY <1>3, LiveIsFinite, SessionsAssumption DEF TableIsSound, WithinLimits, SessionsAssumption
<1>5. KeyFindsItsSession'
  BY <1>1, Without DEF KeyFindsItsSession
<1> QED
  BY <1>1, <1>4, <1>5 DEF TableIsSound

\* A session more, where the two limits left room for it.
LEMMA OpenKeeps ==
    ASSUME Types, TableIsSound, NEW v \in Viewers, NEW k \in Keys, Open(v, k)
    PROVE  /\ TableIsSound'
           /\ table' \in [SessionIds -> Held]
           /\ byKey' \in [Keys -> SessionIds \cup {NoSession}]
           /\ Live \ Stale \subseteq Live'
<1> DEFINE Left == Live \ Stale
           Entered == [key |-> k, holders |-> {v}, idle |-> FALSE, old |-> FALSE]
<1>1. PICK s \in Free : /\ table' = [TableWithout(Stale) EXCEPT ![s] = Entered]
                        /\ byKey' = [KeysWithout(Stale) EXCEPT ![k] = s]
  BY DEF Open
<1>2. s \in SessionIds /\ s \notin Left /\ Stale \in SUBSET Live
  BY DEF Free, Stale
<1>3. Entered \in Entry /\ Entered # NoEntry /\ Entered.key = k
  <2>1. Entered \in Entry
    BY DEF Entry
  <2> QED
    BY <2>1, NoEntryIsNone
<1>4. table' \in [SessionIds -> Held] /\ byKey' \in [Keys -> SessionIds \cup {NoSession}]
  BY <1>1, <1>2, <1>3, Without DEF Held
<1>5. /\ Live' = Left \cup {s}
      /\ table'[s] = Entered
      /\ \A t \in Left : table'[t] = table[t]
  BY <1>1, <1>2, <1>3, Without DEF Live
<1>6. /\ Costly(Live)' = Costly(Left) \cup (IF k \in Expensive THEN {s} ELSE {})
      /\ Costly(Left) \subseteq Costly(Live) /\ Left \subseteq Live
  BY <1>2, <1>3, <1>5 DEF Costly
<1>7. /\ Cardinality(Left) < MaxSessions /\ IsFiniteSet(Left)
      /\ k \in Expensive => Cardinality(Costly(Left)) < ExpensiveSessions
      /\ IsFiniteSet(Costly(Left)) /\ Cardinality(Costly(Left)) \in Nat
      /\ Cardinality(Costly(Left)) <= Cardinality(Costly(Live))
  BY <1>6, LiveIsFinite, FS_Subset, FS_CardinalityType DEF Open, Room
<1>8. WithinLimits'
  <2>1. Cardinality(Live') \in Nat /\ Cardinality(Live') <= Cardinality(Left) + 1 /\ Cardinality(Left) \in Nat
    BY <1>5, <1>7, OneMore
  <2>2. k \in Expensive => /\ Cardinality(Costly(Live)') \in Nat
                           /\ Cardinality(Costly(Live)') <= Cardinality(Costly(Left)) + 1
    BY <1>6, <1>7, OneMore
  <2>3. k \notin Expensive => Costly(Live)' = Costly(Left)
    BY <1>6
  <2> QED
    BY <1>7, <2>1, <2>2, <2>3, LiveIsFinite, SessionsAssumption
       DEF TableIsSound, WithinLimits, SessionsAssumption
<1>9. KeyFindsItsSession'
  <2>1. \A t \in Left : table[t].key \in Keys /\ table[t].key # k
    BY <1>2, LiveHolds, Without DEF Open, Entry, TableIsSound, KeyFindsItsSession
  <2> QED
    BY <1>1, <1>2, <1>3, <1>5, <2>1, Without DEF KeyFindsItsSession
<1> QED
  BY <1>4, <1>5, <1>8, <1>9 DEF TableIsSound

\* What one step does to the table and the keys.  Of these five kinds every
\* action is one.
Changes ==
    \E s \in Live, e \in Entry :
        e.key = table[s].key /\ table' = [table EXCEPT ![s] = e] /\ byKey' = byKey
Ends ==
    \E S \in SUBSET Live :
        /\ S = Stale \/ \E s \in Live : S = {s} /\ Cardinality(table[s].holders) <= 1
        /\ table' = TableWithout(S) /\ byKey' = KeysWithout(S)
Opens == \E v \in Viewers, k \in Keys : Open(v, k)
Stays == UNCHANGED <<table, byKey>>

LEMMA EachStepIsOneKind ==
    ASSUME Types, TableIsSound, [Next]_vars
    PROVE  Changes \/ Ends \/ Opens \/ Stays \/ Restart
<1>1. \A s \in Live : table[s] \in Entry /\ s \in SessionIds
  BY LiveHolds
<1>2. ASSUME NEW v \in Viewers, NEW k \in Keys, Join(v, k)
      PROVE  Changes
  <2> DEFINE s == byKey[k]
             e == [table[s] EXCEPT !.idle = FALSE, !.holders = @ \cup {v}]
  <2>1. s \in Live /\ e \in Entry /\ e.key = table[s].key
    BY <1>1, <1>2 DEF Join, Entry
  <2>2. table' = [table EXCEPT ![s] = e] /\ byKey' = byKey
    BY <1>1, <1>2, <2>1 DEF Join, Types, Entry
  <2> QED
    BY <2>1, <2>2 DEF Changes
<1>3. ASSUME NEW k \in Keys, Refuse(k) \/ StartWithoutDirectory(k)
      PROVE  Ends
  BY <1>3 DEF Refuse, StartWithoutDirectory, End, Ends, Stale
<1>4. ASSUME NEW s \in Live, Touch(s)
      PROVE  Changes
  <2> DEFINE e == [table[s] EXCEPT !.idle = FALSE]
  <2>1. e \in Entry /\ e.key = table[s].key
    BY <1>1 DEF Entry
  <2> QED
    BY <1>1, <1>4, <2>1 DEF Touch, Changes, Types
<1>5. ASSUME NEW s \in Live, NEW i \in Indices, AskSegment(s, i)
      PROVE  Changes
  <2> DEFINE e == [table[s] EXCEPT !.idle = FALSE]
  <2>1. e \in Entry /\ e.key = table[s].key
    BY <1>1 DEF Entry
  <2>2. table' = [table EXCEPT ![s] = e] /\ byKey' = byKey
    BY <1>1, <1>5 DEF AskSegment, Types
  <2> QED
    BY <2>1, <2>2 DEF Changes
<1>6. ASSUME NEW s \in Live, AskInit(s)
      PROVE  Changes
  <2> DEFINE e == [table[s] EXCEPT !.idle = FALSE]
  <2>1. e \in Entry /\ e.key = table[s].key
    BY <1>1 DEF Entry
  <2>2. table' = [table EXCEPT ![s] = e] /\ byKey' = byKey
    BY <1>1, <1>6 DEF AskInit, Types
  <2> QED
    BY <2>1, <2>2 DEF Changes
<1>7. ASSUME NEW s \in Live, GoesIdle(s)
      PROVE  Changes
  <2> DEFINE e == [table[s] EXCEPT !.idle = TRUE]
  <2>1. e \in Entry /\ e.key = table[s].key
    BY <1>1 DEF Entry
  <2> QED
    BY <1>1, <1>7, <2>1 DEF GoesIdle, Changes, Types
<1>8. ASSUME NEW s \in Live, GetsOld(s)
      PROVE  Changes
  <2> DEFINE e == [table[s] EXCEPT !.old = TRUE]
  <2>1. e \in Entry /\ e.key = table[s].key
    BY <1>1 DEF Entry
  <2> QED
    BY <1>1, <1>8, <2>1 DEF GetsOld, Changes, Types
<1>9. ASSUME NEW s \in Live, NEW v \in Viewers, Leave(v, s)
      PROVE  Changes \/ Ends
  <2>1. CASE table[s].holders # {v}
    <3> DEFINE e == [table[s] EXCEPT !.holders = @ \ {v}]
    <3>1. e \in Entry /\ e.key = table[s].key
      BY <1>1 DEF Entry
    <3>2. table' = [table EXCEPT ![s] = e] /\ byKey' = byKey
      BY <1>1, <1>9, <2>1 DEF Leave, Types
    <3> QED
      BY <3>1, <3>2 DEF Changes
  <2>2. CASE table[s].holders = {v}
    <3>1. Cardinality(table[s].holders) <= 1
      BY <2>2, FS_Singleton
    <3> QED
      BY <1>9, <2>2, <3>1 DEF Leave, End, Ends
  <2> QED
    BY <2>1, <2>2
<1>10. ASSUME NEW s \in Live, LeaveWithoutHandle(s)
       PROVE  Ends
  BY <1>10 DEF LeaveWithoutHandle, End, Ends
<1>11. ASSUME NEW s \in SessionIds, NEW i \in Indices,
              Publish(s, i) \/ Fail(s, i) \/ StragglerExits(s, i)
       PROVE  Stays
  BY <1>11 DEF Publish, Fail, StragglerExits, Stays
<1>12. UNCHANGED vars => Stays
  BY DEF vars, Stays
<1> QED
  BY <1>2, <1>3, <1>4, <1>5, <1>6, <1>7, <1>8, <1>9, <1>10, <1>11, <1>12 DEF Next, Opens

LEMMA TableStep ==
    ASSUME Types, TableIsSound, [Next]_vars
    PROVE  /\ TableIsSound'
           /\ table' \in [SessionIds -> Held]
           /\ byKey' \in [Keys -> SessionIds \cup {NoSession}]
<1>1. CASE Changes
  BY <1>1, SameKeys DEF Changes, Types
<1>2. CASE Ends
  BY <1>2, EndKeeps, Without DEF Ends
<1>3. CASE Opens
  BY <1>3, OpenKeeps DEF Opens
<1>4. CASE Stays
  <2>1. Live' = Live /\ Costly(Live)' = Costly(Live)
    BY <1>4 DEF Stays, Live, Costly
  <2> QED
    BY <1>4, <2>1 DEF Stays, Types, TableIsSound, WithinLimits, KeyFindsItsSession
<1>5. CASE Restart
  <2>1. Live' = {} /\ Costly(Live)' = {}
    BY <1>5 DEF Restart, Live, Costly
  <2>2. WithinLimits'
    <3>1. Cardinality({}) = 0
      BY FS_EmptySet
    <3> QED
      BY <2>1, <3>1, SessionsAssumption DEF WithinLimits, SessionsAssumption
  <2>3. KeyFindsItsSession'
    BY <1>5, <2>1 DEF Restart, KeyFindsItsSession
  <2> QED
    BY <1>5, <2>2, <2>3 DEF Restart, Held, TableIsSound
<1> QED
  BY <1>1, <1>2, <1>3, <1>4, <1>5, EachStepIsOneKind

-----------------------------------------------------------------------------
(* The ffmpegs of one rendition.                                           *)

\* FfmpegBudget of one session, with the types it rests on.
Fits(making, ahead1, loop) ==
    /\ making \in SUBSET Int /\ ahead1 \in SUBSET Int /\ loop \in BOOLEAN
    /\ IsFiniteSet(making)
    /\ Cardinality(making \ ahead1) <= SegmentConcurrency
    /\ ahead1 \subseteq making
    /\ Cardinality(ahead1) <= 1
    /\ loop <=> ahead1 # {}

MakingTypes ==
    /\ producing \in [SessionIds -> SUBSET Int]
    /\ background \in [SessionIds -> SUBSET Int]
    /\ looping \in [SessionIds -> BOOLEAN]
    /\ \A s \in SessionIds : IsFiniteSet(producing[s])

LEMMA EachFits ==
    ASSUME Types, FfmpegBudget, NEW s \in SessionIds
    PROVE  Fits(producing[s], background[s], looping[s])
BY DEF Types, FfmpegBudget, Fits, Requests

\* One session's runs change, and fit again.
LEMMA OneChanges ==
    ASSUME Types, FfmpegBudget, NEW s \in SessionIds, NEW making, NEW ahead1, NEW loop,
           Fits(making, ahead1, loop),
           producing' = [producing EXCEPT ![s] = making],
           background' = [background EXCEPT ![s] = ahead1],
           looping' = [looping EXCEPT ![s] = loop]
    PROVE  FfmpegBudget' /\ MakingTypes'
<1>1. \A t \in SessionIds : Fits(producing[t], background[t], looping[t])
  BY EachFits
<1>2. \A t \in SessionIds : Fits(producing'[t], background'[t], looping'[t])
  BY <1>1 DEF Types
<1>3. FfmpegBudget'
  BY <1>2 DEF FfmpegBudget, Requests, Fits
<1>4. MakingTypes'
  BY <1>2 DEF Types, MakingTypes, Fits
<1> QED
  BY <1>3, <1>4

\* The loop's look, while no run ahead is under way.
LEMMA LookFits ==
    ASSUME Types, FfmpegBudget, NEW s \in SessionIds, NEW w \in Aim, NEW onDisk,
           NEW making \in SUBSET Int, IsFiniteSet(making),
           Cardinality(making) <= SegmentConcurrency,
           LoopLooks(s, w, onDisk, making)
    PROVE  FfmpegBudget' /\ MakingTypes'
<1> DEFINE next == NextAhead(w, onDisk, making)
<1>1. next \subseteq Int /\ next \cap making = {} /\ IsFiniteSet(next) /\ Cardinality(next) <= 1
  BY NextIsOne
<1>2. /\ producing' = [producing EXCEPT ![s] = making \cup next]
      /\ background' = [background EXCEPT ![s] = next]
      /\ looping' = [looping EXCEPT ![s] = next # {}]
  BY DEF LoopLooks
<1> HIDE DEF next
<1>3. (making \cup next) \ next = making
  BY <1>1
<1>4. IsFiniteSet(making \cup next)
  BY <1>1, FS_Union
<1>5. Fits(making \cup next, next, next # {})
  BY <1>1, <1>3, <1>4 DEF Fits
<1> QED
  BY <1>2, <1>5, OneChanges

\* When the run ahead ends, only requests are left.
LEMMA LastAhead ==
    ASSUME NEW making, NEW ahead1, NEW loop, Fits(making, ahead1, loop), NEW i, i \in ahead1
    PROVE  /\ ahead1 = {i}
           /\ making \ {i} \in SUBSET Int /\ IsFiniteSet(making \ {i})
           /\ Cardinality(making \ {i}) <= SegmentConcurrency
<1>1. /\ IsFiniteSet(making \ {i}) /\ IsFiniteSet(ahead1)
      /\ Cardinality(ahead1) \in Nat
  BY FS_Difference, FS_Subset, FS_CardinalityType DEF Fits
<1>2. Cardinality(ahead1) = 1
  BY <1>1, FS_EmptySet DEF Fits
<1>3. ahead1 = {i}
  BY <1>1, <1>2, FS_Singleton
<1>4. making \ {i} = making \ ahead1
  BY <1>3
<1> QED
  BY <1>1, <1>3, <1>4 DEF Fits

\* A run that ends, with or without a segment, leaves room.
LEMMA OneLess ==
    ASSUME NEW making, NEW ahead1, NEW loop, Fits(making, ahead1, loop), NEW i \in making
    PROVE  /\ i \notin ahead1 => Fits(making \ {i}, ahead1, loop)
           /\ Fits(making \ {i}, ahead1 \ {i}, loop /\ i \notin ahead1)
<1>1. CASE i \in ahead1
  <2> DEFINE rest == making \ {i}
  <2>1. rest \in SUBSET Int /\ IsFiniteSet(rest) /\ Cardinality(rest) <= SegmentConcurrency
    BY <1>1, LastAhead
  <2>2. ahead1 \ {i} = {} /\ rest \ {} = rest
    BY <1>1, LastAhead
  <2>3. Cardinality({}) = 0
    BY FS_EmptySet
  <2> HIDE DEF rest
  <2>4. Fits(rest, {}, FALSE)
    BY <2>1, <2>2, <2>3 DEF Fits
  <2> QED
    BY <1>1, <2>2, <2>4 DEF rest
<1>2. CASE i \notin ahead1
  <2>1. (making \ {i}) \ ahead1 \subseteq making \ ahead1 /\ ahead1 \ {i} = ahead1
    BY <1>2
  <2>2. /\ IsFiniteSet(making \ ahead1) /\ IsFiniteSet(making \ {i})
        /\ Cardinality(making \ ahead1) \in Nat
    BY FS_Difference, FS_CardinalityType DEF Fits
  <2>3. /\ Cardinality((making \ {i}) \ ahead1) \in Nat
        /\ Cardinality((making \ {i}) \ ahead1) <= Cardinality(making \ ahead1)
    BY <2>1, <2>2, FS_Subset, FS_CardinalityType
  <2>4. Cardinality((making \ {i}) \ ahead1) <= SegmentConcurrency
    BY <2>2, <2>3, SessionsAssumption DEF Fits, SessionsAssumption
  <2>5. Fits(making \ {i}, ahead1, loop)
    BY <1>2, <2>2, <2>4 DEF Fits
  <2>6. (loop /\ i \notin ahead1) = loop
    BY <1>2 DEF Fits
  <2> QED
    BY <1>2, <2>1, <2>5, <2>6
<1> QED
  BY <1>1, <1>2

LEMMA RunOverFits ==
    ASSUME Types, FfmpegBudget, NEW s \in SessionIds, NEW i \in producing[s], Over(s, i)
    PROVE  FfmpegBudget' /\ MakingTypes'
<1>1. Fits(producing[s] \ {i}, background[s] \ {i}, looping[s] /\ i \notin background[s])
  BY EachFits, OneLess
<1>2. /\ producing' = [producing EXCEPT ![s] = producing[s] \ {i}]
      /\ background' = [background EXCEPT ![s] = background[s] \ {i}]
      /\ looping' = [looping EXCEPT ![s] = looping[s] /\ i \notin background[s]]
  BY DEF Over
<1> QED
  BY <1>1, <1>2, OneChanges

\* A request, its own production first.
LEMMA RequestFits ==
    ASSUME Types, FfmpegBudget, NEW s \in SessionIds, NEW i \in Int, NEW making,
           making = producing[s] \/ making = Requested(s, i)
    PROVE  /\ making \in SUBSET Int /\ IsFiniteSet(making)
           /\ Cardinality(making \ background[s]) <= SegmentConcurrency
           /\ Fits(making, background[s], looping[s])
<1>1. Fits(producing[s], background[s], looping[s])
  BY EachFits
<1>2. Cardinality(Requests(s)) <= SegmentConcurrency
  BY DEF FfmpegBudget
<1> QED
  BY <1>1, <1>2, RequestedFits DEF Fits

LEMMA MakingStep ==
    ASSUME Types, FfmpegBudget, [Next]_vars
    PROVE  FfmpegBudget' /\ MakingTypes' /\ ahead' \in [SessionIds -> Aim]
<1>1. \A s \in Live : table[s] \in Entry /\ s \in SessionIds
  BY LiveHolds
<1>2. NoWindow \in Aim
  BY DEF NoWindow, Aim
<1>3. ASSUME UNCHANGED makingVars
      PROVE  FfmpegBudget' /\ MakingTypes'
  BY <1>3 DEF makingVars, FfmpegBudget, Requests, Types, MakingTypes
<1>4. ASSUME NEW S \in SUBSET SessionIds, Dropped(S)
      PROVE  FfmpegBudget' /\ MakingTypes' /\ ahead' \in [SessionIds -> Aim]
  BY <1>2, <1>3, <1>4 DEF Dropped, Types
<1>5. Stale \in SUBSET SessionIds /\ \A s \in Live : {s} \in SUBSET SessionIds
  BY <1>1 DEF Stale
<1>6. ASSUME NEW s \in Live, NEW i \in Indices, AskSegment(s, i)
      PROVE  FfmpegBudget' /\ MakingTypes' /\ ahead' \in [SessionIds -> Aim]
  <2> DEFINE making == IF i \in disk[s] THEN producing[s] ELSE Requested(s, i)
  <2>1. i \in Int
    BY IndicesAreInts
  <2>2. /\ making \in SUBSET Int /\ IsFiniteSet(making)
        /\ Cardinality(making \ background[s]) <= SegmentConcurrency
        /\ Fits(making, background[s], looping[s])
    BY <1>1, <2>1, RequestFits
  <2>3. Aimed(s, i) \in Aim
    BY <2>1, AimedType
  <2>4. ahead' \in [SessionIds -> Aim]
    BY <1>1, <1>6, <2>3 DEF AskSegment, Types
  <2>5. CASE looping[s] \/ Depth(s) = 0
    <3>1. /\ producing' = [producing EXCEPT ![s] = making]
          /\ background' = [background EXCEPT ![s] = background[s]]
          /\ looping' = [looping EXCEPT ![s] = looping[s]]
      BY <1>1, <1>6, <2>5 DEF AskSegment, Types
    <3> HIDE DEF making
    <3> QED
      BY <1>1, <2>2, <2>4, <3>1, OneChanges
  <2>6. CASE ~(looping[s] \/ Depth(s) = 0)
    <3>1. LoopLooks(s, Aimed(s, i), disk[s], making)
      BY <1>6, <2>6 DEF AskSegment
    <3>2. background[s] = {}
      BY <1>1, <2>6 DEF FfmpegBudget
    <3> HIDE DEF making
    <3>3. making \ background[s] = making
      BY <3>2
    <3>4. Cardinality(making) <= SegmentConcurrency
      BY <2>2, <3>3
    <3> QED
      BY <1>1, <2>2, <2>3, <2>4, <3>1, <3>4, LookFits
  <2> QED
    BY <2>5, <2>6
<1>7. ASSUME NEW s \in Live, AskInit(s)
      PROVE  FfmpegBudget' /\ MakingTypes' /\ ahead' \in [SessionIds -> Aim]
  <2> DEFINE making == IF s \in init THEN producing[s] ELSE Requested(s, 0)
  <2>1. Fits(making, background[s], looping[s])
    <3>1. (making = producing[s] \/ making = Requested(s, 0)) /\ 0 \in Int /\ s \in SessionIds
      BY <1>1
    <3> HIDE DEF making
    <3> QED
      BY <3>1, RequestFits
  <2>2. /\ producing' = [producing EXCEPT ![s] = making]
        /\ background' = [background EXCEPT ![s] = background[s]]
        /\ looping' = [looping EXCEPT ![s] = looping[s]]
        /\ ahead' = ahead
    BY <1>1, <1>7 DEF AskInit, Types
  <2> HIDE DEF making
  <2> QED
    BY <1>1, <2>1, <2>2, OneChanges DEF Types
<1>8. ASSUME NEW s \in SessionIds, NEW i \in Indices, Publish(s, i)
      PROVE  FfmpegBudget' /\ MakingTypes' /\ ahead' \in [SessionIds -> Aim]
  <2> DEFINE landed == Append(produced[s], i)
             onDisk == (disk[s] \cup {i}) \ Evicted(landed, ahead[s])
  <2>1. i \in producing[s] /\ ahead' = ahead
    BY <1>8 DEF Publish
  <2>2. Fits(producing[s], background[s], looping[s])
    BY EachFits
  <2>3. CASE i \in background[s]
    <3>1. LoopLooks(s, ahead[s], onDisk, producing[s] \ {i})
      BY <1>8, <2>3 DEF Publish
    <3>2. /\ Cardinality(producing[s] \ {i}) <= SegmentConcurrency
          /\ producing[s] \ {i} \in SUBSET Int /\ IsFiniteSet(producing[s] \ {i})
      BY <2>2, <2>3, LastAhead
    <3>3. ahead[s] \in Aim
      BY DEF Types
    <3> HIDE DEF onDisk
    <3> QED
      BY <2>1, <3>1, <3>2, <3>3, LookFits DEF Types
  <2>4. CASE i \notin background[s]
    <3>1. /\ producing' = [producing EXCEPT ![s] = producing[s] \ {i}]
          /\ background' = [background EXCEPT ![s] = background[s]]
          /\ looping' = [looping EXCEPT ![s] = looping[s]]
      BY <1>8, <2>4 DEF Publish, Types
    <3>2. Fits(producing[s] \ {i}, background[s], looping[s])
      BY <2>1, <2>2, <2>4, OneLess
    <3> QED
      BY <2>1, <3>1, <3>2, OneChanges DEF Types
  <2> QED
    BY <2>3, <2>4
<1>9. ASSUME NEW s \in SessionIds, NEW i \in Indices, Fail(s, i) \/ StragglerExits(s, i)
      PROVE  FfmpegBudget' /\ MakingTypes' /\ ahead' \in [SessionIds -> Aim]
  <2>1. i \in producing[s] /\ Over(s, i) /\ ahead' = ahead
    BY <1>9 DEF Fail, StragglerExits
  <2> QED
    BY <2>1, RunOverFits DEF Types
<1>10. ASSUME NEW v \in Viewers, NEW k \in Keys, Join(v, k) \/ Open(v, k)
       PROVE  FfmpegBudget' /\ MakingTypes' /\ ahead' \in [SessionIds -> Aim]
  BY <1>3, <1>4, <1>5, <1>10 DEF Join, Open, Types
<1>11. ASSUME NEW k \in Keys, Refuse(k) \/ StartWithoutDirectory(k)
       PROVE  FfmpegBudget' /\ MakingTypes' /\ ahead' \in [SessionIds -> Aim]
  BY <1>4, <1>5, <1>11 DEF Refuse, StartWithoutDirectory, End
<1>12. ASSUME NEW s \in Live, \/ Touch(s) \/ GoesIdle(s) \/ GetsOld(s) \/ LeaveWithoutHandle(s)
                              \/ \E v \in Viewers : Leave(v, s)
       PROVE  FfmpegBudget' /\ MakingTypes' /\ ahead' \in [SessionIds -> Aim]
  BY <1>3, <1>4, <1>5, <1>12 DEF Touch, GoesIdle, GetsOld, LeaveWithoutHandle, Leave, End, Types
<1>13. ASSUME Restart
       PROVE  FfmpegBudget' /\ MakingTypes' /\ ahead' \in [SessionIds -> Aim]
  <2>1. IsFiniteSet({}) /\ Cardinality({}) = 0
    BY FS_EmptySet
  <2>2. FfmpegBudget'
    <3>1. \A s \in SessionIds : producing'[s] = {} /\ background'[s] = {} /\ looping'[s] = FALSE
      BY <1>13 DEF Restart
    <3>2. {} \ {} = {}
      OBVIOUS
    <3> QED
      BY <2>1, <3>1, <3>2, SessionsAssumption DEF FfmpegBudget, Requests, SessionsAssumption
  <2>3. MakingTypes' /\ ahead' \in [SessionIds -> Aim]
    BY <1>2, <1>13, <2>1 DEF Restart, MakingTypes
  <2> QED
    BY <2>2, <2>3
<1>14. UNCHANGED vars => FfmpegBudget' /\ MakingTypes' /\ ahead' \in [SessionIds -> Aim]
  BY <1>3 DEF vars, makingVars, Types
<1> QED
  BY <1>6, <1>7, <1>8, <1>9, <1>10, <1>11, <1>12, <1>13, <1>14 DEF Next

-----------------------------------------------------------------------------
(* Landings and the cache.                                                 *)

NoRepeat(q) == \A m, n \in DOMAIN q : q[m] = q[n] => m = n
Listed(q) == {q[n] : n \in DOMAIN q}

LEMMA HasLeast ==
    ASSUME NEW S \in SUBSET Nat, S # {}
    PROVE  \E i \in S : \A j \in S : i <= j
<1> DEFINE R == OpToRel(<, Nat)
<1>1. IsWellFoundedOn(R, Nat)
  BY NatLessThanWellFounded
<1>2. \A i, j \in Nat : j < i => <<j, i>> \in R
  BY DEF OpToRel
<1> HIDE DEF R
<1>3. PICK i \in S : \A j \in S : ~(<<j, i>> \in R)
  BY <1>1, WFMin
<1>4. ASSUME NEW j \in S
      PROVE  i <= j
  <2>1. i \in Nat /\ j \in Nat
    OBVIOUS
  <2>2. ~(j < i)
    BY <1>2, <1>3, <2>1, Zenon
  <2> QED
    BY <2>1, <2>2
<1> QED
  BY <1>4

LEMMA PositionsAreFinite ==
    ASSUME NEW L \in Nat, NEW P \in SUBSET (1 .. L), NEW n
    PROVE  /\ IsFiniteSet(P) /\ Cardinality(P) \in Nat
           /\ IsFiniteSet({m \in P : m < n}) /\ Before(P, n) \in Nat
<1>1. IsFiniteSet(1 .. L)
  BY FS_Interval
<1>2. IsFiniteSet(P) /\ {m \in P : m < n} \subseteq P
  BY <1>1, FS_Subset
<1> QED
  BY <1>2, FS_Subset, FS_CardinalityType DEF Before

\* More landings than a window has segments: one lies outside.
LEMMA OneIsOutside ==
    ASSUME NEW q \in Seq(Int), NoRepeat(q), NEW w \in Aim,
           (w.to - w.at) + 1 < Len(q), 0 < Len(q)
    PROVE  \E n \in DOMAIN q : q[n] \notin w.at .. w.to
<1> SUFFICES ASSUME \A n \in DOMAIN q : q[n] \in w.at .. w.to
             PROVE  FALSE
  OBVIOUS
<1> DEFINE W == w.at .. w.to
           D == 1 .. Len(q)
<1>1. Len(q) \in Nat /\ DOMAIN q = D /\ w.at \in Int /\ w.to \in Int
  BY DEF Aim
<1>2. IsFiniteSet(W) /\ Cardinality(W) = IF w.at > w.to THEN 0 ELSE (w.to - w.at) + 1
  BY <1>1, FS_Interval
<1>3. Cardinality(D) = Len(q)
  BY <1>1, FS_Interval
<1>4. q \in Injection(D, W)
  <2>1. q \in [D -> W]
    BY <1>1
  <2> HIDE DEF W
  <2> QED
    BY <1>1, <2>1 DEF Injection, IsInjective, NoRepeat
<1>5. Cardinality(D) <= Cardinality(W)
  <2> HIDE DEF W, D
  <2> QED
    BY <1>2, <1>4, FS_Injection
<1> QED
  BY <1>1, <1>2, <1>3, <1>5

\* With the window smaller than the cache, a landing too many costs the oldest
\* landing outside the window, and nothing else does.
LEMMA EvictedOne ==
    ASSUME NEW q \in Seq(Int), NoRepeat(q), NEW w \in Aim,
           (w.to - w.at) + 1 < SegmentCache, Len(q) <= SegmentCache + 1
    PROVE  \/ Len(q) <= SegmentCache /\ Evicted(q, w) = {}
           \/ /\ Len(q) = SegmentCache + 1
              /\ \E p \in DOMAIN q : q[p] \notin w.at .. w.to /\ Evicted(q, w) = {q[p]}
<1> DEFINE outside == {n \in DOMAIN q : q[n] \notin w.at .. w.to}
           L == Len(q)
           first == {m \in outside : Before(outside, m) < L - SegmentCache}
<1>1. /\ L \in Nat /\ DOMAIN q = 1 .. L /\ SegmentCache \in Nat
      /\ w.at \in Int /\ w.to \in Int
      /\ L <= SegmentCache + 1
  BY SessionsAssumption DEF SessionsAssumption, Aim
<1>2. Evicted(q, w) = {q[n] : n \in first}
  BY DEF Evicted
<1>3. outside \in SUBSET (1 .. L)
  BY <1>1
<1>4. outside \in SUBSET Nat /\ \A m \in outside : Before(outside, m) \in Nat
  <2> HIDE DEF outside, L
  <2>1. outside \in SUBSET Nat
    BY <1>1, <1>3
  <2> QED
    BY <1>1, <1>3, <2>1, PositionsAreFinite
<1>5. CASE L <= SegmentCache
  <2>1. \A m \in outside : ~(Before(outside, m) < L - SegmentCache)
    <3> HIDE DEF outside, L
    <3> QED
      BY <1>1, <1>4, <1>5
  <2>2. first = {}
    BY <2>1, Zenon
  <2> QED
    BY <1>2, <1>5, <2>2
<1>6. CASE L > SegmentCache
  <2>1. (w.to - w.at) + 1 < L /\ 0 < L
    <3> HIDE DEF L
    <3> QED
      BY <1>1, <1>6
  <2>2. outside # {}
    BY <2>1, OneIsOutside
  <2>3. PICK p \in outside : \A m \in outside : p <= m
    <3> HIDE DEF outside
    <3> QED
      BY <1>4, <2>2, HasLeast
  <2> HIDE DEF outside, L
  <2>4. L - SegmentCache = 1 /\ L = SegmentCache + 1
    BY <1>1, <1>6
  <2>5. Before(outside, p) = 0
    <3>1. \A m \in outside : ~(m < p)
      BY <1>4, <2>3
    <3>2. {m \in outside : m < p} = {}
      BY <3>1
    <3> QED
      BY <3>2, FS_EmptySet DEF Before
  <2>6. ASSUME NEW m \in outside, m # p
        PROVE  Before(outside, m) >= 1
    <3>1. p \in {n \in outside : n < m}
      BY <1>4, <2>3, <2>6
    <3>2. IsFiniteSet({n \in outside : n < m}) /\ Before(outside, m) \in Nat
      BY <1>1, <1>3, PositionsAreFinite
    <3>3. Before(outside, m) # 0
      BY <3>1, <3>2, FS_EmptySet DEF Before
    <3> QED
      BY <3>2, <3>3
  <2>7. first = {p}
    <3>1. \A m \in outside : Before(outside, m) < 1 <=> m = p
      BY <1>4, <2>3, <2>5, <2>6
    <3> QED
      BY <2>3, <2>4, <3>1
  <2>8. Evicted(q, w) = {q[p]}
    BY <1>2, <2>7
  <2>9. p \in DOMAIN q /\ q[p] \notin w.at .. w.to
    BY <2>3 DEF outside
  <2> QED
    BY <2>4, <2>8, <2>9 DEF L
<1>7. L <= SegmentCache \/ L > SegmentCache
  <2> HIDE DEF L
  <2> QED
    BY <1>1
<1> QED
  BY <1>5, <1>6, <1>7

\* What is left when the landing of one position goes; of the position after the
\* last, nothing.
LEMMA SplicedAt ==
    ASSUME NEW T, NEW q \in Seq(T), NEW p \in 1 .. Len(q) + 1, NEW gone,
           \A n \in DOMAIN q : q[n] \in gone <=> n = p
    PROVE  LET r == Spliced(q, gone) IN
           /\ r \in Seq(T)
           /\ Len(r) = IF p <= Len(q) THEN Len(q) - 1 ELSE Len(q)
           /\ \A k \in DOMAIN r : r[k] = q[IF k < p THEN k ELSE k + 1]
<1> DEFINE L == Len(q)
           len == IF p <= L THEN L - 1 ELSE L
           D == 1 .. len
           at == [k \in D |-> IF k < p THEN k ELSE k + 1]
           stay == {n \in DOMAIN q : q[n] \notin gone}
           r == Spliced(q, gone)
           nth(k) == CHOOSE n \in stay : Before(stay, n) = k - 1
<1>1. L \in Nat /\ DOMAIN q = 1 .. L /\ p \in 1 .. L + 1 /\ len \in Nat
  OBVIOUS
<1>2. stay = (1 .. L) \ {p}
  BY <1>1
<1> HIDE DEF L
<1>3. at \in [D -> stay] /\ \A k \in D : at[k] \in Nat
  BY <1>1, <1>2
<1>4. \A n \in stay : \E k \in D : at[k] = n
  <2>1. ASSUME NEW n \in 1 .. L, n < p
        PROVE  n \in D /\ at[n] = n
    BY <1>1, <2>1
  <2>2. ASSUME NEW n \in 1 .. L, n > p
        PROVE  n - 1 \in D /\ at[n - 1] = n
    BY <1>1, <2>2
  <2>3. \A n \in stay : n \in 1 .. L /\ (n < p \/ n > p)
    BY <1>1, <1>2
  <2> HIDE DEF at, D, stay
  <2> QED
    BY <2>1, <2>2, <2>3
<1>5. ASSUME NEW k \in D
      PROVE  Before(stay, at[k]) = k - 1
  <2>1. CASE k < p
    <3>1. {m \in stay : m < at[k]} = 1 .. (k - 1)
      BY <1>1, <1>2, <2>1
    <3>2. Cardinality(1 .. (k - 1)) = k - 1
      BY <1>1, FS_Interval
    <3> QED
      BY <3>1, <3>2 DEF Before
  <2>2. CASE ~(k < p)
    <3>1. {m \in stay : m < at[k]} = (1 .. k) \ {p}
      BY <1>1, <1>2, <2>2
    <3>2. IsFiniteSet(1 .. k) /\ Cardinality(1 .. k) = k /\ p \in 1 .. k
      <4>1. k \in Int /\ k >= 1 /\ p \in 1 .. k
        BY <1>1, <2>2
      <4>2. 1 \in Int /\ ~(1 > k) /\ (k - 1) + 1 = k
        BY <4>1
      <4> HIDE DEF D
      <4>3. IsFiniteSet(1 .. k) /\ Cardinality(1 .. k) = (k - 1) + 1
        BY <4>1, <4>2, FS_Interval
      <4> QED
        BY <4>1, <4>2, <4>3
    <3>3. Cardinality((1 .. k) \ {p}) = k - 1
      BY <3>2, FS_RemoveElement
    <3> QED
      BY <3>1, <3>3 DEF Before
  <2> QED
    BY <2>1, <2>2
<1>6. \A k, l \in D : at[k] = at[l] => k = l
  BY <1>1
<1>7. Cardinality(stay) = len
  <2>1. IsFiniteSet(D) /\ Cardinality(D) = len
    <3> HIDE DEF len
    <3>1. len \in Int /\ 1 \in Int /\ (IF 1 > len THEN 0 ELSE (len - 1) + 1) = len
      BY <1>1
    <3>2. IsFiniteSet(1 .. len) /\ Cardinality(1 .. len) = IF 1 > len THEN 0 ELSE (len - 1) + 1
      BY <3>1, FS_Interval
    <3> QED
      BY <3>1, <3>2
  <2> HIDE DEF stay, D, at
  <2>2. at \in Injection(D, stay) /\ at \in Surjection(D, stay)
    BY <1>3, <1>4, <1>6 DEF Injection, Surjection, IsInjective
  <2>3. ExistsBijection(D, stay)
    BY <2>2 DEF ExistsBijection, Bijection
  <2> QED
    BY <2>1, <2>3, FS_Bijection
<1>8. ASSUME NEW k \in D
      PROVE  nth(k) = at[k]
  <2>1. at[k] \in stay /\ Before(stay, at[k]) = k - 1
    BY <1>3, <1>5
  <2>2. ASSUME NEW n \in stay, Before(stay, n) = k - 1
        PROVE  n = at[k]
    <3>1. PICK l \in D : at[l] = n
      BY <1>4
    <3>2. l - 1 = k - 1
      BY <1>5, <2>2, <3>1, Zenon
    <3>3. l = k
      BY <1>1, <3>2
    <3> QED
      BY <3>1, <3>3
  <2> HIDE DEF stay, at
  <2> QED
    BY <2>1, <2>2
<1>9. r = [k \in 1 .. len |-> q[nth(k)]]
  <2>1. r = [k \in 1 .. Cardinality(stay) |-> q[nth(k)]]
    BY DEF Spliced
  <2> QED
    BY <1>7, <2>1
<1>10. \A k \in D : q[at[k]] \in T
  BY <1>1, <1>3
<1>11. \A k \in D : r[k] = q[at[k]]
  <2> HIDE DEF at, stay, nth, r
  <2> QED
    BY <1>8, <1>9
<1>12. r \in Seq(T) /\ Len(r) = len /\ DOMAIN r = D
  <2>1. r = [k \in 1 .. len |-> r[k]]
    <3> HIDE DEF nth, r
    <3> QED
      BY <1>9
  <2> HIDE DEF at, nth, r, len
  <2> QED
    BY <1>1, <1>10, <1>11, <2>1
<1>13. \A k \in DOMAIN r : r[k] = q[IF k < p THEN k ELSE k + 1]
  BY <1>11, <1>12
<1> QED
  BY <1>12, <1>13 DEF L

LEMMA SplicedNone ==
    ASSUME NEW T, NEW q \in Seq(T)
    PROVE  LET r == Spliced(q, {}) IN
           /\ r \in Seq(T) /\ Len(r) = Len(q)
           /\ \A k \in DOMAIN q : r[k] = q[k]
<1> DEFINE p == Len(q) + 1
           r == Spliced(q, {})
<1>1. p \in 1 .. Len(q) + 1 /\ ~(p <= Len(q)) /\ \A n \in DOMAIN q : q[n] \in {} <=> n = p
  OBVIOUS
<1>2. /\ r \in Seq(T) /\ Len(r) = Len(q)
      /\ \A k \in DOMAIN r : r[k] = q[IF k < p THEN k ELSE k + 1]
  <2> HIDE DEF p
  <2> QED
    BY <1>1, SplicedAt
<1> HIDE DEF r
<1>3. \A k \in DOMAIN q : k \in DOMAIN r /\ k < p
  BY <1>2
<1> QED
  BY <1>2, <1>3 DEF r

\* One member less, and the others keep their order.
LEMMA SplicedOne ==
    ASSUME NEW T, NEW q \in Seq(T), NoRepeat(q), NEW p \in DOMAIN q
    PROVE  LET r == Spliced(q, {q[p]}) IN
           /\ r \in Seq(T) /\ Len(r) = Len(q) - 1
           /\ NoRepeat(r) /\ Listed(r) = Listed(q) \ {q[p]}
<1> DEFINE gone == {q[p]}
           r == Spliced(q, gone)
           back(k) == IF k < p THEN k ELSE k + 1
<1>1. /\ Len(q) \in Nat /\ DOMAIN q = 1 .. Len(q) /\ p \in 1 .. Len(q) + 1 /\ p <= Len(q)
      /\ p \in Nat
      /\ \A n \in DOMAIN q : q[n] \in gone <=> n = p
  BY DEF NoRepeat
<1>2. /\ r \in Seq(T) /\ Len(r) = Len(q) - 1
      /\ \A k \in DOMAIN r : r[k] = q[back(k)]
  <2> HIDE DEF gone
  <2> QED
    BY <1>1, SplicedAt
<1> HIDE DEF r
<1>3. DOMAIN r = 1 .. Len(q) - 1
  BY <1>2
<1>4. \A k \in DOMAIN r : back(k) \in DOMAIN q /\ back(k) # p
  BY <1>1, <1>3
<1>5. \A k, l \in DOMAIN r : back(k) = back(l) => k = l
  BY <1>1, <1>3
<1>6. ASSUME NEW n \in DOMAIN q, n # p
      PROVE  \E k \in DOMAIN r : back(k) = n
  <2>1. CASE n < p
    <3>1. n \in DOMAIN r /\ back(n) = n
      BY <1>1, <1>3, <2>1
    <3> QED
      BY <3>1
  <2>2. CASE n > p
    <3>1. n - 1 \in DOMAIN r /\ back(n - 1) = n
      BY <1>1, <1>3, <2>2
    <3> QED
      BY <3>1
  <2> QED
    BY <1>1, <1>6, <2>1, <2>2
<1> HIDE DEF back
<1>7. NoRepeat(r)
  <2> SUFFICES ASSUME NEW m \in DOMAIN r, NEW n \in DOMAIN r, r[m] = r[n]
               PROVE  m = n
    BY DEF NoRepeat
  <2>1. back(m) \in DOMAIN q /\ back(n) \in DOMAIN q /\ q[back(m)] = q[back(n)]
    BY <1>2, <1>4
  <2>2. back(m) = back(n)
    BY <2>1, Zenon DEF NoRepeat
  <2> QED
    BY <1>5, <2>2
<1>8. Listed(r) = {q[n] : n \in DOMAIN q \ {p}}
  <2>1. \A k \in DOMAIN r : \E n \in DOMAIN q \ {p} : r[k] = q[n]
    BY <1>2, <1>4
  <2>2. \A n \in DOMAIN q \ {p} : \E k \in DOMAIN r : q[n] = r[k]
    BY <1>2, <1>6
  <2> QED
    BY <2>1, <2>2 DEF Listed
<1>9. {q[n] : n \in DOMAIN q \ {p}} = Listed(q) \ {q[p]}
  BY DEF Listed, NoRepeat
<1> QED
  BY <1>2, <1>7, <1>8, <1>9 DEF r

\* As many members as landings, when none repeats.
LEMMA ListedOnce ==
    ASSUME NEW T, NEW q \in Seq(T), NoRepeat(q)
    PROVE  Cardinality(Listed(q)) = Len(q)
<1> DEFINE L == Len(q)
           D == 1 .. L
<1>1. L \in Nat /\ DOMAIN q = D
  OBVIOUS
<1>2. IsFiniteSet(D) /\ Cardinality(D) = L
  <2> HIDE DEF L
  <2>1. L \in Int /\ 1 \in Int /\ (IF 1 > L THEN 0 ELSE (L - 1) + 1) = L
    BY <1>1
  <2>2. IsFiniteSet(1 .. L) /\ Cardinality(1 .. L) = IF 1 > L THEN 0 ELSE (L - 1) + 1
    BY <2>1, FS_Interval
  <2> QED
    BY <2>1, <2>2
<1>3. q \in [D -> Listed(q)] /\ \A x \in Listed(q) : \E n \in D : q[n] = x
  <2>1. q = [n \in D |-> q[n]]
    BY <1>1
  <2> HIDE DEF D
  <2> QED
    BY <1>1, <2>1 DEF Listed
<1> HIDE DEF D, L
<1>4. ExistsBijection(D, Listed(q))
  <2>1. q \in Injection(D, Listed(q)) /\ q \in Surjection(D, Listed(q))
    BY <1>1, <1>3 DEF Injection, Surjection, IsInjective, NoRepeat
  <2> QED
    BY <2>1 DEF ExistsBijection, Bijection
<1>5. Cardinality(Listed(q)) = L
  BY <1>2, <1>4, FS_Bijection
<1> QED
  BY <1>5 DEF L

\* One landing more.
LEMMA Landed ==
    ASSUME NEW T, NEW q \in Seq(T), NoRepeat(q), NEW i \in T, i \notin Listed(q)
    PROVE  LET r == Append(q, i) IN
           /\ r \in Seq(T) /\ Len(r) = Len(q) + 1
           /\ NoRepeat(r) /\ Listed(r) = Listed(q) \cup {i}
<1> DEFINE r == Append(q, i)
<1>1. /\ Len(q) \in Nat /\ DOMAIN q = 1 .. Len(q) /\ DOMAIN r = 1 .. Len(q) + 1
      /\ r[Len(q) + 1] = i /\ \A n \in DOMAIN q : r[n] = q[n]
      /\ r \in Seq(T) /\ Len(r) = Len(q) + 1
  OBVIOUS
<1> HIDE DEF r
<1>2. \A n \in DOMAIN r : n \in DOMAIN q \/ n = Len(q) + 1
  BY <1>1
<1>3. \A n \in DOMAIN q : q[n] # i /\ n \in DOMAIN r
  BY <1>1 DEF Listed
<1>4. NoRepeat(r)
  BY <1>1, <1>2, <1>3 DEF NoRepeat
<1>5. Listed(r) = Listed(q) \cup {i}
  <2>1. Len(q) + 1 \in DOMAIN r
    BY <1>1
  <2> QED
    BY <1>1, <1>2, <1>3, <2>1 DEF Listed
<1> QED
  BY <1>1, <1>4, <1>5 DEF r

-----------------------------------------------------------------------------
(* The books of one session.                                               *)

\* A session that is gone has nothing; a live one has, listed once each, what lies
\* on its disk, none of it being made again, and a window within the film.
Bare(s) == produced[s] = <<>> /\ disk[s] = {} /\ ahead[s] = NoWindow
KeptUp(s) == ahead[s].from .. ahead[s].to \subseteq disk[s] \cup producing[s] \/ looping[s]
Orderly(s) ==
    /\ NoRepeat(produced[s])
    /\ disk[s] = Listed(produced[s])
    /\ Len(produced[s]) <= SegmentCache
    /\ disk[s] \cap producing[s] = {}
    /\ disk[s] # {} => s \in init
    /\ ahead[s].from = ahead[s].at + 1
    /\ ahead[s].to <= ahead[s].at + Depth(s)
    /\ ahead[s].to <= LastSegment[table[s].key]
    /\ s \notin failed => KeptUp(s)

SessionKept(s) ==
    /\ producing[s] \in SUBSET Indices /\ background[s] \in SUBSET Indices
    /\ produced[s] \in Seq(Indices) /\ disk[s] \in SUBSET Indices
    /\ ahead[s] \in Window \cup {NoWindow}
    /\ table[s] = NoEntry => Bare(s)
    /\ table[s] # NoEntry => Orderly(s)

BooksKept ==
    /\ produced \in [SessionIds -> Seq(Indices)]
    /\ disk \in [SessionIds -> SUBSET Indices]
    /\ init \subseteq SessionIds /\ failed \subseteq SessionIds /\ refused \in BOOLEAN
    /\ \A s \in SessionIds : SessionKept(s)

\* The entry of s stays: gone, or under its key.
SameEntry(s) ==
    \/ table'[s] = table[s]
    \/ table[s] \in Entry /\ table'[s] \in Entry /\ table'[s].key = table[s].key

SameBooks(s) ==
    /\ producing'[s] = producing[s] /\ background'[s] = background[s]
    /\ looping'[s] = looping[s] /\ ahead'[s] = ahead[s]
    /\ produced'[s] = produced[s] /\ disk'[s] = disk[s]
    /\ s \in init' <=> s \in init
    /\ s \in failed' <=> s \in failed

LEMMA IndicesAreNats == Indices \subseteq Nat
BY SessionsAssumption DEF SessionsAssumption, Indices

LEMMA SameSession ==
    ASSUME NEW s, SessionKept(s), SameEntry(s), SameBooks(s)
    PROVE  SessionKept(s)'
BY NoEntryIsNone DEF SessionKept, SameEntry, SameBooks, Bare, Orderly, KeptUp, Depth

\* A session that ended, whose ffmpegs may still run.
LEMMA GoneSession ==
    ASSUME NEW s, SessionKept(s),
           table'[s] = NoEntry, Bare(s)',
           producing'[s] \subseteq producing[s], background'[s] \subseteq background[s]
    PROVE  SessionKept(s)'
BY DEF SessionKept, Bare

\* A session that begins.
LEMMA NewSession ==
    ASSUME NEW s, SessionKept(s), NEW e \in Entry, table'[s] = e, Bare(s)',
           UNCHANGED <<producing[s], background[s]>>
    PROVE  SessionKept(s)'
<1>1. LastSegment[e.key] \in Nat /\ Depth(s)' \in Nat /\ SegmentCache \in Nat
  BY SessionsAssumption DEF SessionsAssumption, Entry, Depth
<1>2. NoRepeat(<<>>) /\ Listed(<<>>) = {} /\ <<>> \in Seq(Indices) /\ Len(<<>>) = 0
  BY DEF NoRepeat, Listed
<1>3. 1 .. -1 = {}
  OBVIOUS
<1>4. KeptUp(s)'
  BY <1>3 DEF KeptUp, Bare, NoWindow
<1>5. Orderly(s)'
  BY <1>1, <1>2, <1>4 DEF Orderly, Bare, NoWindow
<1> QED
  BY <1>2, <1>5, NoEntryIsNone DEF SessionKept, Bare

\* What the loop finds to do: in the film, and nothing only if nothing is missing.
LEMMA LooksWithin ==
    ASSUME NEW w \in Window \cup {NoWindow}, NEW k \in Keys, w.to <= LastSegment[k],
           NEW onDisk, NEW making
    PROVE  LET next == NextAhead(w, onDisk, making) IN
           /\ next \in SUBSET Indices
           /\ next \cap onDisk = {}
           /\ next = {} => w.from .. w.to \subseteq onDisk \cup making
<1> DEFINE missing == (w.from .. w.to) \ (onDisk \cup making)
           next == NextAhead(w, onDisk, making)
<1>1. w.from \in Nat /\ w.to \in Int /\ LastSegment[k] \in Nat
  BY SessionsAssumption DEF SessionsAssumption, Window, NoWindow
<1>2. w.from .. w.to \subseteq 0 .. LastSegment[k]
  BY <1>1
<1>3. 0 .. LastSegment[k] \subseteq Indices
  BY DEF Indices
<1>4. next \subseteq missing /\ missing \subseteq w.from .. w.to
  BY DEF NextAhead
<1>5. missing # {} => next # {}
  <2> SUFFICES ASSUME missing # {}
               PROVE  next # {}
    OBVIOUS
  <2>1. missing \in SUBSET Nat
    BY <1>1
  <2> HIDE DEF missing
  <2>2. \E i \in missing : \A j \in missing : i <= j
    BY <2>1, HasLeast
  <2> QED
    BY <2>2 DEF NextAhead, missing
<1> QED
  BY <1>2, <1>3, <1>4, <1>5

-----------------------------------------------------------------------------
(* The step of one session.                                                *)

\* `segmentPath`: the segment is made unless it is there, and the window moves on.
LEMMA AskKeeps ==
    ASSUME Types, Types', NEW s \in Live, NEW i \in Indices, AskSegment(s, i),
           SessionKept(s), SameEntry(s), table'[s] # NoEntry, disk' = disk, produced' = produced
    PROVE  SessionKept(s)'
<1> DEFINE making == IF i \in disk[s] THEN producing[s] ELSE Requested(s, i)
           w == Aimed(s, i)
<1>1. /\ s \in SessionIds /\ table[s] \in Entry /\ table'[s].key = table[s].key
      /\ table[s].key \in Keys /\ LastSegment[table[s].key] \in Nat
      /\ Depth(s) \in Nat /\ Depth(s)' = Depth(s)
      /\ Orderly(s) /\ i \in Nat /\ i <= LastSegment[table[s].key]
  BY LiveHolds, DepthIsNat, IndicesAreNats, NoEntryIsNone, SessionsAssumption
     DEF SessionsAssumption, SessionKept, Entry, SameEntry, Depth, AskSegment, Segments
<1>2. /\ ahead'[s] = w /\ init' = init
      /\ \A t : t \in failed' => t \in failed
  BY <1>1 DEF AskSegment, booksVars, Types
<1>3. /\ making \in SUBSET Indices /\ producing[s] \subseteq making
      /\ disk[s] \cap making = {}
  <2>1. making \subseteq producing[s] \cup {i} /\ producing[s] \subseteq making
    BY DEF Requested
  <2>2. i \in disk[s] => making = producing[s]
    OBVIOUS
  <2> HIDE DEF making
  <2> QED
    BY <1>1, <2>1, <2>2 DEF SessionKept, Orderly
<1>4. CASE Depth(s) = 0
  <2>1. /\ producing'[s] = making /\ background'[s] = background[s]
        /\ looping'[s] = looping[s] /\ ahead'[s] = ahead[s]
    BY <1>1, <1>2, <1>4 DEF AskSegment, Types, Aimed
  <2>2. KeptUp(s)'
    <3>1. /\ ahead[s].from = ahead[s].at + 1 /\ ahead[s].to <= ahead[s].at + 0
          /\ ahead[s].at \in Int /\ ahead[s].to \in Int
      BY <1>1, <1>4 DEF Orderly, Types, Aim
    <3>2. ahead[s].from .. ahead[s].to = {}
      BY <3>1
    <3> QED
      BY <2>1, <3>2 DEF KeptUp
  <2> HIDE DEF making
  <2> QED
    BY <1>1, <1>2, <1>3, <2>1, <2>2 DEF SessionKept, Orderly
<1>5. ASSUME Depth(s) # 0
      PROVE  /\ w \in Window /\ w.from = w.at + 1 /\ w.to <= w.at + Depth(s)
             /\ w.to <= LastSegment[table[s].key]
  <2>1. w = [at |-> i, from |-> i + 1, to |-> Clamped(i + Depth(s), s)]
    BY <1>5 DEF Aimed
  <2>2. Clamped(i + Depth(s), s) \in Nat
    BY <1>1 DEF Clamped
  <2>3. /\ Clamped(i + Depth(s), s) <= i + Depth(s)
        /\ Clamped(i + Depth(s), s) <= LastSegment[table[s].key]
    BY <1>1 DEF Clamped
  <2> QED
    BY <1>1, <2>1, <2>2, <2>3 DEF Window
<1>6. CASE Depth(s) # 0 /\ looping[s]
  <2>1. /\ producing'[s] = making /\ background'[s] = background[s] /\ looping'[s] = looping[s]
    BY <1>1, <1>6 DEF AskSegment, Types
  <2>2. KeptUp(s)'
    BY <1>6, <2>1 DEF KeptUp
  <2> HIDE DEF making, w
  <2> QED
    BY <1>1, <1>2, <1>3, <1>5, <1>6, <2>1, <2>2 DEF SessionKept, Orderly
<1>7. CASE Depth(s) # 0 /\ ~looping[s]
  <2> DEFINE next == NextAhead(w, disk[s], making)
  <2>1. /\ producing'[s] = making \cup next /\ background'[s] = next
        /\ looping'[s] = (next # {})
    BY <1>1, <1>7 DEF AskSegment, LoopLooks, Types
  <2> HIDE DEF making, w
  <2>2. /\ next \in SUBSET Indices /\ next \cap disk[s] = {}
        /\ next = {} => w.from .. w.to \subseteq disk[s] \cup making
    BY <1>1, <1>5, <1>7, LooksWithin
  <2> HIDE DEF next
  <2>3. KeptUp(s)'
    BY <1>2, <2>1, <2>2 DEF KeptUp
  <2> QED
    BY <1>1, <1>2, <1>3, <1>5, <1>7, <2>1, <2>2, <2>3 DEF SessionKept, Orderly
<1> QED
  BY <1>4, <1>6, <1>7

\* `initPath`: segment 0 is made for its initialisation only where nothing is on
\* disk yet.
LEMMA AskInitKeeps ==
    ASSUME Types, NEW s \in Live, AskInit(s), SessionKept(s), SameEntry(s), table'[s] # NoEntry
    PROVE  SessionKept(s)'
<1>1. /\ s \in SessionIds /\ table[s] \in Entry /\ table'[s].key = table[s].key
      /\ table[s].key \in Keys /\ LastSegment[table[s].key] \in Nat
      /\ Orderly(s) /\ Depth(s)' = Depth(s)
  BY LiveHolds, NoEntryIsNone, SessionsAssumption
     DEF SessionsAssumption, SessionKept, Entry, SameEntry, Depth
<1>2. /\ UNCHANGED <<background, looping, ahead, produced, disk, init, failed>>
      /\ producing[s] \subseteq producing'[s]
      /\ producing'[s] \subseteq producing[s] \cup {0}
      /\ s \in init => producing'[s] = producing[s]
  BY <1>1 DEF AskInit, booksVars, Types, Requested
<1>3. 0 \in Indices
  BY <1>1 DEF Indices
<1>4. producing'[s] \in SUBSET Indices /\ disk[s] \cap producing'[s] = {}
  BY <1>1, <1>2, <1>3 DEF SessionKept, Orderly
<1>5. KeptUp(s) => KeptUp(s)'
  BY <1>2 DEF KeptUp
<1> QED
  BY <1>1, <1>2, <1>4, <1>5 DEF SessionKept, Orderly

\* `publish` and `evict`: the books after a landing.  What goes lies outside the
\* window, so nothing the window names is lost.
LEMMA LandingKeeps ==
    ASSUME Types, NEW s \in Live, NEW i \in producing[s], SessionKept(s)
    PROVE  LET landed == Append(produced[s], i)
               gone == Evicted(landed, ahead[s])
               left == Spliced(landed, gone)
           IN  /\ left \in Seq(Indices) /\ NoRepeat(left)
               /\ Listed(left) = (disk[s] \cup {i}) \ gone
               /\ Len(left) <= SegmentCache
               /\ gone \cap (ahead[s].at .. ahead[s].to) = {}
<1> DEFINE landed == Append(produced[s], i)
           w == ahead[s]
           gone == Evicted(landed, w)
           left == Spliced(landed, gone)
<1>1. /\ s \in SessionIds /\ table[s] \in Entry /\ Orderly(s) /\ Depth(s) \in Nat
      /\ i \in Indices /\ i \notin Listed(produced[s]) /\ produced[s] \in Seq(Indices)
      /\ SegmentCache \in Nat /\ Depth(s) + 1 < SegmentCache
  BY LiveHolds, DepthIsNat, NoEntryIsNone, SessionsAssumption, CacheAssumption
     DEF SessionsAssumption, CacheAssumption, SessionKept, Orderly, Depth
<1>2. /\ landed \in Seq(Indices) /\ NoRepeat(landed)
      /\ Len(landed) = Len(produced[s]) + 1
      /\ Listed(landed) = disk[s] \cup {i}
  BY <1>1, Landed DEF Orderly
<1>3. w \in Aim /\ w.from = w.at + 1 /\ w.to <= w.at + Depth(s)
  BY <1>1 DEF Types, Orderly
<1> HIDE DEF landed
<1>4. landed \in Seq(Int) /\ Len(landed) \in Nat /\ Len(landed) <= SegmentCache + 1
  <2>1. Indices \subseteq Int
    BY IndicesAreInts
  <2>2. Len(produced[s]) \in Nat /\ Len(produced[s]) <= SegmentCache
    BY <1>1 DEF Orderly
  <2> QED
    BY <1>1, <1>2, <2>1, <2>2
<1>5. (w.to - w.at) + 1 < SegmentCache
  BY <1>1, <1>3 DEF Aim
<1> HIDE DEF w
<1>6. \/ Len(landed) <= SegmentCache /\ gone = {}
      \/ /\ Len(landed) = SegmentCache + 1
         /\ \E p \in DOMAIN landed : landed[p] \notin w.at .. w.to /\ gone = {landed[p]}
  BY <1>2, <1>3, <1>4, <1>5, EvictedOne
<1> HIDE DEF gone
<1>7. CASE Len(landed) <= SegmentCache /\ gone = {}
  <2>1. /\ left \in Seq(Indices) /\ Len(left) = Len(landed)
        /\ \A k \in DOMAIN landed : left[k] = landed[k]
    BY <1>2, <1>7, SplicedNone
  <2> HIDE DEF left
  <2>2. DOMAIN left = DOMAIN landed
    BY <1>2, <2>1
  <2>3. NoRepeat(left) /\ Listed(left) = Listed(landed)
    BY <1>2, <2>1, <2>2 DEF NoRepeat, Listed
  <2> QED
    BY <1>2, <1>7, <2>1, <2>3 DEF w, gone, landed, left
<1>8. ASSUME NEW p \in DOMAIN landed, Len(landed) = SegmentCache + 1,
             landed[p] \notin w.at .. w.to, gone = {landed[p]}
      PROVE  /\ left \in Seq(Indices) /\ NoRepeat(left)
             /\ Listed(left) = (disk[s] \cup {i}) \ gone
             /\ Len(left) <= SegmentCache
             /\ gone \cap (w.at .. w.to) = {}
  <2>1. /\ left \in Seq(Indices) /\ Len(left) = Len(landed) - 1
        /\ NoRepeat(left) /\ Listed(left) = Listed(landed) \ {landed[p]}
    BY <1>2, <1>8, SplicedOne
  <2> HIDE DEF left
  <2> QED
    BY <1>1, <1>2, <1>8, <2>1
<1> QED
  BY <1>6, <1>7, <1>8 DEF w, gone, landed

LEMMA PublishKeeps ==
    ASSUME Types, NEW s \in SessionIds, NEW i \in Indices, Publish(s, i), SessionKept(s),
           produced \in [SessionIds -> Seq(Indices)], disk \in [SessionIds -> SUBSET Indices]
    PROVE  SessionKept(s)'
<1> DEFINE landed == Append(produced[s], i)
           w == ahead[s]
           gone == Evicted(landed, w)
           left == Spliced(landed, gone)
           onDisk == (disk[s] \cup {i}) \ gone
           rest == producing[s] \ {i}
<1>1. s \in Live /\ i \in producing[s]
  BY DEF Publish
<1>2. /\ table[s] # NoEntry /\ Orderly(s) /\ table[s].key \in Keys
      /\ w \in Window \cup {NoWindow} /\ w.to <= LastSegment[table[s].key]
  BY <1>1, LiveHolds, NoEntryIsNone DEF SessionKept, Orderly, Entry
<1>3. /\ left \in Seq(Indices) /\ NoRepeat(left) /\ Listed(left) = onDisk
      /\ Len(left) <= SegmentCache
      /\ gone \cap (w.from .. w.to) = {}
  <2>1. w.from .. w.to \subseteq w.at .. w.to
    BY <1>2 DEF Orderly, Window, NoWindow, Types, Aim
  <2>2. gone \cap (w.at .. w.to) = {}
    BY <1>1, LandingKeeps
  <2> QED
    BY <1>1, <2>1, <2>2, LandingKeeps
<1>4. /\ produced' = [produced EXCEPT ![s] = left] /\ disk' = [disk EXCEPT ![s] = onDisk]
      /\ init' = init \cup {s} /\ UNCHANGED <<table, ahead, failed>>
  BY DEF Publish
<1>5. i \in background[s] => LoopLooks(s, w, onDisk, rest)
  BY DEF Publish
<1>6. i \notin background[s] => /\ producing' = [producing EXCEPT ![s] = rest]
                                /\ background' = background /\ looping' = looping
  BY DEF Publish
<1>7. produced'[s] = left /\ disk'[s] = onDisk
  <2> HIDE DEF left, onDisk
  <2> QED
    BY <1>4
<1>8. /\ onDisk \in SUBSET Indices /\ rest \in SUBSET Indices
      /\ onDisk \cap rest = {}
      /\ disk[s] \cup producing[s] \subseteq onDisk \cup rest \cup gone
  BY <1>2 DEF SessionKept, Orderly
<1> HIDE DEF gone, left, onDisk, rest
<1>9. CASE i \in background[s]
  <2> DEFINE next == NextAhead(w, onDisk, rest)
  <2>1. /\ producing'[s] = rest \cup next /\ background'[s] = next /\ looping'[s] = (next # {})
    BY <1>5, <1>9 DEF LoopLooks, Types
  <2>2. /\ next \in SUBSET Indices /\ next \cap onDisk = {}
        /\ next = {} => w.from .. w.to \subseteq onDisk \cup rest
    <3> DEFINE k == table[s].key
    <3>1. w \in Window \cup {NoWindow} /\ k \in Keys /\ w.to <= LastSegment[k]
      BY <1>2
    <3> HIDE DEF w, k
    <3> QED
      BY <3>1, LooksWithin
  <2> HIDE DEF next
  <2>3. KeptUp(s)'
    BY <1>4, <1>7, <2>1, <2>2 DEF KeptUp
  <2> QED
    BY <1>2, <1>3, <1>4, <1>7, <1>8, <2>1, <2>2, <2>3 DEF SessionKept, Orderly, Depth
<1>10. CASE i \notin background[s]
  <2>1. producing'[s] = rest /\ background'[s] = background[s] /\ looping'[s] = looping[s]
    BY <1>6, <1>10 DEF Types
  <2>2. KeptUp(s) => KeptUp(s)'
    BY <1>3, <1>4, <1>7, <1>8, <2>1 DEF KeptUp
  <2> QED
    BY <1>2, <1>3, <1>4, <1>7, <1>8, <2>1, <2>2 DEF SessionKept, Orderly, Depth
<1> QED
  BY <1>9, <1>10

\* A run that made nothing: the session says so, or is gone.
LEMMA OverKeeps ==
    ASSUME Types, NEW s \in SessionIds, NEW i \in Indices, Fail(s, i) \/ StragglerExits(s, i),
           SessionKept(s)
    PROVE  SessionKept(s)'
<1>1. producing'[s] = producing[s] \ {i} /\ background'[s] = background[s] \ {i}
  BY DEF Fail, StragglerExits, Over, Types
<1>2. CASE Fail(s, i)
  <2>1. /\ table[s] # NoEntry /\ s \in failed' /\ UNCHANGED <<table, ahead, produced, disk>>
        /\ s \in init => s \in init'
    BY <1>2 DEF Fail, Live
  <2> QED
    BY <1>1, <2>1 DEF SessionKept, Orderly, Depth
<1>3. CASE StragglerExits(s, i)
  <2>1. table[s] = NoEntry /\ UNCHANGED <<table, ahead, produced, disk>>
    BY <1>3 DEF StragglerExits, Live, booksVars
  <2> QED
    BY <1>1, <2>1 DEF SessionKept, Bare
<1> QED
  BY <1>2, <1>3

\* A live session's entry changes, if any does, and its books do not.
LEMMA EntryTouched ==
    ASSUME Types, NEW s \in Live, NEW e \in Entry, e.key = table[s].key,
           table' = [table EXCEPT ![s] = e]
    PROVE  /\ table'[s] # NoEntry
           /\ \A t \in SessionIds : SameEntry(t)
BY LiveHolds, NoEntryIsNone DEF Types, SameEntry

\* Sessions of S end and their directories go.
LEMMA EndKeepsBooks ==
    ASSUME Types, BooksKept, NEW S \in SUBSET Live, End(S), refused' \in BOOLEAN
    PROVE  BooksKept'
<1>1. /\ produced' = [s \in SessionIds |-> IF s \in S THEN <<>> ELSE produced[s]]
      /\ disk' = [s \in SessionIds |-> IF s \in S THEN {} ELSE disk[s]]
      /\ ahead' = [s \in SessionIds |-> IF s \in S THEN NoWindow ELSE ahead[s]]
      /\ init' = init \ S /\ failed' = failed \ S
      /\ producing' = producing /\ background' = background /\ looping' = looping
      /\ table' = [s \in SessionIds |-> IF s \in S THEN NoEntry ELSE table[s]]
  BY DEF End, Dropped, TableWithout, makingVars
<1>2. ASSUME NEW s \in SessionIds
      PROVE  SessionKept(s)'
  <2>1. CASE s \in S
    BY <1>1, <2>1, GoneSession DEF BooksKept, Bare
  <2>2. CASE s \notin S
    BY <1>1, <2>2, SameSession DEF BooksKept, SameEntry, SameBooks
  <2> QED
    BY <2>1, <2>2
<1>3. /\ produced' \in [SessionIds -> Seq(Indices)] /\ disk' \in [SessionIds -> SUBSET Indices]
      /\ init' \subseteq SessionIds /\ failed' \subseteq SessionIds
  <2>1. <<>> \in Seq(Indices)
    OBVIOUS
  <2> QED
    BY <1>1, <2>1 DEF BooksKept
<1> QED
  BY <1>2, <1>3 DEF BooksKept

LEMMA OpenKeepsBooks ==
    ASSUME Types, BooksKept, NEW v \in Viewers, NEW k \in Keys, Open(v, k)
    PROVE  BooksKept'
<1> DEFINE Entered == [key |-> k, holders |-> {v}, idle |-> FALSE, old |-> FALSE]
<1>1. PICK s \in Free : table' = [TableWithout(Stale) EXCEPT ![s] = Entered]
  BY DEF Open
<1>2. /\ produced' = [t \in SessionIds |-> IF t \in Stale THEN <<>> ELSE produced[t]]
      /\ disk' = [t \in SessionIds |-> IF t \in Stale THEN {} ELSE disk[t]]
      /\ ahead' = [t \in SessionIds |-> IF t \in Stale THEN NoWindow ELSE ahead[t]]
      /\ init' = init \ Stale /\ failed' = failed \ Stale /\ refused' = FALSE
      /\ producing' = producing /\ background' = background /\ looping' = looping
  BY DEF Open, Dropped, makingVars
<1>3. /\ s \in SessionIds /\ (s \in Stale \/ s \notin Live) /\ Entered \in Entry
      /\ table'[s] = Entered
      /\ \A t \in SessionIds \ {s} : table'[t] = IF t \in Stale THEN NoEntry ELSE table[t]
  BY <1>1 DEF Free, Entry, TableWithout
<1>4. Bare(s)'
  BY <1>2, <1>3 DEF BooksKept, SessionKept, Bare, Live
<1>5. ASSUME NEW t \in SessionIds
      PROVE  SessionKept(t)'
  <2> HIDE DEF Entered
  <2>1. CASE t = s
    BY <1>2, <1>3, <1>4, <2>1, NewSession DEF BooksKept
  <2>2. CASE t # s /\ t \in Stale
    BY <1>2, <1>3, <2>2, GoneSession DEF BooksKept, Bare
  <2>3. CASE t # s /\ t \notin Stale
    BY <1>2, <1>3, <2>3, SameSession DEF BooksKept, SameEntry, SameBooks
  <2> QED
    BY <2>1, <2>2, <2>3
<1>6. /\ produced' \in [SessionIds -> Seq(Indices)] /\ disk' \in [SessionIds -> SUBSET Indices]
      /\ init' \subseteq SessionIds /\ failed' \subseteq SessionIds
  <2>1. <<>> \in Seq(Indices)
    OBVIOUS
  <2> QED
    BY <1>2, <2>1 DEF BooksKept
<1> QED
  BY <1>2, <1>5, <1>6 DEF BooksKept

\* Where only one session's ffmpegs and books move, only it is in question.
LEMMA OneSessionMoves ==
    ASSUME BooksKept, NEW s \in SessionIds, SessionKept(s)',
           \A t \in SessionIds \ {s} : SameEntry(t) /\ SameBooks(t),
           produced' \in [SessionIds -> Seq(Indices)], disk' \in [SessionIds -> SUBSET Indices],
           init' \subseteq SessionIds, failed' \subseteq SessionIds, refused' \in BOOLEAN
    PROVE  BooksKept'
<1>1. ASSUME NEW t \in SessionIds \ {s}
      PROVE  SessionKept(t)'
  BY <1>1, SameSession DEF BooksKept
<1> QED
  BY <1>1 DEF BooksKept

LEMMA NoneMoves ==
    ASSUME BooksKept, \A t \in SessionIds : SameEntry(t) /\ SameBooks(t),
           produced' = produced, disk' = disk, init' = init, failed' = failed,
           refused' \in BOOLEAN
    PROVE  BooksKept'
<1>1. ASSUME NEW t \in SessionIds
      PROVE  SessionKept(t)'
  BY <1>1, SameSession DEF BooksKept
<1> QED
  BY <1>1 DEF BooksKept

LEMMA BooksStep ==
    ASSUME Types, Types', BooksKept, [Next]_vars
    PROVE  BooksKept'
<1>1. \A s \in Live : table[s] \in Entry /\ s \in SessionIds
  BY LiveHolds
<1>2. \A s \in SessionIds : SessionKept(s)
  BY DEF BooksKept
<1>3. ASSUME NEW s \in Live, NEW e \in Entry, e.key = table[s].key,
             table' = [table EXCEPT ![s] = e], refused' = FALSE,
             UNCHANGED <<makingVars, ahead, booksVars, failed>>
      PROVE  BooksKept'
  <2>1. \A t \in SessionIds : SameEntry(t) /\ SameBooks(t)
    BY <1>3, EntryTouched DEF makingVars, booksVars, SameBooks
  <2> QED
    BY <1>3, <2>1, NoneMoves DEF booksVars
<1>4. ASSUME NEW v \in Viewers, NEW k \in Keys, Join(v, k)
      PROVE  BooksKept'
  <2> DEFINE s == byKey[k]
             e == [table[s] EXCEPT !.idle = FALSE, !.holders = @ \cup {v}]
  <2>1. s \in Live /\ e \in Entry /\ e.key = table[s].key
    BY <1>1, <1>4 DEF Join, Entry
  <2>2. table' = [table EXCEPT ![s] = e]
    BY <1>1, <1>4, <2>1 DEF Join, Types, Entry
  <2>3. refused' = FALSE /\ UNCHANGED <<makingVars, ahead, booksVars, failed>>
    BY <1>4 DEF Join
  <2> HIDE DEF e, s
  <2> QED
    BY <1>3, <2>1, <2>2, <2>3
<1>5. ASSUME NEW k \in Keys, Refuse(k) \/ StartWithoutDirectory(k)
      PROVE  BooksKept'
  <2>1. End(Stale) /\ refused' \in BOOLEAN /\ Stale \in SUBSET Live
    BY <1>5 DEF Refuse, StartWithoutDirectory, Stale
  <2> QED
    BY <2>1, EndKeepsBooks
<1>6. ASSUME NEW s \in Live, Touch(s) \/ GoesIdle(s) \/ GetsOld(s)
      PROVE  BooksKept'
  <2>1. PICK e \in Entry : e.key = table[s].key /\ table' = [table EXCEPT ![s] = e]
    <3>1. /\ [table[s] EXCEPT !.idle = FALSE] \in Entry
          /\ [table[s] EXCEPT !.idle = TRUE] \in Entry
          /\ [table[s] EXCEPT !.old = TRUE] \in Entry
      BY <1>1 DEF Entry
    <3>2. CASE Touch(s)
      BY <1>1, <3>1, <3>2 DEF Touch, Entry, Types
    <3>3. CASE GoesIdle(s)
      BY <1>1, <3>1, <3>3 DEF GoesIdle, Entry, Types
    <3>4. CASE GetsOld(s)
      BY <1>1, <3>1, <3>4 DEF GetsOld, Entry, Types
    <3> QED
      BY <1>6, <3>2, <3>3, <3>4
  <2>2. refused' = FALSE /\ UNCHANGED <<makingVars, ahead, booksVars, failed>>
    BY <1>6 DEF Touch, GoesIdle, GetsOld
  <2> QED
    BY <1>3, <2>1, <2>2
<1>7. ASSUME NEW s \in Live, NEW v \in Viewers, Leave(v, s)
      PROVE  BooksKept'
  <2>1. refused' = FALSE
    BY <1>7 DEF Leave
  <2>2. CASE table[s].holders = {v}
    <3>1. End({s}) /\ {s} \in SUBSET Live
      BY <1>7, <2>2 DEF Leave
    <3> QED
      BY <2>1, <3>1, EndKeepsBooks
  <2>3. CASE table[s].holders # {v}
    <3> DEFINE e == [table[s] EXCEPT !.holders = @ \ {v}]
    <3>1. e \in Entry /\ e.key = table[s].key
      BY <1>1 DEF Entry
    <3>2. table' = [table EXCEPT ![s] = e]
      BY <1>1, <1>7, <2>3 DEF Leave, Types, Entry
    <3>3. UNCHANGED <<makingVars, ahead, booksVars, failed>>
      BY <1>7, <2>3 DEF Leave
    <3> HIDE DEF e
    <3> QED
      BY <1>3, <2>1, <3>1, <3>2, <3>3
  <2> QED
    BY <2>2, <2>3
<1>8. ASSUME NEW s \in Live, LeaveWithoutHandle(s)
      PROVE  BooksKept'
  <2>1. End({s}) /\ {s} \in SUBSET Live /\ refused' \in BOOLEAN
    BY <1>8 DEF LeaveWithoutHandle
  <2> QED
    BY <2>1, EndKeepsBooks
<1>9. ASSUME NEW s \in Live, table' = [table EXCEPT ![s].idle = FALSE]
      PROVE  table'[s] # NoEntry /\ \A t \in SessionIds : SameEntry(t)
  <2> DEFINE e == [table[s] EXCEPT !.idle = FALSE]
  <2>1. e \in Entry /\ e.key = table[s].key
    BY <1>1 DEF Entry
  <2>2. table' = [table EXCEPT ![s] = e]
    BY <1>1, <1>9 DEF Types
  <2> HIDE DEF e
  <2> QED
    BY <2>1, <2>2, EntryTouched
<1>10. ASSUME NEW s \in Live, NEW i \in Indices, AskSegment(s, i)
       PROVE  BooksKept'
  <2>1. /\ table' = [table EXCEPT ![s].idle = FALSE]
        /\ produced' = produced /\ disk' = disk /\ init' = init
        /\ failed' = failed \ {s} /\ refused' = FALSE
        /\ ahead' = [ahead EXCEPT ![s] = Aimed(s, i)]
    BY <1>10 DEF AskSegment, booksVars
  <2>2. SessionKept(s)'
    BY <1>1, <1>2, <1>9, <1>10, <2>1, AskKeeps
  <2>3. \A t \in SessionIds \ {s} : /\ producing'[t] = producing[t]
                                    /\ background'[t] = background[t]
                                    /\ looping'[t] = looping[t]
    BY <1>10 DEF AskSegment, LoopLooks, Types
  <2>4. \A t \in SessionIds \ {s} : SameBooks(t)
    BY <2>1, <2>3 DEF SameBooks, Types
  <2> QED
    BY <1>1, <1>9, <2>1, <2>2, <2>4, OneSessionMoves DEF BooksKept
<1>11. ASSUME NEW s \in Live, AskInit(s)
       PROVE  BooksKept'
  <2>1. /\ table' = [table EXCEPT ![s].idle = FALSE]
        /\ produced' = produced /\ disk' = disk /\ init' = init /\ ahead' = ahead
        /\ background' = background /\ looping' = looping
        /\ failed' = failed /\ refused' = FALSE
    BY <1>11 DEF AskInit, booksVars
  <2>2. SessionKept(s)'
    BY <1>1, <1>2, <1>9, <1>11, <2>1, AskInitKeeps
  <2>3. \A t \in SessionIds \ {s} : producing'[t] = producing[t]
    BY <1>11 DEF AskInit, Types
  <2>4. \A t \in SessionIds \ {s} : SameBooks(t)
    BY <2>1, <2>3 DEF SameBooks
  <2> QED
    BY <1>1, <1>9, <2>1, <2>2, <2>4, OneSessionMoves DEF BooksKept
<1>12. ASSUME NEW s \in SessionIds, NEW i \in Indices, Publish(s, i)
       PROVE  BooksKept'
  <2> DEFINE left == Spliced(Append(produced[s], i), Evicted(Append(produced[s], i), ahead[s]))
             onDisk == (disk[s] \cup {i}) \ Evicted(Append(produced[s], i), ahead[s])
  <2>1. /\ produced' = [produced EXCEPT ![s] = left] /\ disk' = [disk EXCEPT ![s] = onDisk]
        /\ init' = init \cup {s} /\ UNCHANGED <<table, ahead, failed>> /\ refused' = FALSE
        /\ i \in producing[s] /\ s \in Live
    BY <1>12 DEF Publish
  <2>2. left \in Seq(Indices) /\ onDisk \in SUBSET Indices
    <3>1. left \in Seq(Indices)
      BY <1>2, <2>1, LandingKeeps
    <3>2. onDisk \in SUBSET Indices
      BY DEF BooksKept
    <3> QED
      BY <3>1, <3>2
  <2> HIDE DEF left, onDisk
  <2>3. SessionKept(s)'
    BY <1>2, <1>12, PublishKeeps DEF BooksKept
  <2>4. \A t \in SessionIds \ {s} : /\ producing'[t] = producing[t]
                                    /\ background'[t] = background[t]
                                    /\ looping'[t] = looping[t]
    BY <1>12 DEF Publish, LoopLooks, Types
  <2>5. \A t \in SessionIds \ {s} : SameEntry(t) /\ SameBooks(t)
    BY <2>1, <2>4 DEF SameEntry, SameBooks, BooksKept
  <2>6. produced' \in [SessionIds -> Seq(Indices)] /\ disk' \in [SessionIds -> SUBSET Indices]
    BY <2>1, <2>2 DEF BooksKept
  <2> QED
    BY <2>1, <2>3, <2>5, <2>6, OneSessionMoves DEF BooksKept
<1>13. ASSUME NEW s \in SessionIds, NEW i \in Indices, Fail(s, i) \/ StragglerExits(s, i)
       PROVE  BooksKept'
  <2>1. /\ UNCHANGED <<table, ahead, produced, disk>> /\ refused' = FALSE
        /\ init' = init \/ init' = init \cup {s}
        /\ failed' = failed \/ failed' = failed \cup {s}
        /\ Over(s, i)
    BY <1>13 DEF Fail, StragglerExits, booksVars
  <2>2. SessionKept(s)'
    BY <1>2, <1>13, OverKeeps
  <2>3. \A t \in SessionIds \ {s} : SameEntry(t) /\ SameBooks(t)
    BY <2>1 DEF Over, SameEntry, SameBooks, Types
  <2> QED
    BY <2>1, <2>2, <2>3, OneSessionMoves DEF BooksKept
<1>14. CASE Restart
  <2>1. \A s \in SessionIds : SessionKept(s)'
    BY <1>14 DEF Restart, SessionKept, Bare
  <2>2. <<>> \in Seq(Indices)
    OBVIOUS
  <2> QED
    BY <1>14, <2>1, <2>2 DEF Restart, BooksKept
<1>15. CASE UNCHANGED vars
  <2>1. \A t \in SessionIds : SameEntry(t) /\ SameBooks(t)
    BY <1>15 DEF vars, makingVars, booksVars, SameEntry, SameBooks
  <2> QED
    BY <1>15, <2>1, NoneMoves DEF vars, booksVars, BooksKept
<1> QED
  BY <1>4, <1>5, <1>6, <1>7, <1>8, <1>10, <1>11, <1>12, <1>13, <1>14, <1>15, OpenKeepsBooks DEF Next

-----------------------------------------------------------------------------
(* The theorems.                                                           *)

SessInv == Types /\ TableIsSound /\ FfmpegBudget

LEMMA SessInvHolds == Spec => []SessInv
<1>1. Init => SessInv
  <2> SUFFICES ASSUME Init PROVE SessInv
    OBVIOUS
  <2>1. IsFiniteSet({}) /\ Cardinality({}) = 0
    BY FS_EmptySet
  <2>2. Types
    BY <2>1 DEF Init, Types, Held, Aim, NoWindow
  <2>3. Live = {} /\ Costly(Live) = {}
    BY DEF Init, Live, Costly
  <2>4. TableIsSound
    <3>1. Cardinality(Live) = 0 /\ Cardinality(Costly(Live)) = 0
      BY <2>1, <2>3
    <3>2. WithinLimits
      BY <3>1, SessionsAssumption DEF WithinLimits, SessionsAssumption
    <3>3. KeyFindsItsSession
      BY <2>3 DEF Init, KeyFindsItsSession
    <3> QED
      BY <3>2, <3>3 DEF TableIsSound
  <2>5. FfmpegBudget
    <3>1. \A s \in SessionIds : producing[s] = {} /\ background[s] = {} /\ looping[s] = FALSE
      BY DEF Init
    <3>2. {} \ {} = {}
      OBVIOUS
    <3> QED
      BY <2>1, <3>1, <3>2, SessionsAssumption DEF FfmpegBudget, Requests, SessionsAssumption
  <2> QED
    BY <2>2, <2>4, <2>5 DEF SessInv
<1>2. SessInv /\ [Next]_vars => SessInv'
  BY TableStep, MakingStep DEF SessInv, Types, MakingTypes
<1> QED
  BY <1>1, <1>2, PTL DEF Spec

\* `start`: neither of the two limits is ever exceeded, and a key and its live
\* session lead to each other, whatever ends, is reaped or restarts in between.
THEOREM TableStaysSound == Spec => []TableIsSound
<1>1. SessInv => TableIsSound
  BY DEF SessInv
<1> QED
  BY <1>1, SessInvHolds, PTL

\* `produce` and the read-ahead loop: at most SEGMENT_CONCURRENCY runs for
\* requests and one run ahead per rendition, stragglers of an ended session
\* included.
THEOREM BudgetKept == Spec => []FfmpegBudget
<1>1. SessInv => FfmpegBudget
  BY DEF SessInv
<1> QED
  BY <1>1, SessInvHolds, PTL

\* `stop`: one viewer's stop does not end what another is watching.
THEOREM SharedStreamIsKept == Spec => SharedStreamSurvives
<1> DEFINE Kept == \A s \in Live : (Cardinality(table[s].holders) > 1 /\ s \notin Stale /\ ~Restart)
                                       => s \in Live'
<1>1. SessInv /\ [Next]_vars => [Kept]_vars
  <2> SUFFICES ASSUME SessInv, [Next]_vars, NEW s \in Live,
                      Cardinality(table[s].holders) > 1, s \notin Stale, ~Restart
               PROVE  s \in Live'
    BY DEF Kept
  <2>1. Types /\ TableIsSound
    BY DEF SessInv
  <2>2. CASE Changes
    BY <2>1, <2>2, SameKeys DEF Changes
  <2>3. CASE Ends
    <3>1. PICK S \in SUBSET Live :
              /\ S = Stale \/ \E t \in Live : S = {t} /\ Cardinality(table[t].holders) <= 1
              /\ table' = TableWithout(S) /\ byKey' = KeysWithout(S)
      BY <2>3 DEF Ends
    <3>2. Live' = Live \ S
      BY <2>1, <3>1, EndKeeps
    <3>3. Cardinality(table[s].holders) \in Nat
      <4>1. IsFiniteSet(table[s].holders)
        BY <2>1, LiveHolds, SessionsAssumption, FS_Subset DEF Entry, SessionsAssumption
      <4> QED
        BY <4>1, FS_CardinalityType
    <3>4. s \notin S
      BY <3>1, <3>3
    <3> QED
      BY <3>2, <3>4
  <2>4. CASE Opens
    BY <2>1, <2>4, OpenKeeps DEF Opens
  <2>5. CASE Stays
    BY <2>5 DEF Stays, Live
  <2> QED
    BY <2>1, <2>2, <2>3, <2>4, <2>5, EachStepIsOneKind
<1> QED
  BY <1>1, SessInvHolds, PTL DEF Spec, SharedStreamSurvives

\* `start` reaps before it refuses: whoever is refused is refused for sessions
\* all of which are in use and young.
THEOREM RefusedForTheLivingOnly == Spec => RefusedForTheLiving
<1>1. SessInv /\ [Next]_vars => [refused' => Stale' = {}]_vars
  <2> SUFFICES ASSUME SessInv, Next, refused'
               PROVE  Stale' = {}
    OBVIOUS
  <2>1. PICK k \in Keys : Refuse(k)
    BY DEF Next, Join, Open, StartWithoutDirectory, Touch, Leave, LeaveWithoutHandle, AskSegment,
           AskInit, GoesIdle, GetsOld, Publish, Fail, StragglerExits, Restart
  <2>2. Stale \in SUBSET Live /\ table' = TableWithout(Stale) /\ byKey' = KeysWithout(Stale)
    BY <2>1 DEF Refuse, End, Stale
  <2>3. Live' = Live \ Stale /\ \A s \in Live \ Stale : table'[s] = table[s]
    BY <2>2, EndKeeps, Without DEF SessInv
  <2> QED
    BY <2>3 DEF Stale
<1> QED
  BY <1>1, SessInvHolds, PTL DEF Spec, RefusedForTheLiving

LEMMA BooksHold == Spec => []BooksKept
<1>1. Init => BooksKept
  <2> SUFFICES ASSUME Init
               PROVE  BooksKept
    OBVIOUS
  <2>1. <<>> \in Seq(Indices)
    OBVIOUS
  <2>2. \A s \in SessionIds : SessionKept(s)
    BY <2>1 DEF Init, SessionKept, Bare
  <2> QED
    BY <2>1, <2>2 DEF Init, BooksKept
<1>2. SessInv /\ SessInv' /\ BooksKept /\ [Next]_vars => BooksKept'
  BY BooksStep DEF SessInv
<1> QED
  BY <1>1, <1>2, SessInvHolds, PTL DEF Spec

\* Every variable keeps its type: what the books list and what an ffmpeg makes are
\* segments of some timeline, and a window is one or none.
THEOREM SessionsTypes == Spec => []SessionsTypeOK
<1>1. SessInv /\ BooksKept => SessionsTypeOK
  <2> SUFFICES ASSUME SessInv, BooksKept
               PROVE  SessionsTypeOK
    OBVIOUS
  <2>1. Types /\ \A s \in SessionIds : SessionKept(s)
    BY DEF SessInv, BooksKept
  <2>2. /\ producing \in [SessionIds -> SUBSET Indices]
        /\ background \in [SessionIds -> SUBSET Indices]
        /\ ahead \in [SessionIds -> Window \cup {NoWindow}]
    BY <2>1 DEF Types, SessionKept
  <2> QED
    BY <2>1, <2>2 DEF SessionsTypeOK, Types, Held, BooksKept
<1> QED
  BY <1>1, SessInvHolds, BooksHold, PTL

\* `publish`, `evict` and `end`: what `produced` lists is what lies on disk, each
\* segment once and never more than the cache holds, and media is never there
\* without its initialisation.
THEOREM DiskStaysHonest == Spec => []DiskIsHonest
<1>1. BooksKept => DiskIsHonest
  <2> SUFFICES ASSUME BooksKept, NEW s \in Live
               PROVE  /\ disk[s] = {produced[s][n] : n \in DOMAIN produced[s]}
                      /\ Cardinality(disk[s]) = Len(produced[s])
                      /\ Len(produced[s]) <= SegmentCache
                      /\ disk[s] # {} => s \in init
    BY DEF DiskIsHonest, BooksMatchDisk, MediaHasInit
  <2>1. Orderly(s) /\ produced[s] \in Seq(Indices)
    BY DEF BooksKept, SessionKept, Live
  <2>2. Cardinality(Listed(produced[s])) = Len(produced[s])
    BY <2>1, ListedOnce DEF Orderly
  <2> QED
    BY <2>1, <2>2 DEF Orderly, Listed
<1> QED
  BY <1>1, BooksHold, PTL

\* The read-ahead loop and `evict`: what the window names is on disk, being made, or
\* still the loop's to make, unless a run failed since the last request.  No
\* eviction takes a segment the window still names.
THEOREM AheadStaysKeptUp == Spec => []AheadKeptUp
<1>1. BooksKept => AheadKeptUp
  BY DEF BooksKept, SessionKept, Orderly, KeptUp, AheadKeptUp, Live
<1> QED
  BY <1>1, BooksHold, PTL

\* `evict`: while a session lives on and nobody reaps it, no segment from the player's
\* own to the end of the window leaves the disk, however full the cache is.
WindowSpared ==
    [][\A s \in (Live \ Stale) \cap Live' :
           disk[s] \cap (ahead[s].at .. ahead[s].to) \subseteq disk'[s]]_vars

THEOREM WindowIsSpared == Spec => WindowSpared
<1> DEFINE Spared(s) == disk[s] \cap (ahead[s].at .. ahead[s].to) \subseteq disk'[s]
           AllSpared == \A s \in (Live \ Stale) \cap Live' : Spared(s)
<1>1. SessInv /\ BooksKept /\ [Next]_vars => [AllSpared]_vars
  <2> SUFFICES ASSUME SessInv, BooksKept, [Next]_vars, NEW s \in Live \ Stale, s \in Live'
               PROVE  Spared(s)
    BY DEF AllSpared
  <2>1. Types /\ TableIsSound /\ s \in SessionIds /\ SessionKept(s)
    BY DEF SessInv, BooksKept, Live
  <2>2. ASSUME disk' = disk
        PROVE  Spared(s)
    BY <2>2
  <2>3. ASSUME NEW S \in SUBSET SessionIds, Dropped(S), s \notin S
        PROVE  Spared(s)
    BY <2>1, <2>3 DEF Dropped
  <2>4. ASSUME NEW S \in SUBSET Live, End(S)
        PROVE  Spared(s)
    <3>1. s \notin S /\ S \in SUBSET SessionIds
      BY <2>1, <2>4, EndKeeps DEF End, Live
    <3> QED
      BY <2>3, <2>4, <3>1 DEF End
  <2>5. Stale \in SUBSET Live /\ \A t \in Live : {t} \in SUBSET Live
    BY DEF Stale
  <2>6. ASSUME NEW v \in Viewers, NEW k \in Keys, Join(v, k) \/ Open(v, k)
        PROVE  Spared(s)
    BY <2>2, <2>3, <2>5, <2>6 DEF Join, Open, booksVars, Live
  <2>7. ASSUME NEW k \in Keys, Refuse(k) \/ StartWithoutDirectory(k)
        PROVE  Spared(s)
    BY <2>4, <2>5, <2>7 DEF Refuse, StartWithoutDirectory
  <2>8. ASSUME NEW t \in Live, \/ Touch(t) \/ LeaveWithoutHandle(t) \/ AskInit(t)
                               \/ GoesIdle(t) \/ GetsOld(t)
                               \/ \E v \in Viewers : Leave(v, t)
                               \/ \E i \in Indices : AskSegment(t, i)
        PROVE  Spared(s)
    BY <2>2, <2>4, <2>5, <2>8
       DEF Touch, Leave, LeaveWithoutHandle, AskSegment, AskInit, GoesIdle, GetsOld, booksVars
  <2>9. ASSUME NEW t \in SessionIds, NEW i \in Indices, Publish(t, i)
        PROVE  Spared(s)
    <3> DEFINE gone == Evicted(Append(produced[t], i), ahead[t])
               onDisk == (disk[t] \cup {i}) \ gone
    <3>1. i \in producing[t] /\ t \in Live /\ disk' = [disk EXCEPT ![t] = onDisk]
      BY <2>9 DEF Publish
    <3>2. CASE t = s
      <4>1. gone \cap (ahead[s].at .. ahead[s].to) = {}
        BY <2>1, <3>1, <3>2, LandingKeeps
      <4>2. disk'[s] = onDisk
        <5> HIDE DEF onDisk
        <5> QED
          BY <2>1, <3>1, <3>2 DEF BooksKept
      <4> HIDE DEF gone
      <4> QED
        BY <3>2, <4>1, <4>2
    <3>3. CASE t # s
      BY <2>1, <3>1, <3>3 DEF BooksKept
    <3> QED
      BY <3>2, <3>3
  <2>10. ASSUME NEW t \in SessionIds, NEW i \in Indices, Fail(t, i) \/ StragglerExits(t, i)
         PROVE  Spared(s)
    BY <2>2, <2>10 DEF Fail, StragglerExits, booksVars
  <2>11. CASE Restart
    BY <2>11 DEF Restart, Live
  <2>12. CASE UNCHANGED vars
    BY <2>2, <2>12 DEF vars, booksVars
  <2> QED
    BY <2>6, <2>7, <2>8, <2>9, <2>10, <2>11, <2>12 DEF Next
<1> QED
  BY <1>1, SessInvHolds, BooksHold, PTL DEF Spec, WindowSpared
=============================================================================
