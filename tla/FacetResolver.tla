---------------------------- MODULE FacetResolver ----------------------------
(***************************************************************************)
(* What addons say about a title: the cache of their answers, the calls    *)
(* that fill it, the gate every outbound fetch passes, and the page that   *)
(* polls until nobody owes it anything (lib/facet-resolver,                *)
(* lib/async-cache, lib/plugin-fetch, lib/store, and the route of a title).*)
(*                                                                         *)
(* A plugin answers several facets of a title out of one document.  Calls  *)
(* for its facets share the document in flight.  A call gives up after its *)
(* deadline; the document does not, for no shipped plugin passes the       *)
(* signal on.  A document that needs the id of its title first is two      *)
(* fetches, one after the other.  One of a film may need its collection    *)
(* too: a fetch of its own, which the films of the collection share, and   *)
(* without which each of them is complete all the same.                    *)
(***************************************************************************)
EXTENDS Integers, Sequences, FiniteSets, Sums

CONSTANTS
    Titles,
    Plugins,
    Answers,        \* the facets each plugin answers: [Plugins -> SUBSET Facets]
    Upgraded,       \* bound: plugins that come to have another version
    Others,         \* bound: fetches that are no document's: of collections, and
                    \* for titles whose rows a run does not follow
    CollectionOf,   \* documents of films, and the collection of each: [Films -> Others]
    Slots,          \* `OUTBOUND_CONCURRENCY`
    QueueLimit,     \* `OUTBOUND_QUEUE_LIMIT`
    MaxFetches      \* bound: fetches that make up a document

ASSUME FacetsAssumption ==
    /\ IsFiniteSet(Titles) /\ IsFiniteSet(Plugins)
    /\ Upgraded \subseteq Plugins
    /\ DOMAIN Answers = Plugins
    /\ Slots \in Nat \ {0} /\ QueueLimit \in Nat /\ MaxFetches \in Nat \ {0}
    /\ IsFiniteSet(Others) /\ Others \cap (Plugins \X Titles) = {}
    /\ DOMAIN CollectionOf \subseteq Plugins \X Titles
    /\ \A d \in DOMAIN CollectionOf : CollectionOf[d] \in Others

Facets == UNION {Answers[p] : p \in Plugins}
Providers == {q \in Plugins \X Facets : q[2] \in Answers[q[1]]}
Keys == Titles \X Providers
Documents == Plugins \X Titles
Films == DOMAIN CollectionOf

\* The provider's call for one facet needs the document of its plugin.
DocumentOf(k) == <<k[2][1], k[1]>>
FacetOf(k) == k[2][2]

VARIABLES
    row,        \* the answer at the version that runs: [Keys -> Row]
    old,        \* the answer at a superseded version, while it is not expired
    calls,      \* `inFlight`: keys whose call has not settled
    fetches,    \* `documents`: how many fetches each has begun; 0 is none in flight
    reading,    \* documents, and others, whose body is read: the gate is behind them
    joined,     \* films that wait for their collection
    sent,       \* the gate's slots: [Documents \cup Others -> Nat]
    queue,      \* and its queue
    page        \* the browser's page of a title

cacheVars == <<row, old>>
gateVars == <<sent, queue>>
vars == <<cacheVars, calls, fetches, reading, joined, gateVars, page>>

Outcomes == {"ok", "empty", "failed"}
\* An expired row is read by nobody, and is still in the table.
Row == [outcome : Outcomes, fresh : BOOLEAN]
NoRow == [outcome |-> "none", fresh |-> FALSE]

FacetsTypeOK ==
    /\ row \in [Keys -> Row \cup {NoRow}]
    /\ old \in [Keys -> Outcomes \cup {"none"}]
    /\ calls \subseteq Keys
    /\ fetches \in [Documents -> 0 .. MaxFetches]
    /\ reading \subseteq Documents \cup Others
    /\ joined \subseteq Films
    /\ sent \in [Documents \cup Others -> Nat]
    /\ queue \in Seq(Documents \cup Others)
    /\ page \in [Titles -> {"closed", "polling", "settled"}]

Init ==
    /\ row = [k \in Keys |-> NoRow]
    /\ old = [k \in Keys |-> "none"]
    /\ calls = {}
    /\ fetches = [d \in Documents |-> 0]
    /\ reading = {}
    /\ joined = {}
    /\ sent = [d \in Documents \cup Others |-> 0]
    /\ queue = <<>>
    /\ page = [t \in Titles |-> "closed"]

-----------------------------------------------------------------------------
(* The gate.                                                               *)

Executing == Total(sent)
Room == Slots + QueueLimit - Executing - Len(queue)

\* One after the other: a slot while there is one, the queue while it has room.
Entering(ds) ==
    LET started == IF queue = <<>> THEN Min({Slots - Executing, Len(ds)}) ELSE 0
        start == {ds[i] : i \in 1 .. started}
    IN  /\ sent' = [d \in DOMAIN sent |-> IF d \in start THEN sent[d] + 1 ELSE sent[d]]
        /\ queue' = queue \o SubSeq(ds, started + 1, Len(ds))

\* Mutant: a slot is given back twice.
LeavingTwice(d) ==
    LET gone == [sent EXCEPT ![d] = @ - 2]
    IN  IF queue = <<>> THEN sent' = gone /\ UNCHANGED queue
        ELSE sent' = [gone EXCEPT ![Head(queue)] = @ + 1] /\ queue' = Tail(queue)

\* A fetch returns: its slot goes to the first of the queue.
Leaving(d) ==
    LET gone == [sent EXCEPT ![d] = @ - 1]
    IN  IF queue = <<>> THEN sent' = gone /\ UNCHANGED queue
        ELSE sent' = [gone EXCEPT ![Head(queue)] = @ + 1] /\ queue' = Tail(queue)

\* An entry of an AsyncCache, from its fetch's asking of the gate to the end of its body.
InFlight(o) == sent[o] > 0 \/ o \in Range(queue) \/ o \in reading

-----------------------------------------------------------------------------
(* Reading, and who owes an answer.                                        *)

Current(k) == row[k].fresh
Usable(k) == Current(k) \/ old[k] # "none"

\* Mutant: what may be drawn owes nothing.
OutstandingUnusable(t) == {k \in Keys : k[1] = t /\ ~Usable(k)}

\* `outstanding`: a row of the version that runs counts, whatever it says.
Outstanding(t) == {k \in Keys : k[1] = t /\ ~Current(k)}

\* What a provider's rows put on the page: only an answer that is `ok` is drawn, the
\* one of the running version first.
Draws(k) == (Current(k) /\ row[k].outcome = "ok") \/ old[k] = "ok"

\* `resolveOne`.
Status(t, f) ==
    LET keys == {k \in Keys : k[1] = t /\ FacetOf(k) = f}
    IN  IF keys = {} THEN "empty"
        ELSE IF \E k \in keys : Draws(k) THEN "ready"
        ELSE IF \E k \in keys : ~Usable(k) THEN "pending"
        ELSE IF \E k \in keys : (Current(k) /\ row[k].outcome = "failed") \/ old[k] = "failed"
        THEN "failed"
        ELSE "empty"

-----------------------------------------------------------------------------
(* Asking.                                                                 *)

\* `pendingWork`: every provider that owes an answer is asked, unless its call is in
\* flight; its document is joined, or fetched if the gate has room.  A refusal
\* settles the calls and writes nothing.
Ask(t) ==
    LET new == Outstanding(t) \ calls
        wanted == {DocumentOf(k) : k \in new}
        missing == {d \in wanted : fetches[d] = 0}
        room == Min({Room, Cardinality(missing)})
    IN  \E order \in Injection(1 .. room, missing) :
            LET begun == Range(order)
            IN  /\ calls' = calls \cup {k \in new : DocumentOf(k) \notin missing \ begun}
                /\ fetches' = [d \in Documents |-> IF d \in begun THEN 1 ELSE fetches[d]]
                /\ Entering(order)
                /\ UNCHANGED <<cacheVars, reading, joined>>

\* GET of a title by its page: what is cached is read, who owes is reported, and
\* then everyone who owes is asked.  The page asks again while somebody owes.
PageLoads(t) ==
    /\ page' = [page EXCEPT ![t] = IF Outstanding(t) = {} THEN "settled" ELSE "polling"]
    /\ Ask(t)

Opens(t) == page[t] = "closed" /\ PageLoads(t)
Polls(t) == page[t] = "polling" /\ PageLoads(t)

\* An agent's GET, which waits a while first, or the warming of a shelf.
AskedAside(t) ==
    /\ Outstanding(t) \ calls # {}
    /\ Ask(t)
    /\ UNCHANGED page

\* Left, or a poll that failed.
Closes(t) ==
    /\ page[t] # "closed"
    /\ page' = [page EXCEPT ![t] = "closed"]
    /\ UNCHANGED <<cacheVars, calls, fetches, reading, joined, gateVars>>

-----------------------------------------------------------------------------
(* Answers.                                                                *)

WaitingFor(ds) == {k \in calls : DocumentOf(k) \in ds}
\* `write`: each key its outcome.
Failing(ks) == [k \in ks |-> "failed"]
Written(says) ==
    row' = [k \in Keys |-> IF k \in DOMAIN says THEN [outcome |-> says[k], fresh |-> TRUE]
                          ELSE row[k]]
\* Each facet has a value, nothing, or a value that does not fit its shape.
Answered(ks) == \E says \in [ks -> Outcomes] : Written(says)

\* The promises of documents settle, and with them the calls that wait for them.
Released(ds) ==
    /\ fetches' = [d \in Documents |-> IF d \in ds THEN 0 ELSE fetches[d]]
    /\ calls' = calls \ WaitingFor(ds)

\* The upstream failed, or the fetch ran into its own deadline, which counts from
\* before the gate.
FetchFails(d) ==
    /\ sent[d] > 0
    /\ Leaving(d)
    /\ Written(Failing(WaitingFor({d})))
    /\ Released({d})
    /\ UNCHANGED <<old, reading, joined, page>>

FetchReturns(d) ==
    /\ sent[d] > 0
    /\ Leaving(d)
    /\ reading' = reading \cup {d}
    /\ UNCHANGED <<cacheVars, calls, fetches, joined, page>>

\* The body is read, and it is all there is: of a film too, if it has no collection, or
\* if the gate refuses the fetch of it.
DocumentDone(d) ==
    /\ d \in reading
    /\ reading' = reading \ {d}
    /\ Answered(WaitingFor({d}))
    /\ Released({d})
    /\ UNCHANGED <<old, joined, gateVars, page>>

\* Mutant: a refusal half-way forgets the calls.
NextFetchUnsettled(d) ==
    /\ d \in reading \ Films
    /\ reading' = reading \ {d}
    /\ fetches[d] < MaxFetches
    /\ IF Room > 0 THEN Entering(<<d>>) ELSE UNCHANGED gateVars
    /\ fetches' = [fetches EXCEPT ![d] = IF Room > 0 THEN @ + 1 ELSE 0]
    /\ UNCHANGED <<cacheVars, calls, joined, page>>

\* The body was the title's id: the document itself passes the gate again, and a
\* refusal there is the document's.
NextFetch(d) ==
    /\ d \in reading \ Films
    /\ reading' = reading \ {d}
    /\ fetches[d] < MaxFetches
    /\ \/ /\ Room > 0
          /\ Entering(<<d>>)
          /\ fetches' = [fetches EXCEPT ![d] = @ + 1]
          /\ UNCHANGED calls
       \/ /\ Room = 0
          /\ Released({d})
          /\ UNCHANGED gateVars
    /\ UNCHANGED <<cacheVars, joined, page>>

\* The film names its collection, which is fetched, unless it is in flight already.
JoinsCollection(d) ==
    /\ d \in reading \cap Films
    /\ reading' = reading \ {d}
    /\ joined' = joined \cup {d}
    /\ \/ InFlight(CollectionOf[d]) /\ UNCHANGED gateVars
       \/ ~InFlight(CollectionOf[d]) /\ Room > 0 /\ Entering(<<CollectionOf[d]>>)
    /\ UNCHANGED <<cacheVars, calls, fetches, page>>

\* What is nobody's document, asked for by a title that is not followed.
OtherAsks(o) ==
    /\ ~InFlight(o)
    /\ Room > 0
    /\ Entering(<<o>>)
    /\ UNCHANGED <<cacheVars, calls, fetches, reading, joined, page>>

OtherReturns(o) ==
    /\ sent[o] > 0
    /\ Leaving(o)
    /\ reading' = reading \cup {o}
    /\ UNCHANGED <<cacheVars, calls, fetches, joined, page>>

\* The films that wait are complete, with the collection or, if it failed, without.
CollectionSettled(o) ==
    LET ds == {d \in joined : CollectionOf[d] = o}
    IN  /\ joined' = joined \ ds
        /\ Answered(WaitingFor(ds))
        /\ Released(ds)
        /\ UNCHANGED <<old, page>>

OtherFails(o) ==
    /\ sent[o] > 0
    /\ Leaving(o)
    /\ CollectionSettled(o)
    /\ UNCHANGED reading

OtherDone(o) ==
    /\ o \in reading
    /\ reading' = reading \ {o}
    /\ CollectionSettled(o)
    /\ UNCHANGED gateVars

\* Mutant: the document in flight is forgotten with the call.
GivesUpDocument(k) ==
    /\ k \in calls
    /\ Written(Failing({k}))
    /\ calls' = calls \ {k}
    /\ fetches' = [fetches EXCEPT ![DocumentOf(k)] = 0]
    /\ UNCHANGED <<old, reading, joined, gateVars, page>>

\* `callProvider` gives up on the call: the timeout is a failure like another.
GivesUp(k) ==
    /\ k \in calls
    /\ Written(Failing({k}))
    /\ calls' = calls \ {k}
    /\ UNCHANGED <<old, fetches, reading, joined, gateVars, page>>

-----------------------------------------------------------------------------
(* Time and restarts.                                                      *)

Expires(k) ==
    /\ \/ Current(k) /\ row' = [row EXCEPT ![k].fresh = FALSE] /\ UNCHANGED old
       \/ old[k] # "none" /\ old' = [old EXCEPT ![k] = "none"] /\ UNCHANGED row
    /\ UNCHANGED <<calls, fetches, reading, joined, gateVars, page>>

\* `pruneFacetContributions`: a superseded row goes once the table has one of the
\* version that runs, even one that is expired.
Replaced(k, changed) == k[2][1] \notin changed /\ row[k] # NoRow

\* Mutant: every superseded row goes, as it once did.
OldDropped(k, changed) == "none"

\* Superseded rows with the pruning of a boot at which `changed` have another version.
OldAfter(k, changed) ==
    IF Replaced(k, changed) THEN "none"
    ELSE IF k[2][1] \in changed /\ Current(k) THEN row[k].outcome
    ELSE old[k]

\* The process starts again, some of its plugins with other sources or settings.
\* Bound: one superseded generation of a row at a time.
Boot(changed) ==
    /\ \A k \in Keys : k[2][1] \in changed /\ Current(k) => old[k] = "none"
    /\ old' = [k \in Keys |-> OldAfter(k, changed)]
    /\ row' = [k \in Keys |-> IF k[2][1] \in changed THEN NoRow ELSE row[k]]
    /\ calls' = {}
    /\ fetches' = [d \in Documents |-> 0]
    /\ reading' = {}
    /\ joined' = {}
    /\ sent' = [d \in DOMAIN sent |-> 0]
    /\ queue' = <<>>
    /\ UNCHANGED page

DocumentMoves(d) ==
    FetchFails(d) \/ FetchReturns(d) \/ DocumentDone(d) \/ NextFetch(d) \/ JoinsCollection(d)
OtherMoves(o) == OtherReturns(o) \/ OtherFails(o) \/ OtherDone(o)

Next ==
    \/ \E t \in Titles : Opens(t) \/ Polls(t) \/ AskedAside(t) \/ Closes(t)
    \/ \E o \in Others : OtherAsks(o) \/ OtherReturns(o) \/ OtherFails(o) \/ OtherDone(o)
    \/ \E d \in Documents :
        FetchFails(d) \/ FetchReturns(d) \/ DocumentDone(d) \/ NextFetch(d) \/ JoinsCollection(d)
    \/ \E k \in Keys : GivesUp(k) \/ Expires(k)
    \/ \E changed \in SUBSET Upgraded : Boot(changed)

Spec == Init /\ [][Next]_vars

\* A page's timer fires, and a fetch ends: it carries a timeout of its own.
FairSpec ==
    /\ Spec
    /\ \A t \in Titles : WF_vars(Polls(t))
    /\ \A d \in Documents : WF_vars(DocumentMoves(d))
    /\ \A o \in Others : WF_vars(OtherMoves(o))

-----------------------------------------------------------------------------
(* Properties.                                                             *)

InLine(d) == Cardinality({i \in DOMAIN queue : queue[i] = d})

Work(d) == sent[d] + InLine(d) + (IF d \in reading THEN 1 ELSE 0)

\* A document is fetched once at a time, however many facets, pages, agents and warm
\* loops ask, and though calls give up on it while its fetch goes on; so is a
\* collection, however many films share it.  What a document in flight is registered
\* for is exactly one fetch, one body, or its collection (`AsyncCache`).
PoliteUpstream ==
    /\ \A d \in Documents :
        Work(d) + (IF d \in joined THEN 1 ELSE 0) = IF fetches[d] = 0 THEN 0 ELSE 1
    /\ \A o \in Others : Work(o) <= 1

\* A call always waits for a document that is in flight, and a film for a collection
\* that is, so that the call settles and its key is asked again some day; a refusal at a
\* later fetch included.
CallsAreCarried ==
    /\ \A k \in calls : fetches[DocumentOf(k)] # 0
    /\ \A d \in joined : Work(CollectionOf[d]) # 0

\* What a page draws stays drawn: no answer, refusal, timeout or upgrade of a plugin
\* blanks a facet.  Only the expiry of a row does, or a boot that takes a superseded
\* row for replaced: an expired or a failed one is enough, and the page loses what it
\* drew (store.ts says of such a row that it is "genuinely unreachable").
Shows(t, f) == Status(t, f) = "ready"
Superseded(k, changed) == old[k] = "ok" /\ row[k] # NoRow /\ k[2][1] \notin changed
DrawnStays ==
    [][\A t \in Titles, f \in Facets :
           (Shows(t, f) /\ ~Shows(t, f)') =>
               \/ \E k \in Keys : Expires(k)
               \/ \E changed \in SUBSET Upgraded :
                    Boot(changed) /\ \E k \in Keys : FacetOf(k) = f /\ Superseded(k, changed)]_vars

\* "`working` drains on its own": once rows stay fresh, the process stays up and other
\* titles leave the gate alone, a page that polls is closed or comes to have an answer
\* of the running version from everyone, refused or not.
Disturbed == (\E k \in Keys : Expires(k)) \/ (\E c \in SUBSET Upgraded : Boot(c))
                \/ (\E o \in Others : OtherAsks(o))
AllAnswered(t) == \A k \in Keys : k[1] = t => row[k].fresh
PollsEnd ==
    <>[][~Disturbed]_vars =>
        \A t \in Titles :
            page[t] = "polling" ~> (page[t] = "closed" \/ (page[t] = "settled" /\ AllAnswered(t)))
=============================================================================
