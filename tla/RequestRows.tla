---------------------------- MODULE RequestRows ----------------------------
(***************************************************************************)
(* The `request` table of finderr.db, one row per title, and the pure      *)
(* rules every writer of it goes through: which asks create a row, which   *)
(* revive one, what a second attempt resets, what a webhook event may move *)
(* and which statuses may be withdrawn or removed.                         *)
(*                                                                         *)
(* A row keeps what the rules tell apart.  A title id, a user id and the   *)
(* selection a reader made (seasons, quality profile, root folder) are     *)
(* model values.  `retry_at` is kept as its relation to the clock,         *)
(* `created_at` as how old the row is: asked since the last UTC midnight,  *)
(* before it, or more than 24 hours ago.                                   *)
(***************************************************************************)
EXTENDS Integers, FiniteSets, Sequences

CONSTANTS
    Titles,        \* the tconsts people ask for
    Films,         \* those Radarr serves; the others are series, for Sonarr
    Users,         \* people with an account
    Admins,        \* the users whose role is admin
    Selections,    \* season choices and arr overrides a reader can send
    QuotaPerDay,   \* titles one person may ask for per UTC day; 0 is no limit
    MaxSends,      \* MAX_SEND_ATTEMPTS: adds tried before `failed`
    MaxLooks,      \* reconcile passes a `sent` row survives (nine in the code)
    MaxArrId       \* bound: library ids one arr hands out in a behaviour

ASSUME RowAssumption ==
    /\ Films \subseteq Titles
    /\ Admins \subseteq Users
    /\ Users # {}
    /\ IsFiniteSet(Titles)
    /\ Selections # {}
    /\ QuotaPerDay \in Nat
    /\ MaxSends \in Nat \ {0}
    /\ MaxLooks \in Nat
    /\ MaxArrId \in Nat

Services == {"radarr", "sonarr"}

\* `serviceFor(row.kind)`: films go to Radarr, everything else to Sonarr.
Service(t) == IF t \in Films THEN "radarr" ELSE "sonarr"

\* The id an arr gives a library row; 0 is SQL null, an id we never got.
ArrIds == 0 .. MaxArrId
NoId == 0

Statuses == {"queued", "sent", "grabbed", "downloading", "available",
             "failed", "no_release", "manual_import", "removed"}

Row == [status : Statuses, by : Users, arrId : ArrIds, sends : 0 .. MaxSends,
        retry : {"none", "future", "past"}, looks : 0 .. MaxLooks + 1,
        age : {"today", "past", "old"}, seen : BOOLEAN, sel : Selections]

\* `getRequest` returning null.  It has the shape of a row, so that a status
\* can be compared without asking first whether the row is there.
NoRow == [status |-> "absent", by |-> CHOOSE u \in Users : TRUE, arrId |-> NoId,
          sends |-> 0, retry |-> "none", looks |-> 0, age |-> "today",
          seen |-> FALSE, sel |-> CHOOSE s \in Selections : TRUE]

Exists(r) == r.status # "absent"

\* An `update ... where tconst = ?`: nothing happens when the row is gone.
Patch(r, patched) == IF Exists(r) THEN patched ELSE r

-----------------------------------------------------------------------------
(* Asking.                                                                 *)

createsNewRequest(held) == ~Exists(held) \/ held.status = "removed"

RevivedByAFreshAsk == {"failed", "no_release"}
revivesHeldRequest(held) == held.status \in RevivedByAFreshAsk

NewRow(u, s) ==
    [status |-> "queued", by |-> u, arrId |-> NoId, sends |-> 0,
     retry |-> "none", looks |-> 0, age |-> "today", seen |-> FALSE, sel |-> s]

\* `requeueRequest`: the one owner of what a second attempt resets.
Requeued(r) ==
    Patch(r, [r EXCEPT !.status = "queued", !.looks = 0, !.sends = 0,
                       !.retry = "none"])

\* Mutant: the latest asker takes the credit.
CreatedForTheLatest(held, u, s) ==
    IF createsNewRequest(held) THEN NewRow(u, s)
    ELSE IF revivesHeldRequest(held) THEN Requeued([held EXCEPT !.sel = s])
    ELSE [held EXCEPT !.sel = s, !.by = u]

\* `createRequest`: a removed row is dropped and written anew, a dead end is
\* requeued in place, and any other row only takes the newest selection.
Created(held, u, s) ==
    IF createsNewRequest(held) THEN NewRow(u, s)
    ELSE IF revivesHeldRequest(held) THEN Requeued([held EXCEPT !.sel = s])
    ELSE [held EXCEPT !.sel = s]

\* `countRequestsSince(user, utcDayStart())` over the rows `rs`.
AskedToday(rs, u) ==
    {t \in Titles : Exists(rs[t]) /\ rs[t].by = u /\ rs[t].age = "today"}

\* `quotaVerdict`: admins are exempt, and a limit of zero binds nobody.
QuotaApplies(u) == QuotaPerDay > 0 /\ u \notin Admins
\* Mutant: one title too many.
QuotaAllowsOneMore(rs, u) ==
    QuotaApplies(u) => Cardinality(AskedToday(rs, u)) <= QuotaPerDay

QuotaAllows(rs, u) ==
    QuotaApplies(u) => Cardinality(AskedToday(rs, u)) < QuotaPerDay

-----------------------------------------------------------------------------
(* Undoing.                                                                *)

isWithdrawable(status) == status \notin {"available", "removed"}
isRemovable(status) == status = "available"
mayWithdraw(r, u) == u \in Admins \/ r.by = u

-----------------------------------------------------------------------------
(* What an arr's webhook may move.                                         *)

Events == {"grabbed", "imported", "manual_interaction", "file_removed"}

GrabMoves == {"sent", "failed", "no_release"}
ImportMoves == {"sent", "grabbed", "failed", "no_release", "manual_import"}
BlockMoves == {"sent", "grabbed", "downloading", "failed", "no_release"}

\* The statuses an event may move a row out of, and the one it moves it to.
MovesFrom(event) ==
    CASE event = "grabbed" -> GrabMoves
      [] event = "imported" -> ImportMoves
      [] event = "manual_interaction" -> BlockMoves
      [] event = "file_removed" -> {}

\* Mutant: an import makes the request available, instead of leaving it to the
\* reconcile pass that announces it.
MovesToAvailable(event) ==
    CASE event = "grabbed" -> "grabbed"
      [] event = "imported" -> "available"
      [] event = "manual_interaction" -> "manual_import"
      [] event = "file_removed" -> "none"

MovesTo(event) ==
    CASE event = "grabbed" -> "grabbed"
      [] event = "imported" -> "downloading"
      [] event = "manual_interaction" -> "manual_import"
      [] event = "file_removed" -> "none"
=============================================================================
