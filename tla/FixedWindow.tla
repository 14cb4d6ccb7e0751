----------------------------- MODULE FixedWindow -----------------------------
(***************************************************************************)
(* What a caller sees of `RateLimiter` (lib/rate-limit.ts): so many calls  *)
(* are left, until the window closes on time and all of them are back.     *)
(* There is nothing here to sweep, and nothing that is stale.              *)
(***************************************************************************)
EXTENDS Integers

CONSTANTS Callers, Limit, Length

VARIABLES left, closesIn

Init ==
    /\ left = [c \in Callers |-> Limit]
    /\ closesIn = [c \in Callers |-> 0]

\* A call that is let through; the first one opens the window.
Take(c) ==
    /\ left[c] > 0
    /\ left' = [left EXCEPT ![c] = @ - 1]
    /\ closesIn' = [closesIn EXCEPT ![c] = IF @ = 0 THEN Length ELSE @]

Tick ==
    /\ left' = [c \in Callers |-> IF closesIn[c] <= 1 THEN Limit ELSE left[c]]
    /\ closesIn' = [c \in Callers |-> IF closesIn[c] <= 1 THEN 0 ELSE closesIn[c] - 1]

Next == Tick \/ \E c \in Callers : Take(c)

Spec == Init /\ [][Next]_<<left, closesIn>>
=============================================================================
