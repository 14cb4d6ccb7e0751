------------------------------ MODULE Accounts ------------------------------
(***************************************************************************)
(* Accounts and the ways into them: invites and their redemption, the door *)
(* of the first run, passkeys, Plex accounts, and what the owner of an     *)
(* account and an admin do to it (server/auth-routes, lib/webauthn,        *)
(* lib/auth-store, lib/first-run).                                         *)
(*                                                                         *)
(* A ceremony is a row, a challenge or a Plex PIN, between its begin and   *)
(* its finish.  A call is a handler that awaits: a browser's answer to be  *)
(* verified, plex.tv, or the body of a request.  What a handler does after *)
(* its last await is one step, except where it makes an account: that is a *)
(* stretch of statements that nothing interleaves with and a crash can     *)
(* cut.  Admin routes also take the system key, so somebody may always use *)
(* them.                                                                   *)
(***************************************************************************)
EXTENDS Naturals, FiniteSets

CONSTANTS
    Users,          \* bound: ids ever given to accounts
    Invites,        \* bound: invites live or redeemed
    PlexAccounts,
    Ceremonies,     \* bound: challenges and PINs at a time
    Calls,          \* bound: handlers awaiting at a time
    Overlapping,    \* bound: ops of handlers that may await while another one does,
    Crowd,          \* bound: begun when there are no more accounts than this
    MaxKeys,        \* bound: passkeys of an account
    OpenSignup,     \* `plexOpenSignupActive`
    Nobody          \* no user, invite, Plex account, ceremony or call

ASSUME AccountsAssumption ==
    /\ IsFiniteSet(Users) /\ IsFiniteSet(Invites)
    /\ MaxKeys \in Nat \ {0}
    /\ OpenSignup \in BOOLEAN
    /\ Nobody \notin Users \cup Invites \cup PlexAccounts \cup Ceremonies \cup Calls

VARIABLES
    user,       \* app_user with the number of credentials: [Users -> UserRow]
    signedIn,   \* users with a session
    invite,     \* [Invites -> InviteRow]
    ceremony,   \* challenges and PINs: [Ceremonies -> Ceremony]
    closed,     \* kv first_run_closed_at is set
    call,       \* [Calls -> Call]
    stretch,    \* the account being made, statement by statement
    made        \* history: how many accounts an invite has made

rowVars == <<user, signedIn, invite, ceremony, closed>>
vars == <<rowVars, call, stretch, made>>

Roles == {"admin", "user"}
UserRow == [role : Roles, disabled : BOOLEAN,
            plex : PlexAccounts \cup {Nobody}, keys : 0 .. MaxKeys]
Unused == [role |-> "unused"]
Deleted == [role |-> "deleted"]

\* An invite that expired or was deleted is as good as none.  `by` is `created_by`,
\* of which the code reads only the first run's back; the role of a redeemed one is
\* not read again.
Minters == {"first-run", "somebody else"}
InviteRow == [state : {"live"}, role : Roles, by : Minters]
               \cup [state : {"redeemed"}, by : Minters]
NoInvite == [state |-> "none"]

Parties == [invite : Invites \cup {Nobody}, user : Users \cup {Nobody}]
\* The row of a PIN names its invite, not who asked for it nor why; `by` is the Plex
\* account that approves it at plex.tv, if one does.
Ceremony == [kind : {"passkey"}, of : Parties]
              \cup [kind : {"plex"}, of : [invite : Invites \cup {Nobody}, user : {Nobody}],
                    by : PlexAccounts]
NoCeremony == [kind |-> "none"]

\* What a call awaits: the verification of a registration or of a login, plex.tv,
\* or the body of a reset.  link/finish and reset hold a row read before the await:
\* whether the account had a Plex account, and its role.
Call == [op : {"verify", "login"}, of : Parties]
          \cup [op : {"plex"}, of : Parties, from : Ceremonies \cup {Nobody}, by : PlexAccounts]
          \cup [op : {"link"}, of : Parties, from : Ceremonies \cup {Nobody}, by : PlexAccounts,
                linked : BOOLEAN]
          \cup [op : {"reset"}, of : Parties, role : Roles]
NoCall == [op |-> "none"]

Stretch == [step : {"create", "enrol"}, of : Parties, role : Roles,
            plex : PlexAccounts \cup {Nobody}]
NoStretch == [step |-> "none"]

Unregistered == {u \in Users : user[u] = Unused}

Accounts == {u \in Users : user[u] \notin {Unused, Deleted}}

\* Sessions included, which go with their account by a foreign key.
AccountsTypeOK ==
    /\ user \in [Users -> UserRow \cup {Unused, Deleted}]
    /\ signedIn \subseteq Accounts
    /\ invite \in [Invites -> InviteRow \cup {NoInvite}]
    /\ ceremony \in [Ceremonies -> Ceremony \cup {NoCeremony}]
    /\ closed \in BOOLEAN
    /\ call \in [Calls -> Call \cup {NoCall}]
    /\ stretch \in Stretch \cup {NoStretch}
    /\ made \in [Invites -> Nat]

Admins == {u \in Accounts : user[u].role = "admin" /\ ~user[u].disabled}
WithPlex(a) == {u \in Accounts : user[u].plex = a}

Live(i) == i # Nobody /\ invite[i].state = "live"
FirstRunClaims == {i \in Invites : invite[i] # NoInvite /\ invite[i].by = "first-run"}
LiveClaims == {i \in FirstRunClaims : Live(i)}

\* An invite not in use, nor meant by a ceremony or a call of an earlier one.
Finishing == {k \in Calls : call[k].op \notin {"none", "reset"}}
PollingPlex == {k \in Calls : call[k].op \in {"plex", "link"}}
Unminted(i) ==
    /\ invite[i] = NoInvite
    /\ i \notin {call[k].of.invite : k \in Finishing}
    /\ i \notin {ceremony[c].of.invite : c \in {d \in Ceremonies : ceremony[d] # NoCeremony}}
Mint(i, role, by) ==
    /\ Unminted(i)
    /\ invite' = [invite EXCEPT ![i] = [state |-> "live", role |-> role, by |-> by]]

\* First boot of an empty database: the bootstrap invite is minted and printed.
Init ==
    /\ user = [u \in Users |-> Unused]
    /\ signedIn = {}
    /\ \E i \in Invites :
        invite = [j \in Invites |->
                    IF j = i THEN [state |-> "live", role |-> "admin",
                                   by |-> "somebody else"]
                    ELSE NoInvite]
    /\ ceremony = [c \in Ceremonies |-> NoCeremony]
    /\ closed = FALSE
    /\ call = [k \in Calls |-> NoCall]
    /\ stretch = NoStretch
    /\ made = [i \in Invites |-> 0]

\* Every action but Boot and the steps of a stretch waits for the stretch.
Idle == stretch = NoStretch

-----------------------------------------------------------------------------
(* The door of the first run.                                              *)

\* `open`: asked while there is an account, it latches and deletes the claims
\* nobody redeemed.
DoorOpen == ~closed /\ Accounts = {}
AskDoor ==
    /\ closed' = (closed \/ Accounts # {})
    /\ invite' = IF closed \/ Accounts = {} THEN invite
                 ELSE [i \in Invites |->
                        IF i \in FirstRunClaims /\ invite[i].state # "redeemed"
                        THEN NoInvite ELSE invite[i]]

\* /api/auth/state, read by a visitor who is not signed in.
VisitorLooks ==
    /\ Idle
    /\ AskDoor
    /\ UNCHANGED <<user, signedIn, ceremony, call, stretch, made>>

\* The process starts, after whatever ended the one before: an empty database
\* gets another bootstrap invite.
Boot ==
    /\ IF Accounts # {} THEN AskDoor
       ELSE /\ \E i \in Invites : Mint(i, "admin", "somebody else")
            /\ UNCHANGED closed
    /\ call' = [k \in Calls |-> NoCall]
    /\ stretch' = NoStretch
    /\ UNCHANGED <<user, signedIn, ceremony, made>>

-----------------------------------------------------------------------------
(* Ceremonies begin.                                                       *)

Free(c) == ceremony[c] = NoCeremony

Party(i, u) == [invite |-> i, user |-> u]
PutChallenge(c, of) == ceremony' = [ceremony EXCEPT ![c] = [kind |-> "passkey", of |-> of]]
PutPin(c, i) ==
    \E a \in PlexAccounts :
        ceremony' = [ceremony EXCEPT ![c] = [kind |-> "plex", of |-> Party(i, Nobody), by |-> a]]

\* register/begin and plex/begin with the token of an invite.  Only the first of
\* them requires it to be live.  Bound: while there is an id left to give.
BeginWithInvite(c, i) ==
    /\ Idle /\ Free(c)
    /\ Unregistered # {}
    /\ \/ Live(i) /\ (PutChallenge(c, Party(i, Nobody)) \/ PutPin(c, i))
       \/ ~Live(i) /\ PutPin(c, Nobody)
    /\ UNCHANGED <<user, signedIn, invite, closed, call, stretch, made>>

\* Mutant: every visitor gets a claim of their own.
ClaimHashOfOnesOwn(i) == Mint(i, "admin", "first-run")

\* `claimHash`: the claim that is live, or one minted for this visitor.
ClaimHash(i) ==
    IF LiveClaims # {} THEN i \in LiveClaims /\ UNCHANGED invite
    ELSE Mint(i, "admin", "first-run")

\* The same with no token, and the door open.
BeginFirstRun(c) ==
    /\ Idle /\ Free(c)
    /\ DoorOpen
    /\ \E i \in Invites :
        /\ ClaimHash(i)
        /\ PutChallenge(c, Party(i, Nobody)) \/ PutPin(c, i)
    /\ UNCHANGED <<user, signedIn, closed, call, stretch, made>>

\* With no token and the door shut: a passkey is refused, a PIN is a sign-in.
BeginSignIn(c) ==
    /\ Idle /\ Free(c)
    /\ ~DoorOpen
    /\ AskDoor
    /\ \/ UNCHANGED ceremony
       \/ PutPin(c, Nobody)
    /\ UNCHANGED <<user, signedIn, call, stretch, made>>

\* Somebody signed in adds a passkey, or connects a Plex account.
Enters(u) == Idle /\ u \in signedIn \cap Accounts /\ ~user[u].disabled
BeginForSelf(c, u) ==
    /\ Enters(u) /\ Free(c)
    /\ PutChallenge(c, Party(Nobody, u)) \/ PutPin(c, Nobody)
    /\ UNCHANGED <<user, signedIn, invite, closed, call, stretch, made>>

-----------------------------------------------------------------------------
(* A registration finishes.                                                *)

Awaits(k, op) ==
    /\ call[k] = NoCall
    /\ \A j \in Calls : call[j] # NoCall =>
            {op, call[j].op} \subseteq Overlapping /\ Cardinality(Accounts) <= Crowd
Ends(k) == call' = [call EXCEPT ![k] = NoCall]
Forgotten(c) == ceremony' = [ceremony EXCEPT ![c] = NoCeremony]

\* A PIN goes, and calls of it go on without its row, but for k.
PinGoes(c, k) ==
    /\ Forgotten(c)
    /\ call' = [j \in Calls |->
                  IF j = k THEN NoCall
                  ELSE IF j \in PollingPlex /\ call[j].from = c
                       THEN [call[j] EXCEPT !.from = Nobody]
                  ELSE call[j]]

\* `takeChallenge` reads the row and deletes it, before the await.
TakeChallenge(k, c) ==
    /\ Idle
    /\ Awaits(k, "verify")
    /\ ceremony[c].kind = "passkey"
    /\ call' = [call EXCEPT ![k] = [op |-> "verify", of |-> ceremony[c].of]]
    /\ Forgotten(c)
    /\ UNCHANGED <<user, signedIn, invite, closed, stretch, made>>

\* Mutant: the UPDATE does not ask whether it was redeemed.
ClaimInviteAgain(i) ==
    /\ i # Nobody /\ invite[i] # NoInvite
    /\ invite' = [invite EXCEPT ![i].state = "redeemed"]

\* `claimInvite`: one UPDATE, for whoever comes first.
ClaimInvite(i) ==
    /\ Live(i)
    /\ invite' = [invite EXCEPT ![i] = [state |-> "redeemed", by |-> @.by]]

\* Verified, for an invite: it is claimed, and an account will be made.
VerifiedWithInvite(k) ==
    /\ Idle
    /\ call[k].op = "verify"
    /\ ClaimInvite(call[k].of.invite)
    /\ Unregistered # {}
    /\ stretch' = [step |-> "create", of |-> call[k].of, plex |-> Nobody,
                   role |-> invite[call[k].of.invite].role]
    /\ Ends(k)
    /\ UNCHANGED <<user, signedIn, ceremony, closed, made>>

\* Verified, for a device of an account that still exists.
VerifiedDevice(k) ==
    LET u == call[k].of.user
    IN  /\ Idle
        /\ call[k].op = "verify"
        /\ u \in Accounts
        /\ user[u].keys < MaxKeys
        /\ user' = [user EXCEPT ![u].keys = @ + 1]
        /\ signedIn' = signedIn \cup {u}
        /\ Ends(k)
        /\ UNCHANGED <<invite, ceremony, closed, stretch, made>>

\* Not verified, or the invite or the account is gone; likewise a login; and plex.tv
\* does not know yet, or it does, and the PIN is spent on an account with no access.
CallRefused(k) ==
    /\ Idle
    /\ k \in Finishing
    /\ \/ Ends(k) /\ UNCHANGED ceremony
       \/ k \in PollingPlex /\ PinGoes(call[k].from, k)
    /\ UNCHANGED <<user, signedIn, invite, closed, stretch, made>>

\* `createUser`.
CreatesUser ==
    /\ stretch.step = "create"
    /\ \E u \in Unregistered :
        /\ user' = [user EXCEPT ![u] = [role |-> stretch.role, disabled |-> FALSE,
                                        plex |-> stretch.plex, keys |-> 0]]
        /\ made' = [i \in Invites |-> IF i = stretch.of.invite THEN made[i] + 1 ELSE made[i]]
        /\ stretch' = [stretch EXCEPT !.step = "enrol", !.of.user = u]
    /\ UNCHANGED <<signedIn, invite, ceremony, closed, call>>

\* `attributeInvite`, `addCredential` unless Plex is the way in, and the session.
Enrols ==
    /\ stretch.step = "enrol"
    /\ user' = IF stretch.plex # Nobody THEN user
               ELSE [user EXCEPT ![stretch.of.user].keys = 1]
    /\ signedIn' = signedIn \cup {stretch.of.user}
    /\ stretch' = NoStretch
    /\ UNCHANGED <<invite, ceremony, closed, call, made>>

-----------------------------------------------------------------------------
(* Plex: signing in, signing up, and connecting an account.                *)

\* `peekPin` leaves the row: the browser polls, and polls may overlap.  Whoever has
\* the PIN's id may finish it, and both routes take any PIN: plex/finish from anyone,
PeekPin(k, c) ==
    /\ Idle
    /\ Awaits(k, "plex")
    /\ ceremony[c].kind = "plex"
    /\ call' = [call EXCEPT ![k] = [op |-> "plex", of |-> ceremony[c].of, from |-> c,
                                    by |-> ceremony[c].by]]
    /\ UNCHANGED <<rowVars, stretch, made>>

\* link/finish from anyone signed in, whose row is read first.
PeekPinToLink(k, c, u) ==
    /\ Enters(u)
    /\ Awaits(k, "link")
    /\ ceremony[c].kind = "plex"
    /\ call' = [call EXCEPT ![k] = [op |-> "link", of |-> Party(Nobody, u), from |-> c,
                                    by |-> ceremony[c].by, linked |-> user[u].plex # Nobody]]
    /\ UNCHANGED <<rowVars, stretch, made>>

\* plex.tv says who approved the PIN, which goes; its access is looked up, and
\* then the rest happens.
Known(k, op) ==
    /\ Idle
    /\ call[k].op = op
    /\ PinGoes(call[k].from, k)

\* plex/finish for a Plex account we know.
PlexSignsIn(k) ==
    /\ Known(k, "plex")
    /\ \E u \in WithPlex(call[k].by) :
        /\ ~user[u].disabled
        /\ signedIn' = signedIn \cup {u}
    /\ UNCHANGED <<user, invite, closed, stretch, made>>

\* The same for one we do not know: an invite lets it in, or the open sign-up.
PlexSignsUp(k) ==
    LET i == call[k].of.invite
        a == call[k].by
    IN  /\ Known(k, "plex")
        /\ WithPlex(a) = {}
        /\ Unregistered # {}
        /\ \/ /\ ClaimInvite(i)
              /\ stretch' = [step |-> "create", of |-> call[k].of, plex |-> a,
                             role |-> invite[i].role]
           \/ /\ ~Live(i) /\ OpenSignup
              /\ stretch' = [step |-> "create", of |-> Party(Nobody, Nobody), plex |-> a,
                             role |-> "user"]
              /\ UNCHANGED invite
        /\ UNCHANGED <<user, signedIn, closed, made>>

\* Mutant: the principal of before the awaits is trusted.
LinksStale(k) ==
    LET u == call[k].of.user
        a == call[k].by
    IN  /\ Known(k, "link")
        /\ u \in Accounts
        /\ ~call[k].linked
        /\ WithPlex(a) = {}
        /\ user' = [user EXCEPT ![u].plex = a]
        /\ UNCHANGED <<signedIn, invite, closed, stretch, made>>

\* link/finish: the account is read again after the awaits, and refused if it
\* has a Plex account by now or another account has this one.
Links(k) ==
    LET u == call[k].of.user
        a == call[k].by
    IN  /\ Known(k, "link")
        /\ u \in Accounts
        /\ user[u].plex = Nobody
        /\ WithPlex(a) = {}
        /\ user' = [user EXCEPT ![u].plex = a]
        /\ UNCHANGED <<signedIn, invite, closed, stretch, made>>

-----------------------------------------------------------------------------
(* What an owner does.                                                     *)

\* login/finish: the credential is read before the await, the account after it.
LoginAsks(k, u) ==
    /\ Idle
    /\ Awaits(k, "login")
    /\ u \in Accounts /\ user[u].keys > 0
    /\ call' = [call EXCEPT ![k] = [op |-> "login", of |-> Party(Nobody, u)]]
    /\ UNCHANGED <<rowVars, stretch, made>>

LoginDone(k) ==
    /\ Idle
    /\ call[k].op = "login"
    /\ call[k].of.user \in Accounts /\ ~user[call[k].of.user].disabled
    /\ signedIn' = signedIn \cup {call[k].of.user}
    /\ Ends(k)
    /\ UNCHANGED <<user, invite, ceremony, closed, stretch, made>>

\* Sign out, or an admin ends the session.
SignOut(u) ==
    /\ Idle
    /\ u \in signedIn
    /\ signedIn' = signedIn \ {u}
    /\ UNCHANGED <<user, invite, ceremony, closed, call, stretch, made>>

\* Both refuse to take the last way in.
ForgetsKey(u) ==
    /\ Enters(u)
    /\ user[u].keys > 0
    /\ user[u].keys > 1 \/ user[u].plex # Nobody
    /\ user' = [user EXCEPT ![u].keys = @ - 1]
    /\ UNCHANGED <<signedIn, invite, ceremony, closed, call, stretch, made>>

UnlinksPlex(u) ==
    /\ Enters(u)
    /\ user[u].plex # Nobody
    /\ user[u].keys > 0
    /\ user' = [user EXCEPT ![u].plex = Nobody]
    /\ UNCHANGED <<signedIn, invite, ceremony, closed, call, stretch, made>>

-----------------------------------------------------------------------------
(* What an admin does.                                                     *)

MintsInvite(i, role) ==
    /\ Idle
    /\ Mint(i, role, "somebody else")
    /\ UNCHANGED <<user, signedIn, ceremony, closed, call, stretch, made>>

\* The guard of the last admin, `adminCount() <= 1`.
LastAdmin == Cardinality(Admins) <= 1

\* PATCH of the role and of `disabled`, decided from the row as it is after the
\* await of the body.
Patches(u, role, disabled) ==
    /\ Idle
    /\ u \in Accounts
    /\ ~(user[u].role = "admin" /\ (role = "user" \/ disabled) /\ LastAdmin)
    /\ user' = [user EXCEPT ![u].role = role, ![u].disabled = disabled]
    /\ signedIn' = IF disabled THEN signedIn \ {u} ELSE signedIn
    /\ UNCHANGED <<invite, ceremony, closed, call, stretch, made>>

\* Mutant: sessions outlive their account.
DeletesUserOnly(u) ==
    /\ Idle
    /\ u \in Accounts
    /\ ~(user[u].role = "admin" /\ LastAdmin)
    /\ user' = [user EXCEPT ![u] = Deleted]
    /\ UNCHANGED <<signedIn, invite, ceremony, closed, call, stretch, made>>

DeletesUser(u) ==
    /\ Idle
    /\ u \in Accounts
    /\ ~(user[u].role = "admin" /\ LastAdmin)
    /\ user' = [user EXCEPT ![u] = Deleted]
    /\ signedIn' = signedIn \ {u}
    /\ UNCHANGED <<invite, ceremony, closed, call, stretch, made>>

RevokesKey(u) ==
    /\ Idle
    /\ u \in Accounts /\ user[u].keys > 0
    /\ user' = [user EXCEPT ![u].keys = @ - 1]
    /\ UNCHANGED <<signedIn, invite, ceremony, closed, call, stretch, made>>

\* reset: the row is read before the await of the body.
ResetAsks(k, u) ==
    /\ Idle
    /\ Awaits(k, "reset")
    /\ u \in Accounts
    /\ call' = [call EXCEPT ![k] = [op |-> "reset", of |-> Party(Nobody, u),
                                    role |-> user[u].role]]
    /\ UNCHANGED <<rowVars, stretch, made>>

\* Every way in is taken away, and an invite minted with the role that was read.
Resets(k) ==
    LET u == call[k].of.user
    IN  /\ Idle
        /\ call[k].op = "reset"
        /\ user' = IF u \in Accounts
                   THEN [user EXCEPT ![u].keys = 0, ![u].plex = Nobody] ELSE user
        /\ signedIn' = signedIn \ {u}
        /\ \E i \in Invites : Mint(i, call[k].role, "somebody else")
        /\ Ends(k)
        /\ UNCHANGED <<ceremony, closed, stretch, made>>

-----------------------------------------------------------------------------
(* The clock.                                                              *)

\* An invite expires, or an admin deletes it.
InviteDies(i) ==
    /\ Idle
    /\ Live(i)
    /\ invite' = [invite EXCEPT ![i] = NoInvite]
    /\ UNCHANGED <<user, signedIn, ceremony, closed, call, stretch, made>>

CeremonyExpires(c) ==
    /\ Idle
    /\ ceremony[c] # NoCeremony
    /\ PinGoes(c, Nobody)
    /\ UNCHANGED <<user, signedIn, invite, closed, stretch, made>>

Next ==
    \/ VisitorLooks \/ Boot \/ CreatesUser \/ Enrols
    \/ \E c \in Ceremonies :
        \/ \E i \in Invites : BeginWithInvite(c, i)
        \/ BeginFirstRun(c) \/ BeginSignIn(c) \/ CeremonyExpires(c)
        \/ \E u \in Users : BeginForSelf(c, u)
        \/ \E k \in Calls : TakeChallenge(k, c) \/ PeekPin(k, c)
        \/ \E k \in Calls, u \in Users : PeekPinToLink(k, c, u)
    \/ \E k \in Calls :
        \/ VerifiedWithInvite(k) \/ VerifiedDevice(k) \/ CallRefused(k)
        \/ PlexSignsIn(k) \/ PlexSignsUp(k) \/ Links(k)
        \/ LoginDone(k) \/ Resets(k)
        \/ \E u \in Users : LoginAsks(k, u) \/ ResetAsks(k, u)
    \/ \E u \in Users :
        \/ SignOut(u) \/ ForgetsKey(u) \/ UnlinksPlex(u)
        \/ DeletesUser(u) \/ RevokesKey(u)
        \/ \E role \in Roles, disabled \in BOOLEAN : Patches(u, role, disabled)
    \/ \E i \in Invites :
        \/ \E role \in Roles : MintsInvite(i, role)
        \/ InviteDies(i)

Spec == Init /\ [][Next]_vars

-----------------------------------------------------------------------------
(* Properties.                                                             *)

\* However many browsers open one link, and however their ceremonies overlap, an
\* invite makes at most one account (`claimInvite`).
OneAccountPerInvite == \A i \in Invites : made[i] <= 1

\* The door of the first run lets one person in, ever: visitors who race share
\* one claim, and an empty table is not taken for a first run once somebody came
\* in that way, because the last admin stays.
FirstRunHappensOnce ==
    \A i, j \in FirstRunClaims :
        made[i] <= 1 /\ (made[i] > 0 /\ made[j] > 0 => i = j)

\* link/finish: "silently replacing it would let somebody swap the identity on an
\* account".  A connection is made or taken away, never changed, however old the
\* ceremony that would change it.
NoSilentRelink ==
    [][\A u \in Accounts \cap Accounts' :
           (user[u].plex # Nobody /\ user'[u].plex # user[u].plex)
               => user'[u].plex = Nobody]_vars

=============================================================================
