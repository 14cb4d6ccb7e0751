---------------------------- MODULE AccountsProofs ----------------------------
(***************************************************************************)
(* What Accounts keeps for every number of users, invites, ceremonies and  *)
(* calls: an invite makes one account, and the door of the first run lets  *)
(* one person in, because claims are shared and the last admin stays.      *)
(***************************************************************************)
EXTENDS Accounts, TLAPS, FiniteSetTheorems

\* `attributeInvite` and the session come to an account that exists.
EnrolledExists == stretch.step = "enrol" => stretch.of.user \in Accounts

Types == AccountsTypeOK /\ EnrolledExists

LEMMA NotRows ==
    /\ Unused \notin UserRow /\ Deleted \notin UserRow
    /\ NoInvite \notin InviteRow
    /\ NoCeremony \notin Ceremony
    /\ NoCall \notin Call
    /\ NoStretch \notin Stretch
    /\ NoStretch.step = "none"
<1>1. Unused \notin UserRow /\ Deleted \notin UserRow
  BY DEF Unused, Deleted, UserRow
<1>2. NoInvite \notin InviteRow
  BY DEF NoInvite, InviteRow
<1>3. NoCeremony \notin Ceremony
  BY DEF NoCeremony, Ceremony
<1>4. NoCall \notin Call
  BY DEF NoCall, Call
<1>5. NoStretch \notin Stretch /\ NoStretch.step = "none"
  BY DEF NoStretch, Stretch
<1> QED
  BY <1>1, <1>2, <1>3, <1>4, <1>5

LEMMA AccountsHaveRows ==
    ASSUME AccountsTypeOK, NEW u \in Accounts
    PROVE  u \in Users /\ user[u] \in UserRow
BY DEF AccountsTypeOK, Accounts

\* A live invite is a row of the table, and a call that finishes says whose it is.
LEMMA LiveIsRow ==
    ASSUME AccountsTypeOK, NEW i \in Invites \cup {Nobody}, Live(i)
    PROVE  i \in Invites /\ invite[i] \in InviteRow
BY NotRows DEF AccountsTypeOK, Live, NoInvite

LEMMA FinishingHasParty ==
    ASSUME AccountsTypeOK, NEW k \in Calls, call[k].op \in {"verify", "login", "plex", "link", "reset"}
    PROVE  /\ call[k] \in Call
           /\ call[k].of.invite \in Invites \cup {Nobody}
           /\ call[k].of.user \in Users \cup {Nobody}
           /\ call[k].of \in Parties
<1>1. call[k] \in Call
  BY DEF AccountsTypeOK, NoCall
<1> QED
  BY <1>1 DEF Call, Parties

-----------------------------------------------------------------------------
(* Types.                                                                  *)

\* Rows of accounts that change, none of which goes.
LEMMA RowChanges ==
    ASSUME AccountsTypeOK, NEW u \in Accounts, NEW r \in UserRow,
           user' = [user EXCEPT ![u] = r]
    PROVE  /\ user' \in [Users -> UserRow \cup {Unused, Deleted}]
           /\ Accounts' = Accounts
BY NotRows, AccountsHaveRows DEF AccountsTypeOK, Accounts

LEMMA DoorTypes ==
    ASSUME AccountsTypeOK, AskDoor
    PROVE  closed' \in BOOLEAN /\ invite' \in [Invites -> InviteRow \cup {NoInvite}]
BY DEF AccountsTypeOK, AskDoor

LEMMA MintTypes ==
    ASSUME AccountsTypeOK, NEW i \in Invites, NEW role \in Roles, NEW by \in Minters, Mint(i, role, by)
    PROVE  invite' \in [Invites -> InviteRow \cup {NoInvite}]
BY DEF AccountsTypeOK, Mint, InviteRow

LEMMA ClaimTypes ==
    ASSUME AccountsTypeOK, NEW i \in Invites \cup {Nobody}, ClaimInvite(i)
    PROVE  /\ invite' \in [Invites -> InviteRow \cup {NoInvite}]
           /\ i \in Invites /\ invite[i].role \in Roles
<1>1. i \in Invites /\ invite[i] \in InviteRow /\ invite[i].state = "live"
  BY LiveIsRow DEF ClaimInvite, Live
<1>2. [state |-> "redeemed", by |-> invite[i].by] \in InviteRow /\ invite[i].role \in Roles
  BY <1>1 DEF InviteRow
<1> QED
  BY <1>1, <1>2 DEF AccountsTypeOK, ClaimInvite

LEMMA ChallengeTypes ==
    ASSUME AccountsTypeOK, NEW c \in Ceremonies,
           NEW i \in Invites \cup {Nobody}, NEW u \in Users \cup {Nobody},
           PutChallenge(c, Party(i, u))
    PROVE  ceremony' \in [Ceremonies -> Ceremony \cup {NoCeremony}]
<1>1. [kind |-> "passkey", of |-> Party(i, u)] \in Ceremony
  BY DEF Ceremony, Party, Parties
<1> QED
  BY <1>1 DEF AccountsTypeOK, PutChallenge

LEMMA PinTypes ==
    ASSUME AccountsTypeOK, NEW c \in Ceremonies, NEW i \in Invites \cup {Nobody}, PutPin(c, i)
    PROVE  ceremony' \in [Ceremonies -> Ceremony \cup {NoCeremony}]
<1>1. \A a \in PlexAccounts : [kind |-> "plex", of |-> Party(i, Nobody), by |-> a] \in Ceremony
  BY DEF Ceremony, Party
<1> QED
  BY <1>1 DEF AccountsTypeOK, PutPin

LEMMA ForgottenTypes ==
    ASSUME AccountsTypeOK, NEW c, Forgotten(c)
    PROVE  ceremony' \in [Ceremonies -> Ceremony \cup {NoCeremony}]
BY DEF AccountsTypeOK, Forgotten

\* A PIN that goes leaves calls that are still calls.
LEMMA PinGoesTypes ==
    ASSUME AccountsTypeOK, NEW c, NEW k, PinGoes(c, k)
    PROVE  /\ ceremony' \in [Ceremonies -> Ceremony \cup {NoCeremony}]
           /\ call' \in [Calls -> Call \cup {NoCall}]
<1>1. ceremony' \in [Ceremonies -> Ceremony \cup {NoCeremony}]
  BY ForgottenTypes DEF PinGoes
<1>2. ASSUME NEW j \in PollingPlex
      PROVE  [call[j] EXCEPT !.from = Nobody] \in Call
  <2>1. call[j] \in Call /\ call[j].op \in {"plex", "link"}
    BY DEF PollingPlex, AccountsTypeOK, NoCall
  <2>2. CASE call[j].op = "plex"
    BY <2>1, <2>2 DEF Call
  <2>3. CASE call[j].op = "link"
    BY <2>1, <2>3 DEF Call
  <2> QED
    BY <2>1, <2>2, <2>3
<1>3. \A j \in Calls : call[j] \in Call \cup {NoCall}
  BY DEF AccountsTypeOK
<1>4. call' \in [Calls -> Call \cup {NoCall}]
  BY <1>2, <1>3 DEF PinGoes
<1> QED
  BY <1>1, <1>4

LEMMA EndsTypes ==
    ASSUME AccountsTypeOK, NEW k, Ends(k)
    PROVE  call' \in [Calls -> Call \cup {NoCall}]
BY DEF AccountsTypeOK, Ends

LEMMA PartyTypes ==
    ASSUME NEW i \in Invites \cup {Nobody}, NEW u \in Users \cup {Nobody}
    PROVE  Party(i, u) \in Parties
BY DEF Party, Parties

\* What a ceremony is about, when it is of a kind that is finished.
LEMMA CeremonyHasParty ==
    ASSUME AccountsTypeOK, NEW c \in Ceremonies, ceremony[c].kind \in {"passkey", "plex"}
    PROVE  /\ ceremony[c] \in Ceremony /\ ceremony[c].of \in Parties
           /\ ceremony[c].kind = "plex" => ceremony[c].by \in PlexAccounts
<1>1. ceremony[c] \in Ceremony
  BY DEF AccountsTypeOK, NoCeremony
<1> QED
  BY <1>1 DEF Ceremony, Parties

LEMMA TypesStep ==
    ASSUME Types, [Next]_vars
    PROVE  Types'
<1> USE DEF Types, rowVars
<1>0. \A u \in Accounts : u \in Users /\ user[u] \in UserRow
  BY AccountsHaveRows
<1>1. ASSUME UNCHANGED <<user, stretch>>, AccountsTypeOK'
      PROVE  Types'
  BY <1>1 DEF EnrolledExists, Accounts
<1>2. ASSUME stretch.step = "none", UNCHANGED stretch, AccountsTypeOK'
      PROVE  Types'
  BY <1>2 DEF EnrolledExists
<1>3. Idle => stretch.step = "none"
  BY NotRows DEF Idle
<1>4. ASSUME UNCHANGED <<user, signedIn>>
      PROVE  signedIn' \subseteq Accounts'
  BY <1>4 DEF AccountsTypeOK, Accounts
<1>5. ASSUME VisitorLooks
      PROVE  Types'
  <2>1. AccountsTypeOK'
    BY <1>4, <1>5, DoorTypes DEF VisitorLooks, AccountsTypeOK
  <2> QED
    BY <1>1, <1>5, <2>1 DEF VisitorLooks
<1>6. ASSUME Boot
      PROVE  Types'
  <2>1. closed' \in BOOLEAN /\ invite' \in [Invites -> InviteRow \cup {NoInvite}]
    BY <1>6, DoorTypes, MintTypes DEF Boot, AccountsTypeOK, Roles, Minters
  <2>2. AccountsTypeOK'
    BY <1>4, <1>6, <2>1 DEF Boot, AccountsTypeOK
  <2>3. stretch'.step = "none"
    BY <1>6, NotRows DEF Boot
  <2> QED
    BY <2>2, <2>3 DEF EnrolledExists
<1>7. ASSUME NEW c \in Ceremonies, NEW i \in Invites, BeginWithInvite(c, i)
      PROVE  Types'
  <2>1. ceremony' \in [Ceremonies -> Ceremony \cup {NoCeremony}]
    BY <1>7, ChallengeTypes, PinTypes DEF BeginWithInvite
  <2>2. AccountsTypeOK'
    BY <1>4, <1>7, <2>1 DEF BeginWithInvite, AccountsTypeOK
  <2> QED
    BY <1>1, <1>7, <2>2 DEF BeginWithInvite
<1>8. ASSUME NEW c \in Ceremonies, BeginFirstRun(c)
      PROVE  Types'
  <2>1. PICK i \in Invites : /\ ClaimHash(i)
                             /\ PutChallenge(c, Party(i, Nobody)) \/ PutPin(c, i)
    BY <1>8 DEF BeginFirstRun
  <2>2. ceremony' \in [Ceremonies -> Ceremony \cup {NoCeremony}]
    BY <2>1, ChallengeTypes, PinTypes
  <2>3. invite' \in [Invites -> InviteRow \cup {NoInvite}]
    BY <2>1, MintTypes DEF ClaimHash, AccountsTypeOK, Roles, Minters
  <2>4. AccountsTypeOK'
    BY <1>4, <1>8, <2>2, <2>3 DEF BeginFirstRun, AccountsTypeOK
  <2> QED
    BY <1>1, <1>8, <2>4 DEF BeginFirstRun
<1>9. ASSUME NEW c \in Ceremonies, BeginSignIn(c)
      PROVE  Types'
  <2>1. ceremony' \in [Ceremonies -> Ceremony \cup {NoCeremony}]
    BY <1>9, PinTypes DEF BeginSignIn, AccountsTypeOK
  <2>2. AccountsTypeOK'
    BY <1>4, <1>9, <2>1, DoorTypes DEF BeginSignIn, AccountsTypeOK
  <2> QED
    BY <1>1, <1>9, <2>2 DEF BeginSignIn
<1>10. ASSUME NEW c \in Ceremonies, NEW u \in Users, BeginForSelf(c, u)
       PROVE  Types'
  <2>1. ceremony' \in [Ceremonies -> Ceremony \cup {NoCeremony}]
    BY <1>10, ChallengeTypes, PinTypes DEF BeginForSelf
  <2>2. AccountsTypeOK'
    BY <1>4, <1>10, <2>1 DEF BeginForSelf, AccountsTypeOK
  <2> QED
    BY <1>1, <1>10, <2>2 DEF BeginForSelf
<1>11. ASSUME NEW k \in Calls, NEW c \in Ceremonies, TakeChallenge(k, c)
       PROVE  Types'
  <2>1. [op |-> "verify", of |-> ceremony[c].of] \in Call
    BY <1>11, CeremonyHasParty DEF TakeChallenge, Call
  <2>2. AccountsTypeOK'
    BY <1>4, <1>11, <2>1, ForgottenTypes DEF TakeChallenge, AccountsTypeOK
  <2> QED
    BY <1>1, <1>11, <2>2 DEF TakeChallenge
<1>12. ASSUME NEW k \in Calls, VerifiedWithInvite(k)
       PROVE  Types'
  <2>1. /\ call[k].of.invite \in Invites \cup {Nobody}
        /\ call[k].of \in Parties
    BY <1>12, FinishingHasParty DEF VerifiedWithInvite
  <2>2. stretch' \in Stretch
    BY <1>12, <2>1, ClaimTypes DEF VerifiedWithInvite, Stretch
  <2>3. AccountsTypeOK'
    BY <1>4, <1>12, <2>1, <2>2, ClaimTypes, EndsTypes DEF VerifiedWithInvite, AccountsTypeOK
  <2>4. stretch'.step = "create"
    BY <1>12 DEF VerifiedWithInvite
  <2> QED
    BY <2>3, <2>4 DEF EnrolledExists
<1>13. ASSUME NEW k \in Calls, VerifiedDevice(k)
       PROVE  Types'
  <2> DEFINE u == call[k].of.user
             r == [user[u] EXCEPT !.keys = @ + 1]
  <2>1. u \in Accounts /\ r \in UserRow /\ user' = [user EXCEPT ![u] = r]
    BY <1>0, <1>13, AccountsAssumption DEF VerifiedDevice, UserRow, AccountsTypeOK, AccountsAssumption
  <2>2. user' \in [Users -> UserRow \cup {Unused, Deleted}] /\ Accounts' = Accounts
    BY <2>1, RowChanges
  <2>3. AccountsTypeOK'
    BY <1>13, <2>1, <2>2, EndsTypes DEF VerifiedDevice, AccountsTypeOK
  <2> QED
    BY <1>2, <1>3, <1>13, <2>3 DEF VerifiedDevice
<1>14. ASSUME NEW k \in Calls, CallRefused(k)
       PROVE  Types'
  <2>1. AccountsTypeOK'
    BY <1>4, <1>14, EndsTypes, PinGoesTypes DEF CallRefused, AccountsTypeOK
  <2> QED
    BY <1>1, <1>14, <2>1 DEF CallRefused
<1>15. ASSUME CreatesUser
       PROVE  Types'
  <2>1. PICK u \in Unregistered :
          /\ user' = [user EXCEPT ![u] = [role |-> stretch.role, disabled |-> FALSE,
                                          plex |-> stretch.plex, keys |-> 0]]
          /\ made' = [i \in Invites |-> IF i = stretch.of.invite THEN made[i] + 1 ELSE made[i]]
          /\ stretch' = [stretch EXCEPT !.step = "enrol", !.of.user = u]
    BY <1>15 DEF CreatesUser
  <2>2. stretch \in Stretch /\ u \in Users
    BY <1>15, NotRows DEF CreatesUser, AccountsTypeOK, Unregistered
  <2>3. stretch' \in Stretch /\ stretch'.of.user = u
    BY <2>1, <2>2 DEF Stretch, Parties
  <2>4. user'[u] \in UserRow /\ user' \in [Users -> UserRow \cup {Unused, Deleted}]
    BY <2>1, <2>2, AccountsAssumption DEF Stretch, UserRow, AccountsTypeOK, AccountsAssumption
  <2>5. Accounts \subseteq Accounts' /\ u \in Accounts'
    BY <2>1, <2>2, <2>4, NotRows DEF Accounts, AccountsTypeOK, Unregistered
  <2>6. made' \in [Invites -> Nat]
    BY <2>1 DEF AccountsTypeOK
  <2>7. AccountsTypeOK'
    BY <1>15, <2>3, <2>4, <2>5, <2>6 DEF CreatesUser, AccountsTypeOK
  <2> QED
    BY <2>3, <2>5, <2>7 DEF EnrolledExists
<1>16. ASSUME Enrols
       PROVE  Types'
  <2> DEFINE u == stretch.of.user
  <2>1. u \in Accounts
    BY <1>16 DEF Enrols, EnrolledExists
  <2>2. user' \in [Users -> UserRow \cup {Unused, Deleted}] /\ Accounts' = Accounts
    <3>1. CASE stretch.plex # Nobody
      BY <1>16, <3>1 DEF Enrols, AccountsTypeOK, Accounts
    <3>2. CASE stretch.plex = Nobody
      <4> DEFINE r == [user[u] EXCEPT !.keys = 1]
      <4>1. r \in UserRow /\ user' = [user EXCEPT ![u] = r]
        BY <1>0, <1>16, <2>1, <3>2, AccountsAssumption
           DEF Enrols, UserRow, AccountsTypeOK, AccountsAssumption
      <4> QED
        BY <2>1, <4>1, RowChanges
    <3> QED
      BY <3>1, <3>2
  <2>3. AccountsTypeOK'
    BY <1>16, <2>1, <2>2 DEF Enrols, AccountsTypeOK
  <2>4. stretch'.step = "none"
    BY <1>16, NotRows DEF Enrols
  <2> QED
    BY <2>3, <2>4 DEF EnrolledExists
<1>17. ASSUME NEW k \in Calls, NEW c \in Ceremonies, PeekPin(k, c)
       PROVE  Types'
  <2>1. [op |-> "plex", of |-> ceremony[c].of, from |-> c, by |-> ceremony[c].by] \in Call
    BY <1>17, CeremonyHasParty DEF PeekPin, Call
  <2>2. AccountsTypeOK'
    BY <1>4, <1>17, <2>1 DEF PeekPin, AccountsTypeOK
  <2> QED
    BY <1>1, <1>17, <2>2 DEF PeekPin
<1>33. ASSUME NEW k \in Calls, NEW c \in Ceremonies, NEW u \in Users, PeekPinToLink(k, c, u)
       PROVE  Types'
  <2>1. [op |-> "link", of |-> Party(Nobody, u), from |-> c, by |-> ceremony[c].by,
         linked |-> user[u].plex # Nobody] \in Call
    BY <1>33, CeremonyHasParty, PartyTypes DEF PeekPinToLink, Call
  <2>2. AccountsTypeOK'
    BY <1>4, <1>33, <2>1 DEF PeekPinToLink, AccountsTypeOK
  <2> QED
    BY <1>1, <1>33, <2>2 DEF PeekPinToLink
<1>18. ASSUME NEW k \in Calls, PlexSignsIn(k)
       PROVE  Types'
  <2>1. WithPlex(call[k].by) \subseteq Accounts
    BY DEF WithPlex
  <2>2. signedIn' \subseteq Accounts'
    BY <1>18, <2>1 DEF PlexSignsIn, AccountsTypeOK, Accounts
  <2>3. AccountsTypeOK'
    BY <1>18, <2>2, PinGoesTypes DEF PlexSignsIn, Known, AccountsTypeOK
  <2> QED
    BY <1>1, <1>18, <2>3 DEF PlexSignsIn
<1>19. ASSUME NEW k \in Calls, PlexSignsUp(k)
       PROVE  Types'
  <2> DEFINE a == call[k].by
  <2> a \in PlexAccounts
    BY <1>19, FinishingHasParty DEF PlexSignsUp, Known, Call
  <2>1. /\ call[k].of.invite \in Invites \cup {Nobody}
        /\ call[k].of \in Parties
    BY <1>19, FinishingHasParty DEF PlexSignsUp, Known
  <2>2. /\ stretch' \in Stretch /\ stretch'.step = "create"
        /\ invite' \in [Invites -> InviteRow \cup {NoInvite}]
    <3>1. CASE ClaimInvite(call[k].of.invite)
               /\ stretch' = [step |-> "create", of |-> call[k].of, plex |-> a,
                              role |-> invite[call[k].of.invite].role]
      BY <2>1, <3>1, ClaimTypes DEF Stretch
    <3>2. CASE stretch' = [step |-> "create", of |-> Party(Nobody, Nobody), plex |-> a,
                           role |-> "user"] /\ UNCHANGED invite
      BY <3>2, PartyTypes DEF Stretch, Roles, AccountsTypeOK
    <3> QED
      BY <1>19, <3>1, <3>2 DEF PlexSignsUp
  <2>3. AccountsTypeOK'
    BY <1>4, <1>19, <2>2, PinGoesTypes DEF PlexSignsUp, Known, AccountsTypeOK
  <2> QED
    BY <2>2, <2>3 DEF EnrolledExists
<1>20. ASSUME NEW k \in Calls, Links(k)
       PROVE  Types'
  <2> DEFINE u == call[k].of.user
             a == call[k].by
             r == [user[u] EXCEPT !.plex = a]
  <2>0. a \in PlexAccounts
    BY <1>20, FinishingHasParty DEF Links, Known, Call
  <2>1. u \in Accounts /\ r \in UserRow /\ user' = [user EXCEPT ![u] = r]
    BY <1>0, <1>20, <2>0 DEF Links, UserRow, AccountsTypeOK
  <2>2. user' \in [Users -> UserRow \cup {Unused, Deleted}] /\ Accounts' = Accounts
    BY <2>1, RowChanges
  <2>3. AccountsTypeOK'
    BY <1>20, <2>2, PinGoesTypes DEF Links, Known, AccountsTypeOK
  <2> QED
    BY <1>2, <1>3, <1>20, <2>3 DEF Links, Known
<1>21. ASSUME NEW k \in Calls, NEW u \in Users, LoginAsks(k, u) \/ ResetAsks(k, u)
       PROVE  Types'
  <2>1. u \in Accounts /\ user[u].role \in Roles
    BY <1>0, <1>21 DEF LoginAsks, ResetAsks, UserRow
  <2>2. /\ [op |-> "login", of |-> Party(Nobody, u)] \in Call
        /\ [op |-> "reset", of |-> Party(Nobody, u), role |-> user[u].role] \in Call
    BY <2>1, PartyTypes DEF Call
  <2>3. AccountsTypeOK'
    BY <1>4, <1>21, <2>2 DEF LoginAsks, ResetAsks, AccountsTypeOK
  <2> QED
    BY <1>1, <1>21, <2>3 DEF LoginAsks, ResetAsks
<1>22. ASSUME NEW k \in Calls, LoginDone(k)
       PROVE  Types'
  <2>1. AccountsTypeOK'
    BY <1>22, EndsTypes DEF LoginDone, AccountsTypeOK, Accounts
  <2> QED
    BY <1>1, <1>22, <2>1 DEF LoginDone
<1>23. ASSUME NEW u \in Users, SignOut(u)
       PROVE  Types'
  <2>1. AccountsTypeOK'
    BY <1>23 DEF SignOut, AccountsTypeOK, Accounts
  <2> QED
    BY <1>1, <1>23, <2>1 DEF SignOut
<1>24. ASSUME NEW u \in Users, ForgetsKey(u) \/ RevokesKey(u)
       PROVE  Types'
  <2> DEFINE r == [user[u] EXCEPT !.keys = @ - 1]
  <2>1. u \in Accounts /\ r \in UserRow /\ user' = [user EXCEPT ![u] = r]
    BY <1>0, <1>24, AccountsAssumption
       DEF ForgetsKey, RevokesKey, Enters, UserRow, AccountsTypeOK, AccountsAssumption
  <2>2. user' \in [Users -> UserRow \cup {Unused, Deleted}] /\ Accounts' = Accounts
    BY <2>1, RowChanges
  <2>3. AccountsTypeOK'
    BY <1>24, <2>2 DEF ForgetsKey, RevokesKey, AccountsTypeOK
  <2> QED
    BY <1>2, <1>3, <1>24, <2>3 DEF ForgetsKey, RevokesKey, Enters
<1>25. ASSUME NEW u \in Users, UnlinksPlex(u)
       PROVE  Types'
  <2> DEFINE r == [user[u] EXCEPT !.plex = Nobody]
  <2>1. u \in Accounts /\ r \in UserRow /\ user' = [user EXCEPT ![u] = r]
    BY <1>0, <1>25 DEF UnlinksPlex, Enters, UserRow, AccountsTypeOK
  <2>2. user' \in [Users -> UserRow \cup {Unused, Deleted}] /\ Accounts' = Accounts
    BY <2>1, RowChanges
  <2>3. AccountsTypeOK'
    BY <1>25, <2>2 DEF UnlinksPlex, AccountsTypeOK
  <2> QED
    BY <1>2, <1>3, <1>25, <2>3 DEF UnlinksPlex, Enters
<1>26. ASSUME NEW i \in Invites, NEW role \in Roles, MintsInvite(i, role)
       PROVE  Types'
  <2>1. AccountsTypeOK'
    BY <1>4, <1>26, MintTypes DEF MintsInvite, AccountsTypeOK, Minters
  <2> QED
    BY <1>1, <1>26, <2>1 DEF MintsInvite
<1>27. ASSUME NEW u \in Users, NEW role \in Roles, NEW disabled \in BOOLEAN, Patches(u, role, disabled)
       PROVE  Types'
  <2> DEFINE r == [user[u] EXCEPT !.role = role, !.disabled = disabled]
  <2>1. u \in Accounts /\ r \in UserRow /\ user' = [user EXCEPT ![u] = r]
    BY <1>0, <1>27 DEF Patches, UserRow, AccountsTypeOK
  <2>2. user' \in [Users -> UserRow \cup {Unused, Deleted}] /\ Accounts' = Accounts
    BY <2>1, RowChanges
  <2>3. AccountsTypeOK'
    BY <1>27, <2>2 DEF Patches, AccountsTypeOK
  <2> QED
    BY <1>2, <1>3, <1>27, <2>3 DEF Patches
<1>28. ASSUME NEW u \in Users, DeletesUser(u)
       PROVE  Types'
  <2>1. AccountsTypeOK'
    BY <1>28, NotRows DEF DeletesUser, AccountsTypeOK, Accounts
  <2> QED
    BY <1>2, <1>3, <1>28, <2>1 DEF DeletesUser
<1>29. ASSUME NEW k \in Calls, Resets(k)
       PROVE  Types'
  <2> DEFINE u == call[k].of.user
  <2>1. user' \in [Users -> UserRow \cup {Unused, Deleted}] /\ Accounts' = Accounts
    <3>1. CASE u \in Accounts
      <4> DEFINE r == [user[u] EXCEPT !.keys = 0, !.plex = Nobody]
      <4>1. r \in UserRow /\ user' = [user EXCEPT ![u] = r]
        <5>1. user[u] \in UserRow /\ 0 \in 0 .. MaxKeys
          BY <1>0, <3>1, AccountsAssumption DEF AccountsAssumption
        <5>2. r \in UserRow
          BY <5>1 DEF UserRow
        <5>3. user' = [user EXCEPT ![u].keys = 0, ![u].plex = Nobody]
          BY <1>29, <3>1 DEF Resets
        <5>4. user' = [user EXCEPT ![u] = r]
          BY <1>0, <3>1, <5>3 DEF AccountsTypeOK
        <5> QED
          BY <5>2, <5>4
      <4> QED
        BY <3>1, <4>1, RowChanges
    <3>2. CASE u \notin Accounts
      BY <1>29, <3>2 DEF Resets, AccountsTypeOK, Accounts
    <3> QED
      BY <3>1, <3>2
  <2>2. call[k].role \in Roles
    BY <1>29, FinishingHasParty DEF Resets, Call
  <2>3. invite' \in [Invites -> InviteRow \cup {NoInvite}]
    BY <1>29, <2>2, MintTypes DEF Resets, Minters
  <2>4. AccountsTypeOK'
    BY <1>29, <2>1, <2>3, EndsTypes DEF Resets, AccountsTypeOK
  <2> QED
    BY <1>2, <1>3, <1>29, <2>4 DEF Resets
<1>30. ASSUME NEW i \in Invites, InviteDies(i)
       PROVE  Types'
  <2>1. AccountsTypeOK'
    BY <1>4, <1>30 DEF InviteDies, AccountsTypeOK
  <2> QED
    BY <1>1, <1>30, <2>1 DEF InviteDies
<1>31. ASSUME NEW c \in Ceremonies, CeremonyExpires(c)
       PROVE  Types'
  <2>1. AccountsTypeOK'
    BY <1>4, <1>31, PinGoesTypes DEF CeremonyExpires, AccountsTypeOK
  <2> QED
    BY <1>1, <1>31, <2>1 DEF CeremonyExpires
<1>32. ASSUME UNCHANGED vars
       PROVE  Types'
  <2>1. AccountsTypeOK'
    BY <1>4, <1>32 DEF vars, AccountsTypeOK
  <2> QED
    BY <1>1, <1>32, <2>1 DEF vars
<1> QED
  BY <1>5, <1>6, <1>7, <1>8, <1>9, <1>10, <1>11, <1>12, <1>13, <1>14, <1>15, <1>16, <1>17, <1>18,
     <1>19, <1>20, <1>21, <1>22, <1>23, <1>24, <1>25, <1>26, <1>27, <1>28, <1>29, <1>30, <1>31,
     <1>32, <1>33 DEF Next

-----------------------------------------------------------------------------
(* The last admin stays.                                                   *)

LEMMA SameRole ==
    ASSUME AccountsTypeOK, NEW u \in Accounts, NEW r \in UserRow,
           r.role = user[u].role, r.disabled = user[u].disabled,
           user' = [user EXCEPT ![u] = r]
    PROVE  Admins' = Admins
<1>1. Accounts' = Accounts
  BY RowChanges
<1>2. \A v \in Accounts : user'[v].role = user[v].role /\ user'[v].disabled = user[v].disabled
  BY AccountsHaveRows DEF AccountsTypeOK
<1> QED
  BY <1>1, <1>2 DEF Admins

LEMMA LastAdminStays ==
    ASSUME AccountsTypeOK, NEW u, ~(u \in Admins /\ LastAdmin), Admins \ {u} \subseteq Admins',
           Admins # {}
    PROVE  Admins' # {}
<1>1. CASE u \in Admins
  <2>1. IsFiniteSet({u}) /\ Cardinality({u}) = 1
    BY FS_Singleton
  <2>2. CASE Admins \subseteq {u}
    <3>1. Cardinality(Admins) <= 1
      BY <2>1, <2>2, FS_Subset
    <3> QED
      BY <1>1, <3>1 DEF LastAdmin
  <2>3. CASE ~(Admins \subseteq {u})
    BY <2>3
  <2> QED
    BY <2>2, <2>3
<1>2. CASE u \notin Admins
  BY <1>2
<1> QED
  BY <1>1, <1>2

-----------------------------------------------------------------------------
(* Invites and the accounts they make.                                     *)

\* An account is made of an invite that was claimed, once; claims of the first run
\* are for an admin, one is live at a time, and none any more when one has been
\* used, for the admin it made, or a successor, is there.
Claimed(i) == invite[i].state = "redeemed"
Used(i) == made[i] = 1
OfClaim(i) ==
    /\ Claimed(i) /\ ~Used(i)
    /\ i \in FirstRunClaims =>
           stretch.role = "admin" /\ LiveClaims = {} /\ \A j \in FirstRunClaims : ~Used(j)
Once ==
    /\ \A i \in Invites : made[i] <= 1 /\ (Used(i) => Claimed(i))
    /\ \A i \in LiveClaims : invite[i].role = "admin"
    /\ \A i, j \in LiveClaims : i = j
    /\ \A i, j \in FirstRunClaims : Used(i) /\ Used(j) => i = j
    /\ \A i \in FirstRunClaims : Used(i) => Admins # {} /\ LiveClaims = {}
    /\ stretch.step = "create" /\ stretch.of.invite \in Invites => OfClaim(stretch.of.invite)

\* What one step does to the invites and to what was made of them.
AdminsStay == Admins # {} => Admins' # {}
Elsewhere == /\ UNCHANGED <<invite, made>> /\ AdminsStay
             /\ stretch' = stretch \/ stretch'.step # "create" \/ stretch'.of.invite = Nobody
Vanish == /\ \E D \in SUBSET {i \in Invites : Live(i)} :
                invite' = [i \in Invites |-> IF i \in D THEN NoInvite ELSE invite[i]]
          /\ UNCHANGED made /\ AdminsStay /\ stretch'.step # "create"
MintsOne == /\ \E i \in Invites, role \in Roles : Mint(i, role, "somebody else")
            /\ UNCHANGED made /\ AdminsStay /\ stretch'.step # "create"
MintsClaim == /\ DoorOpen /\ LiveClaims = {}
              /\ \E i \in Invites : Mint(i, "admin", "first-run")
              /\ UNCHANGED made /\ AdminsStay /\ stretch'.step # "create"
Claims == /\ \E i \in Invites : /\ ClaimInvite(i)
                                /\ stretch'.of.invite = i /\ stretch'.role = invite[i].role
          /\ UNCHANGED made /\ AdminsStay

LEMMA DoorVanishes ==
    ASSUME AccountsTypeOK, AskDoor, UNCHANGED made, AdminsStay, stretch'.step # "create"
    PROVE  Vanish
<1>1. CASE closed \/ Accounts = {}
  <2> DEFINE D == {}
  <2>1. invite' = [i \in Invites |-> IF i \in D THEN NoInvite ELSE invite[i]]
    BY <1>1 DEF AskDoor, AccountsTypeOK
  <2>2. D \in SUBSET {i \in Invites : Live(i)}
    OBVIOUS
  <2> HIDE DEF D
  <2> QED
    BY <2>1, <2>2 DEF Vanish
<1>2. CASE ~(closed \/ Accounts = {})
  <2> DEFINE D == {i \in FirstRunClaims : invite[i].state # "redeemed"}
  <2>1. invite' = [i \in Invites |-> IF i \in D THEN NoInvite ELSE invite[i]]
    BY <1>2 DEF AskDoor
  <2>2. \A i \in D : i \in Invites /\ Live(i)
    BY AccountsAssumption DEF FirstRunClaims, Live, AccountsTypeOK, InviteRow, AccountsAssumption
  <2> QED
    BY <2>1, <2>2 DEF Vanish
<1> QED
  BY <1>1, <1>2

LEMMA EachStepIsOneKind ==
    ASSUME Types, [Next]_vars
    PROVE  Elsewhere \/ Vanish \/ MintsOne \/ MintsClaim \/ Claims \/ CreatesUser
<1> USE DEF Types, rowVars
<1>0. \A u \in Accounts : u \in Users /\ user[u] \in UserRow
  BY AccountsHaveRows
<1>1. NoStretch.step = "none" /\ (Idle => stretch.step = "none")
  BY NotRows DEF Idle
<1>2. UNCHANGED user => AdminsStay
  BY DEF AdminsStay, Admins, Accounts
<1>3. ASSUME VisitorLooks
      PROVE  Vanish
  BY <1>1, <1>2, <1>3, DoorVanishes DEF VisitorLooks
<1>4. ASSUME Boot
      PROVE  Vanish \/ MintsOne
  <2>1. UNCHANGED made /\ AdminsStay /\ stretch'.step # "create"
    BY <1>1, <1>2, <1>4 DEF Boot
  <2>2. CASE Accounts # {}
    BY <1>4, <2>1, <2>2, DoorVanishes DEF Boot
  <2>3. CASE Accounts = {}
    BY <1>4, <2>1, <2>3 DEF Boot, MintsOne, Roles
  <2> QED
    BY <2>2, <2>3
<1>5. ASSUME NEW c \in Ceremonies, BeginFirstRun(c)
      PROVE  MintsClaim \/ Elsewhere
  <2>1. UNCHANGED made /\ AdminsStay /\ stretch' = stretch /\ stretch.step # "create"
    BY <1>1, <1>2, <1>5 DEF BeginFirstRun
  <2> QED
    BY <1>5, <2>1 DEF BeginFirstRun, ClaimHash, MintsClaim, Elsewhere
<1>6. ASSUME NEW c \in Ceremonies, BeginSignIn(c)
      PROVE  Vanish
  BY <1>1, <1>2, <1>6, DoorVanishes DEF BeginSignIn
<1>7. ASSUME \/ \E c \in Ceremonies : \/ \E i \in Invites : BeginWithInvite(c, i)
                                      \/ \E u \in Users : BeginForSelf(c, u)
                                      \/ CeremonyExpires(c)
                                      \/ \E k \in Calls : TakeChallenge(k, c) \/ PeekPin(k, c)
                                      \/ \E k \in Calls, u \in Users : PeekPinToLink(k, c, u)
             \/ \E k \in Calls : \/ CallRefused(k) \/ LoginDone(k) \/ PlexSignsIn(k)
                                 \/ \E u \in Users : LoginAsks(k, u) \/ ResetAsks(k, u)
             \/ \E u \in Users : SignOut(u)
      PROVE  Elsewhere
  BY <1>2, <1>7
     DEF Elsewhere, BeginWithInvite, BeginForSelf, CeremonyExpires, TakeChallenge, PeekPin,
         PeekPinToLink, CallRefused, LoginDone, PlexSignsIn, LoginAsks, ResetAsks, SignOut
<1>8. ASSUME NEW k \in Calls, VerifiedWithInvite(k)
      PROVE  Claims
  <2>1. call[k].of.invite \in Invites
    BY <1>8, FinishingHasParty DEF VerifiedWithInvite, ClaimInvite, Live
  <2> QED
    BY <1>2, <1>8, <2>1 DEF VerifiedWithInvite, Claims
<1>9. ASSUME NEW k \in Calls, PlexSignsUp(k)
      PROVE  Claims \/ Elsewhere
  <2> DEFINE a == call[k].by
  <2>1. call[k].of.invite \in Invites \cup {Nobody}
    BY <1>9, FinishingHasParty DEF PlexSignsUp, Known
  <2>2. UNCHANGED made /\ AdminsStay
    BY <1>2, <1>9 DEF PlexSignsUp
  <2>3. CASE ClaimInvite(call[k].of.invite)
             /\ stretch' = [step |-> "create", of |-> call[k].of, plex |-> a,
                            role |-> invite[call[k].of.invite].role]
    BY <2>1, <2>2, <2>3 DEF Claims, ClaimInvite, Live
  <2>4. CASE stretch' = [step |-> "create", of |-> Party(Nobody, Nobody), plex |-> a,
                         role |-> "user"] /\ UNCHANGED invite
    BY <2>2, <2>4 DEF Elsewhere, Party
  <2> QED
    BY <1>9, <2>3, <2>4 DEF PlexSignsUp
<1>10. ASSUME NEW k \in Calls, VerifiedDevice(k)
       PROVE  Elsewhere
  <2> DEFINE u == call[k].of.user
             r == [user[u] EXCEPT !.keys = @ + 1]
  <2>1. u \in Accounts /\ r \in UserRow /\ user' = [user EXCEPT ![u] = r]
    BY <1>0, <1>10, AccountsAssumption DEF VerifiedDevice, UserRow, AccountsTypeOK, AccountsAssumption
  <2>2. r.role = user[u].role /\ r.disabled = user[u].disabled
    BY <1>0, <2>1 DEF UserRow
  <2>3. Admins' = Admins
    BY <2>1, <2>2, SameRole
  <2> QED
    BY <1>10, <2>3 DEF VerifiedDevice, Elsewhere, AdminsStay
<1>11. ASSUME Enrols
       PROVE  Elsewhere
  <2> DEFINE u == stretch.of.user
             r == [user[u] EXCEPT !.keys = 1]
  <2>1. CASE stretch.plex # Nobody
    BY <1>1, <1>2, <1>11, <2>1 DEF Enrols, Elsewhere
  <2>2. CASE stretch.plex = Nobody
    <3>1. u \in Accounts /\ r \in UserRow /\ user' = [user EXCEPT ![u] = r]
      BY <1>0, <1>11, <2>2, AccountsAssumption
         DEF Enrols, EnrolledExists, UserRow, AccountsTypeOK, AccountsAssumption
    <3>2. r.role = user[u].role /\ r.disabled = user[u].disabled
      BY <1>0, <3>1 DEF UserRow
    <3>3. Admins' = Admins
      BY <3>1, <3>2, SameRole
    <3> QED
      BY <1>1, <1>11, <3>3 DEF Enrols, Elsewhere, AdminsStay
  <2> QED
    BY <2>1, <2>2
<1>12. ASSUME NEW k \in Calls, Links(k)
       PROVE  Elsewhere
  <2> DEFINE u == call[k].of.user
             a == call[k].by
             r == [user[u] EXCEPT !.plex = a]
  <2>0. a \in PlexAccounts
    BY <1>12, FinishingHasParty DEF Links, Known, Call
  <2>1. u \in Accounts /\ r \in UserRow /\ user' = [user EXCEPT ![u] = r]
    BY <1>0, <1>12, <2>0 DEF Links, UserRow, AccountsTypeOK
  <2>2. r.role = user[u].role /\ r.disabled = user[u].disabled
    BY <1>0, <2>1 DEF UserRow
  <2>3. Admins' = Admins
    BY <2>1, <2>2, SameRole
  <2> QED
    BY <1>12, <2>3 DEF Links, Elsewhere, AdminsStay
<1>13. ASSUME NEW u \in Users, ForgetsKey(u) \/ RevokesKey(u)
       PROVE  Elsewhere
  <2> DEFINE r == [user[u] EXCEPT !.keys = @ - 1]
  <2>1. u \in Accounts /\ r \in UserRow /\ user' = [user EXCEPT ![u] = r]
    BY <1>0, <1>13, AccountsAssumption
       DEF ForgetsKey, RevokesKey, Enters, UserRow, AccountsTypeOK, AccountsAssumption
  <2>2. r.role = user[u].role /\ r.disabled = user[u].disabled
    BY <1>0, <2>1 DEF UserRow
  <2>3. Admins' = Admins
    BY <2>1, <2>2, SameRole
  <2> QED
    BY <1>13, <2>3 DEF ForgetsKey, RevokesKey, Elsewhere, AdminsStay
<1>14. ASSUME NEW u \in Users, UnlinksPlex(u)
       PROVE  Elsewhere
  <2> DEFINE r == [user[u] EXCEPT !.plex = Nobody]
  <2>1. u \in Accounts /\ r \in UserRow /\ user' = [user EXCEPT ![u] = r]
    BY <1>0, <1>14 DEF UnlinksPlex, Enters, UserRow, AccountsTypeOK
  <2>2. r.role = user[u].role /\ r.disabled = user[u].disabled
    BY <1>0, <2>1 DEF UserRow
  <2>3. Admins' = Admins
    BY <2>1, <2>2, SameRole
  <2> QED
    BY <1>14, <2>3 DEF UnlinksPlex, Elsewhere, AdminsStay
<1>15. ASSUME NEW i \in Invites, NEW role \in Roles, MintsInvite(i, role)
       PROVE  MintsOne
  BY <1>1, <1>2, <1>15 DEF MintsInvite, MintsOne
<1>16. ASSUME NEW u \in Users, NEW role \in Roles, NEW disabled \in BOOLEAN, Patches(u, role, disabled)
       PROVE  Elsewhere
  <2> DEFINE r == [user[u] EXCEPT !.role = role, !.disabled = disabled]
  <2>1. u \in Accounts /\ r \in UserRow /\ user' = [user EXCEPT ![u] = r]
    BY <1>0, <1>16 DEF Patches, UserRow, AccountsTypeOK
  <2>2. Accounts' = Accounts /\ user'[u] = r /\ \A v \in Accounts \ {u} : user'[v] = user[v]
    BY <1>0, <2>1, RowChanges DEF AccountsTypeOK
  <2>3. Admins \ {u} \subseteq Admins'
    BY <2>2 DEF Admins
  <2>4. CASE role = "admin" /\ ~disabled
    <3>1. r.role = "admin" /\ ~r.disabled
      BY <1>0, <2>1, <2>4 DEF UserRow
    <3>2. u \in Admins'
      BY <2>1, <2>2, <3>1 DEF Admins
    <3> QED
      BY <1>16, <3>2 DEF Patches, Elsewhere, AdminsStay
  <2>5. CASE ~(role = "admin" /\ ~disabled)
    <3>1. ~(u \in Admins /\ LastAdmin)
      BY <1>16, <2>5 DEF Patches, Admins, Roles
    <3>2. AdminsStay
      BY <2>3, <3>1, LastAdminStays DEF AdminsStay
    <3> QED
      BY <1>16, <3>2 DEF Patches, Elsewhere
  <2> QED
    BY <2>4, <2>5
<1>17. ASSUME NEW u \in Users, DeletesUser(u)
       PROVE  Elsewhere
  <2>1. Admins \ {u} \subseteq Admins'
    BY <1>0, <1>17 DEF DeletesUser, Admins, Accounts, AccountsTypeOK
  <2>2. ~(u \in Admins /\ LastAdmin)
    BY <1>17 DEF DeletesUser, Admins
  <2>3. AdminsStay
    BY <2>1, <2>2, LastAdminStays DEF AdminsStay
  <2> QED
    BY <1>17, <2>3 DEF DeletesUser, Elsewhere
<1>18. ASSUME NEW k \in Calls, Resets(k)
       PROVE  MintsOne
  <2> DEFINE u == call[k].of.user
             r == [user[u] EXCEPT !.keys = 0, !.plex = Nobody]
  <2>1. AdminsStay
    <3>1. CASE u \in Accounts
      <4>1. user[u] \in UserRow /\ 0 \in 0 .. MaxKeys
        BY <1>0, <3>1, AccountsAssumption DEF AccountsAssumption
      <4>2. r \in UserRow /\ r.role = user[u].role /\ r.disabled = user[u].disabled
        BY <4>1 DEF UserRow
      <4>3. user' = [user EXCEPT ![u].keys = 0, ![u].plex = Nobody]
        BY <1>18, <3>1 DEF Resets
      <4>4. user' = [user EXCEPT ![u] = r]
        BY <1>0, <3>1, <4>3 DEF AccountsTypeOK
      <4>5. Admins' = Admins
        BY <3>1, <4>2, <4>4, SameRole
      <4> QED
        BY <4>5 DEF AdminsStay
    <3>2. CASE u \notin Accounts
      BY <1>2, <1>18, <3>2 DEF Resets
    <3> QED
      BY <3>1, <3>2
  <2>2. call[k].role \in Roles
    BY <1>18, FinishingHasParty DEF Resets, Call
  <2> QED
    BY <1>1, <1>18, <2>1, <2>2 DEF Resets, MintsOne
<1>19. ASSUME NEW i \in Invites, InviteDies(i)
       PROVE  Vanish
  <2>1. invite' = [j \in Invites |-> IF j \in {i} THEN NoInvite ELSE invite[j]]
    BY <1>19 DEF InviteDies, AccountsTypeOK
  <2>2. {i} \in SUBSET {j \in Invites : Live(j)}
    BY <1>19 DEF InviteDies
  <2> QED
    BY <1>1, <1>2, <1>19, <2>1, <2>2 DEF InviteDies, Vanish
<1>20. UNCHANGED vars => Elsewhere
  BY <1>2 DEF vars, Elsewhere
<1> QED
  BY <1>3, <1>4, <1>5, <1>6, <1>7, <1>8, <1>9, <1>10, <1>11, <1>12, <1>13, <1>14, <1>15, <1>16,
     <1>17, <1>18, <1>19, <1>20 DEF Next

\* The claims of the first run, row by row.
IsClaim(r) == r # NoInvite /\ r.by = "first-run"

LEMMA ClaimsByRow ==
    /\ FirstRunClaims = {i \in Invites : IsClaim(invite[i])}
    /\ LiveClaims = {i \in Invites : IsClaim(invite[i]) /\ invite[i].state = "live"}
    /\ FirstRunClaims' = {i \in Invites : IsClaim(invite'[i])}
    /\ LiveClaims' = {i \in Invites : IsClaim(invite'[i]) /\ invite'[i].state = "live"}
BY AccountsAssumption DEF FirstRunClaims, LiveClaims, Live, IsClaim, AccountsAssumption

LEMMA OnceStep ==
    ASSUME Types, Types', Once, [Next]_vars
    PROVE  Once'
<1> USE DEF Types
<1>1. \A i \in Invites : invite[i] = NoInvite \/ invite[i] \in InviteRow
  BY DEF AccountsTypeOK
<1>2. NoInvite.state = "none" /\ NoInvite \notin InviteRow
  BY NotRows DEF NoInvite
<1>3. \A i \in Invites : made[i] \in Nat /\ made[i] <= 1 /\ (Used(i) => Claimed(i))
  BY DEF Once, AccountsTypeOK
<1>4. \A i \in Invites : Live(i) => ~Claimed(i) /\ ~Used(i)
  BY <1>3 DEF Live, Claimed
<1>5. ASSUME Elsewhere
      PROVE  Once'
  <2>1. FirstRunClaims' = FirstRunClaims /\ LiveClaims' = LiveClaims
    BY <1>5 DEF Elsewhere, FirstRunClaims, LiveClaims, Live
  <2>2. stretch'.step = "create" /\ stretch'.of.invite \in Invites => stretch' = stretch
    BY <1>5, AccountsAssumption DEF Elsewhere, AccountsAssumption
  <2>3. \A i \in Invites : (Claimed(i)' <=> Claimed(i)) /\ (Used(i)' <=> Used(i))
    BY <1>5 DEF Elsewhere, Claimed, Used
  <2>4. (stretch.step = "create" /\ stretch.of.invite \in Invites => OfClaim(stretch.of.invite))'
    <3> SUFFICES ASSUME stretch'.step = "create", stretch'.of.invite \in Invites
                 PROVE  OfClaim(stretch.of.invite)'
      OBVIOUS
    <3>1. OfClaim(stretch.of.invite) /\ stretch' = stretch /\ invite' = invite /\ made' = made
      BY <1>5, <2>2 DEF Once, Elsewhere
    <3> QED
      BY <2>1, <3>1 DEF OfClaim, Claimed, Used
  <2>5. UNCHANGED <<invite, made>> /\ AdminsStay
    BY <1>5 DEF Elsewhere
  <2>6. \A i \in FirstRunClaims' : Used(i)' => Admins' # {} /\ LiveClaims' = {}
    BY <2>1, <2>5 DEF Once, AdminsStay, Used
  <2> QED
    BY <2>1, <2>4, <2>5, <2>6 DEF Once, Used, Claimed
<1>6. ASSUME Vanish
      PROVE  Once'
  <2>1. PICK D \in SUBSET {i \in Invites : Live(i)} :
            invite' = [i \in Invites |-> IF i \in D THEN NoInvite ELSE invite[i]]
    BY <1>6 DEF Vanish
  <2>2. \A i \in Invites : /\ Used(i)' <=> Used(i)
                           /\ Used(i) => i \notin D
                           /\ i \notin D => invite'[i] = invite[i]
                           /\ i \in D => invite'[i] = NoInvite
    BY <1>4, <1>6, <2>1 DEF Vanish, Used
  <2>3. /\ FirstRunClaims' = FirstRunClaims \ D
        /\ LiveClaims' \subseteq LiveClaims
    BY <1>2, <2>1, <2>2 DEF FirstRunClaims, LiveClaims, Live
  <2>4. \A i \in LiveClaims' : invite'[i].role = "admin"
    <3>1. \A i \in LiveClaims' : i \in LiveClaims /\ i \in Invites /\ i \notin D
      BY <2>2, <2>3, ClaimsByRow DEF IsClaim
    <3> QED
      BY <2>2, <3>1 DEF Once
  <2> QED
    BY <1>3, <1>6, <2>2, <2>3, <2>4 DEF Once, Vanish, AdminsStay, Claimed, FirstRunClaims
<1>7. ASSUME MintsOne
      PROVE  Once'
  <2>1. PICK j \in Invites, role \in Roles : Mint(j, role, "somebody else")
    BY <1>7 DEF MintsOne
  <2>2. \A i \in Invites : (Used(i)' <=> Used(i)) /\ (i # j => invite'[i] = invite[i])
    <3>1. UNCHANGED made
      BY <1>7 DEF MintsOne
    <3>2. \A i \in Invites : i # j => invite'[i] = invite[i]
      BY <2>1 DEF Mint, AccountsTypeOK
    <3> QED
      BY <3>1, <3>2 DEF Used
  <2>3. /\ invite[j] = NoInvite /\ ~Used(j)
        /\ invite'[j] = [state |-> "live", role |-> role, by |-> "somebody else"]
    BY <1>2, <1>3, <2>1 DEF Mint, Unminted, Claimed, AccountsTypeOK
  <2>4. FirstRunClaims' = FirstRunClaims /\ LiveClaims' = LiveClaims
    <3>1. ~IsClaim(invite[j]) /\ ~IsClaim(invite'[j])
      <4> DEFINE r == invite'[j]
      <4>1. r = [state |-> "live", role |-> role, by |-> "somebody else"]
        BY <2>3
      <4> HIDE DEF r
      <4>2. r.by = "somebody else"
        BY <4>1
      <4>3. ~IsClaim(r)
        BY <4>2 DEF IsClaim
      <4> QED
        BY <2>3, <4>3 DEF r, IsClaim
    <3> QED
      BY <2>2, <3>1, ClaimsByRow
  <2>5. UNCHANGED made /\ AdminsStay /\ stretch'.step # "create"
    BY <1>7 DEF MintsOne
  <2>6. \A i \in Invites : made'[i] <= 1 /\ (Used(i)' => Claimed(i)')
    BY <1>3, <2>2, <2>3, <2>5 DEF Claimed
  <2>7. /\ \A i \in LiveClaims' : invite'[i].role = "admin"
        /\ \A i \in FirstRunClaims' : Used(i)' => Admins' # {} /\ LiveClaims' = {}
    <3>1. \A i \in FirstRunClaims : i \in Invites /\ i # j
      BY <2>3, ClaimsByRow DEF IsClaim
    <3>2. LiveClaims \subseteq FirstRunClaims
      BY DEF LiveClaims
    <3> QED
      BY <2>2, <2>4, <2>5, <3>1, <3>2 DEF Once, AdminsStay
  <2>8. \A i, k \in FirstRunClaims' : Used(i)' /\ Used(k)' => i = k
    BY <2>2, <2>4, ClaimsByRow DEF Once
  <2> QED
    BY <2>4, <2>5, <2>6, <2>7, <2>8 DEF Once
<1>8. ASSUME MintsClaim
      PROVE  Once'
  <2>1. PICK j \in Invites : Mint(j, "admin", "first-run")
    BY <1>8 DEF MintsClaim
  <2>2. \A i \in Invites : (Used(i)' <=> Used(i)) /\ (i # j => invite'[i] = invite[i])
    BY <1>8, <2>1 DEF MintsClaim, Mint, Used
  <2>3. /\ invite[j] = NoInvite /\ ~Used(j)
        /\ invite'[j] = [state |-> "live", role |-> "admin", by |-> "first-run"]
    BY <1>2, <1>3, <2>1 DEF Mint, Unminted, Claimed, AccountsTypeOK
  <2>4. Admins = {} /\ LiveClaims = {}
    BY <1>8 DEF MintsClaim, DoorOpen, Admins
  <2>5. \A i \in FirstRunClaims : ~Used(i)
    BY <2>4 DEF Once
  <2>6. /\ FirstRunClaims' = FirstRunClaims \cup {j}
        /\ LiveClaims' \subseteq {j}
    BY <1>2, <2>2, <2>3, <2>4 DEF FirstRunClaims, LiveClaims, Live, NoInvite
  <2>7. /\ \A i \in FirstRunClaims' : ~Used(i)'
        /\ \A i \in LiveClaims' : invite'[i].role = "admin"
    BY <2>2, <2>3, <2>5, <2>6 DEF FirstRunClaims
  <2> QED
    BY <1>3, <1>8, <2>2, <2>3, <2>6, <2>7 DEF Once, MintsClaim, Claimed
<1>9. ASSUME Claims
      PROVE  Once'
  <2>1. PICK j \in Invites : ClaimInvite(j) /\ stretch'.of.invite = j /\ stretch'.role = invite[j].role
    BY <1>9 DEF Claims
  <2>2. \A i \in Invites : (Used(i)' <=> Used(i)) /\ (i # j => invite'[i] = invite[i])
    BY <1>9, <2>1 DEF Claims, ClaimInvite, Used
  <2>3. /\ Live(j) /\ ~Used(j) /\ invite[j] \in InviteRow
        /\ invite'[j] = [state |-> "redeemed", by |-> invite[j].by]
    BY <1>1, <1>2, <1>4, <2>1 DEF ClaimInvite, Live, AccountsTypeOK
  <2>4. /\ invite'[j].state = "redeemed"
        /\ invite'[j].by = invite[j].by /\ invite'[j] # NoInvite
    BY <1>2, <2>3
  <2>5. FirstRunClaims' = FirstRunClaims /\ LiveClaims' = LiveClaims \ {j}
    <3>1. IsClaim(invite'[j]) <=> IsClaim(invite[j])
      BY <1>2, <2>3, <2>4 DEF IsClaim
    <3>2. invite'[j].state # "live"
      BY <2>4
    <3> QED
      BY <2>2, <3>1, <3>2, ClaimsByRow
  <2>6. j \in FirstRunClaims =>
            /\ stretch'.role = "admin" /\ LiveClaims' = {}
            /\ \A i \in FirstRunClaims : ~Used(i)
    BY <2>1, <2>3, <2>5 DEF Once, LiveClaims
  <2>7. OfClaim(j)'
    BY <2>1, <2>2, <2>3, <2>4, <2>5, <2>6 DEF OfClaim, Claimed, FirstRunClaims
  <2>8. \A i \in Invites : made'[i] <= 1 /\ (Used(i)' => Claimed(i)')
    BY <1>3, <1>9, <2>2, <2>4 DEF Claims, Claimed
  <2>9. /\ \A i \in LiveClaims' : invite'[i].role = "admin"
        /\ \A i \in FirstRunClaims' : Used(i)' => Admins' # {} /\ LiveClaims' = {}
    BY <1>9, <2>2, <2>4, <2>5 DEF Once, Claims, AdminsStay, FirstRunClaims, LiveClaims
  <2>10. \A i, k \in LiveClaims' : i = k
    BY <2>5 DEF Once
  <2>11. \A i, k \in FirstRunClaims' : Used(i)' /\ Used(k)' => i = k
    BY <2>2, <2>5 DEF Once, FirstRunClaims
  <2> QED
    BY <2>1, <2>7, <2>8, <2>9, <2>10, <2>11 DEF Once
<1>10. ASSUME CreatesUser
       PROVE  Once'
  <2> DEFINE j == stretch.of.invite
  <2>1. PICK u \in Unregistered :
          /\ user' = [user EXCEPT ![u] = [role |-> stretch.role, disabled |-> FALSE,
                                          plex |-> stretch.plex, keys |-> 0]]
          /\ made' = [i \in Invites |-> IF i = j THEN made[i] + 1 ELSE made[i]]
          /\ stretch' = [stretch EXCEPT !.step = "enrol", !.of.user = u]
    BY <1>10 DEF CreatesUser
  <2>2. UNCHANGED invite /\ stretch.step = "create" /\ stretch \in Stretch
    BY <1>10, NotRows DEF CreatesUser, AccountsTypeOK
  <2>3. stretch'.step = "enrol"
    BY <2>1, <2>2 DEF Stretch
  <2>4. FirstRunClaims' = FirstRunClaims /\ LiveClaims' = LiveClaims
    BY <2>2 DEF FirstRunClaims, LiveClaims, Live
  <2>5. u \in Users /\ user[u] = Unused /\ user'[u] \notin {Unused, Deleted}
        /\ user'[u].role = stretch.role /\ ~user'[u].disabled
        /\ \A v \in Users \ {u} : user'[v] = user[v]
    BY <2>1, <2>2, NotRows DEF Unregistered, AccountsTypeOK, Unused, Deleted, UserRow
  <2>6. Admins \subseteq Admins' /\ (stretch.role = "admin" => u \in Admins')
    BY <2>5 DEF Admins, Accounts
  <2>7. \A i \in Invites : i # j => (Used(i)' <=> Used(i)) /\ made'[i] = made[i]
    BY <2>1 DEF Used
  <2>8. j \in Invites => OfClaim(j)
    BY <2>2 DEF Once
  <2>9. j \in Invites => made'[j] = 1 /\ Claimed(j)
    BY <1>3, <2>1, <2>8 DEF OfClaim, Used
  <2>10. \A i \in Invites : Claimed(i)' <=> Claimed(i)
    BY <2>2 DEF Claimed
  <2>11. \A i \in Invites : made'[i] <= 1 /\ (Used(i)' => Claimed(i)')
    BY <1>3, <2>7, <2>9, <2>10
  <2>12. \A i \in LiveClaims : invite'[i].role = "admin"
    BY <2>2 DEF Once
  <2>13. \A i \in FirstRunClaims : Used(i)' => Admins' # {} /\ LiveClaims' = {}
    <3> SUFFICES ASSUME NEW i \in FirstRunClaims, Used(i)'
                 PROVE  Admins' # {} /\ LiveClaims' = {}
      OBVIOUS
    <3>1. CASE i = j
      BY <2>4, <2>6, <2>8, <3>1 DEF OfClaim, Once, FirstRunClaims
    <3>2. CASE i # j
      BY <2>4, <2>6, <2>7, <3>2 DEF Once, FirstRunClaims
    <3> QED
      BY <3>1, <3>2
  <2>14. \A i, k \in FirstRunClaims : Used(i)' /\ Used(k)' => i = k
    BY <2>7, <2>8 DEF OfClaim, Once, FirstRunClaims
  <2> QED
    BY <2>3, <2>4, <2>11, <2>12, <2>13, <2>14 DEF Once
<1> QED
  BY <1>5, <1>6, <1>7, <1>8, <1>9, <1>10, EachStepIsOneKind

-----------------------------------------------------------------------------
(* The theorems.                                                           *)

AccountsInv == Types /\ Once

LEMMA AccountsInvHolds == Spec => []AccountsInv
<1>1. Init => AccountsInv
  <2> SUFFICES ASSUME Init PROVE AccountsInv
    OBVIOUS
  <2>1. PICK j \in Invites :
            invite = [i \in Invites |-> IF i = j THEN [state |-> "live", role |-> "admin",
                                                       by |-> "somebody else"]
                                        ELSE NoInvite]
    BY DEF Init
  <2>2. AccountsTypeOK
    BY <2>1 DEF Init, AccountsTypeOK, InviteRow, Roles, Minters, Accounts
  <2>3. stretch.step = "none"
    BY NotRows DEF Init
  <2>4. FirstRunClaims = {} /\ LiveClaims = {}
    BY <2>1 DEF FirstRunClaims, LiveClaims
  <2>5. \A i \in Invites : made[i] <= 1 /\ ~Used(i)
    <3>1. \A i \in Invites : made[i] = 0
      BY DEF Init
    <3> QED
      BY <3>1 DEF Used
  <2> QED
    BY <2>2, <2>3, <2>4, <2>5 DEF AccountsInv, Types, EnrolledExists, Once
<1>2. AccountsInv /\ [Next]_vars => AccountsInv'
  BY TypesStep, OnceStep DEF AccountsInv
<1> QED
  BY <1>1, <1>2, PTL DEF Spec

\* Every row, ceremony, call and stretch has its form, and a session belongs to an
\* account that exists.
THEOREM AccountTypes == Spec => []AccountsTypeOK
<1>1. AccountsInv => AccountsTypeOK
  BY DEF AccountsInv, Types
<1> QED
  BY <1>1, AccountsInvHolds, PTL

\* `claimInvite`: an invite makes at most one account, however many ceremonies it
\* has opened.
THEOREM InviteMakesOne == Spec => []OneAccountPerInvite
<1>1. AccountsInv => OneAccountPerInvite
  BY DEF AccountsInv, Once, OneAccountPerInvite
<1> QED
  BY <1>1, AccountsInvHolds, PTL

\* `claimHash` and `closed`: the door of the first run lets in one person, ever.
THEOREM FirstRunIsOnce == Spec => []FirstRunHappensOnce
<1>1. ASSUME AccountsInv
      PROVE  FirstRunHappensOnce
  <2>1. \A i \in FirstRunClaims : made[i] \in Nat /\ made[i] <= 1 /\ (made[i] > 0 => Used(i))
    BY <1>1 DEF AccountsInv, Types, Once, AccountsTypeOK, FirstRunClaims, Used
  <2> QED
    BY <1>1, <2>1 DEF AccountsInv, Once, FirstRunHappensOnce
<1> QED
  BY <1>1, AccountsInvHolds, PTL

\* link/finish reads the account again after its awaits: a connection is made or
\* taken away, and never changed.
THEOREM NoRelink == Spec => NoSilentRelink
<1> DEFINE Kept == \A u \in Accounts \cap Accounts' :
                       (user[u].plex # Nobody /\ user'[u].plex # user[u].plex)
                           => user'[u].plex = Nobody
<1>1. ASSUME AccountsInv, [Next]_vars, ~UNCHANGED vars, NEW u \in Accounts, user[u].plex # Nobody,
             user'[u].plex # user[u].plex, user'[u].plex # Nobody, u \in Accounts'
      PROVE  FALSE
  <2>1. AccountsTypeOK /\ EnrolledExists /\ user[u] \in UserRow /\ u \in Users
    BY <1>1, AccountsHaveRows DEF AccountsInv, Types
  <2>2. \A v \in Accounts : user[v] \in UserRow /\ v \in Users
    BY <2>1, AccountsHaveRows
  <2>3. ASSUME NEW v \in Accounts, NEW r \in UserRow, user' = [user EXCEPT ![v] = r],
               r.plex \in {user[v].plex, Nobody} \/ user[v].plex = Nobody
        PROVE  FALSE
    BY <1>1, <2>1, <2>2, <2>3 DEF AccountsTypeOK
  <2>4. user' # user
    BY <1>1
  <2>5. ASSUME NEW k \in Calls, VerifiedDevice(k)
        PROVE  FALSE
    <3> DEFINE v == call[k].of.user
               r == [user[v] EXCEPT !.keys = @ + 1]
    <3>1. v \in Accounts /\ r \in UserRow /\ user' = [user EXCEPT ![v] = r]
      BY <2>1, <2>2, <2>5, AccountsAssumption
         DEF VerifiedDevice, UserRow, AccountsTypeOK, AccountsAssumption
    <3>2. r.plex = user[v].plex
      BY <2>2, <3>1 DEF UserRow
    <3> QED
      BY <2>3, <3>1, <3>2
  <2>6. ~CreatesUser
    <3>1. Accounts \cap Unregistered = {}
      BY DEF Accounts, Unregistered
    <3> QED
      BY <1>1, <2>1, <3>1 DEF CreatesUser, AccountsTypeOK, Unregistered
  <2>7. ASSUME Enrols
        PROVE  FALSE
    <3> DEFINE v == stretch.of.user
               r == [user[v] EXCEPT !.keys = 1]
    <3>1. v \in Accounts /\ r \in UserRow /\ user' = [user EXCEPT ![v] = r]
      BY <2>1, <2>2, <2>4, <2>7, AccountsAssumption
         DEF Enrols, EnrolledExists, UserRow, AccountsTypeOK, AccountsAssumption
    <3>2. r.plex = user[v].plex
      BY <2>2, <3>1 DEF UserRow
    <3> QED
      BY <2>3, <3>1, <3>2
  <2>8. ASSUME NEW k \in Calls, Links(k)
        PROVE  FALSE
    <3> DEFINE v == call[k].of.user
               a == call[k].by
               r == [user[v] EXCEPT !.plex = a]
    <3>0. a \in PlexAccounts
      BY <2>1, <2>8, FinishingHasParty DEF Links, Known, Call
    <3>1. v \in Accounts /\ r \in UserRow /\ user' = [user EXCEPT ![v] = r] /\ user[v].plex = Nobody
      BY <2>1, <2>2, <2>8, <3>0 DEF Links, UserRow, AccountsTypeOK
    <3> QED
      BY <2>3, <3>1
  <2>9. ASSUME NEW v \in Users, ForgetsKey(v) \/ RevokesKey(v)
        PROVE  FALSE
    <3> DEFINE r == [user[v] EXCEPT !.keys = @ - 1]
    <3>1. v \in Accounts /\ r \in UserRow /\ user' = [user EXCEPT ![v] = r]
      BY <2>1, <2>2, <2>9, AccountsAssumption
         DEF ForgetsKey, RevokesKey, Enters, UserRow, AccountsTypeOK, AccountsAssumption
    <3>2. r.plex = user[v].plex
      BY <2>2, <3>1 DEF UserRow
    <3> QED
      BY <2>3, <3>1, <3>2
  <2>10. ASSUME NEW v \in Users, UnlinksPlex(v)
         PROVE  FALSE
    <3> DEFINE r == [user[v] EXCEPT !.plex = Nobody]
    <3>1. v \in Accounts /\ r \in UserRow /\ user' = [user EXCEPT ![v] = r]
      BY <2>1, <2>2, <2>10 DEF UnlinksPlex, Enters, UserRow, AccountsTypeOK
    <3>2. r.plex = Nobody
      BY <2>2, <3>1 DEF UserRow
    <3> QED
      BY <2>3, <3>1, <3>2
  <2>11. ASSUME NEW v \in Users, NEW role \in Roles, NEW disabled \in BOOLEAN, Patches(v, role, disabled)
         PROVE  FALSE
    <3> DEFINE r == [user[v] EXCEPT !.role = role, !.disabled = disabled]
    <3>1. v \in Accounts /\ r \in UserRow /\ user' = [user EXCEPT ![v] = r]
      BY <2>1, <2>2, <2>11 DEF Patches, UserRow, AccountsTypeOK
    <3>2. r.plex = user[v].plex
      BY <2>2, <3>1 DEF UserRow
    <3> QED
      BY <2>3, <3>1, <3>2
  <2>12. ASSUME NEW v \in Users, DeletesUser(v)
         PROVE  FALSE
    BY <1>1, <2>1, <2>12 DEF DeletesUser, AccountsTypeOK, Accounts
  <2>13. ASSUME NEW k \in Calls, Resets(k)
         PROVE  FALSE
    <3> DEFINE v == call[k].of.user
               r == [user[v] EXCEPT !.keys = 0, !.plex = Nobody]
    <3>1. v \in Accounts
      BY <2>4, <2>13 DEF Resets
    <3>2. user[v] \in UserRow /\ 0 \in 0 .. MaxKeys
      BY <2>2, <3>1, AccountsAssumption DEF AccountsAssumption
    <3>3. r \in UserRow /\ r.plex = Nobody
      BY <3>2, AccountsAssumption DEF UserRow
    <3>4. user' = [user EXCEPT ![v].keys = 0, ![v].plex = Nobody]
      BY <2>13, <3>1 DEF Resets
    <3>5. user' = [user EXCEPT ![v] = r]
      BY <2>1, <2>2, <3>1, <3>4 DEF AccountsTypeOK
    <3> QED
      BY <2>3, <3>1, <3>3, <3>5
  <2> QED
    BY <1>1, <2>4, <2>5, <2>6, <2>7, <2>8, <2>9, <2>10, <2>11, <2>12, <2>13
       DEF Next, rowVars, VisitorLooks, Boot, BeginWithInvite, BeginFirstRun, BeginSignIn,
           CeremonyExpires, BeginForSelf, TakeChallenge, PeekPin, PeekPinToLink,
           VerifiedWithInvite, CallRefused,
           PlexSignsIn, PlexSignsUp, LoginDone, LoginAsks, ResetAsks, SignOut, MintsInvite,
           InviteDies
<1>2. AccountsInv /\ [Next]_vars => [Kept]_vars
  BY <1>1 DEF Kept
<1> QED
  BY <1>2, AccountsInvHolds, PTL DEF Spec, NoSilentRelink
=============================================================================
