------------------------------ MODULE Sessions ------------------------------
(***************************************************************************)
(* Staff accounts and their refresh tokens: login, rotation, logout, a     *)
(* password change, the management of users by an administrator. A request *)
(* reads in one step and commits in others; no row is locked.              *)
(***************************************************************************)
EXTENDS Naturals, Sequences, FiniteSets

CONSTANTS
    Users,
    Clients,     \* browsers, each with at most one request in flight
    MaxTokens,   \* BOUND: refresh tokens ever issued
    MaxClosings  \* BOUND: times an account's sessions are to be closed

ASSUME SessionsAssumption ==
    /\ Users # {} /\ IsFiniteSet(Clients)
    /\ MaxTokens \in Nat /\ MaxClosings \in Nat

VARIABLES
    account,  \* per user: active, admin, and how often its sessions were to end
    token,    \* the refresh_tokens table, a token's id its index
    session,  \* per client, the request in flight
    meddled   \* users whose requests crossed, or died between their commits

sessionVars == <<account, token, session, meddled>>

-----------------------------------------------------------------------------
NoSession == [step |-> "none", users |-> {}]

Administrators == {u \in Users : account[u].active /\ account[u].admin}

Tokens == DOMAIN token

\* revoke_all_for_user: one UPDATE over what is committed by then.
RevokedFor(users) ==
    [t \in Tokens |-> IF token[t].user \in users
                      THEN [token[t] EXCEPT !.live = FALSE] ELSE token[t]]

InOtherHands(c) == UNION {session[d].users : d \in Clients \ {c}}

\* A request of client c reads: whoever it is about may be in another's hands.
Begins(c, r) ==
    /\ session[c].step = "none"
    /\ session' = [session EXCEPT ![c] = r]
    /\ meddled' = meddled \union (r.users \intersect InOtherHands(c))
    /\ UNCHANGED <<account, token>>

Answered(c) == session' = [session EXCEPT ![c] = NoSession]

Issued(u, epoch) == [user |-> u, epoch |-> epoch, live |-> TRUE, fresh |-> TRUE]

TokenRoom == Len(token) + Cardinality({c \in Clients :
            session[c].step \in {"issue", "rotate"}}) < MaxTokens

Closable(u) == account[u].epoch + Cardinality({c \in Clients :
            session[c].step \in {"password", "update"}}) < MaxClosings

-----------------------------------------------------------------------------
\* login: authenticate, an event of its own, then issue.
Authenticate(c, u) ==
    /\ account[u].active
    /\ TokenRoom
    /\ Begins(c, [step |-> "issue", users |-> {u}, epoch |-> account[u].epoch])

Issue(c) ==
    /\ session[c].step = "issue"
    /\ \E u \in session[c].users : token' = Append(token, Issued(u, session[c].epoch))
    /\ Answered(c)
    /\ UNCHANGED <<account, meddled>>

\* rotate: an expired token is refused with nothing done, a revoked one ends
\* every session of its user.
PresentRevoked(c, t) ==
    /\ token[t].fresh /\ ~token[t].live
    /\ Begins(c, [step |-> "revokeAll", users |-> {token[t].user}])

PresentLive(c, t) ==
    /\ token[t].fresh /\ token[t].live
    /\ account[token[t].user].active
    /\ TokenRoom
    /\ Begins(c, [step |-> "rotate", users |-> {token[t].user}, token |-> t])

Exchanged(t) ==
    Append([token EXCEPT ![t].live = FALSE], Issued(token[t].user, token[t].epoch))

Rotate(c) ==
    /\ session[c].step = "rotate"
    /\ token' = Exchanged(session[c].token)
    /\ Answered(c)
    /\ UNCHANGED <<account, meddled>>

\* revoke: the read and the write of one row, idempotent.
Logout(c, t) ==
    /\ session[c].step = "none"
    /\ token[t].live
    /\ token' = [token EXCEPT ![t].live = FALSE]
    /\ UNCHANGED <<account, session, meddled>>

RevokeAll(c) ==
    /\ session[c].step = "revokeAll"
    /\ token' = RevokedFor(session[c].users)
    /\ Answered(c)
    /\ UNCHANGED <<account, meddled>>

Expire(t) ==
    /\ token[t].fresh
    /\ token' = [token EXCEPT ![t].fresh = FALSE]
    /\ UNCHANGED <<account, session, meddled>>

-----------------------------------------------------------------------------
\* change_password: the new hash is committed first, the sessions end after.
LoadPassword(c, u) ==
    /\ account[u].active
    /\ Closable(u)
    /\ Begins(c, [step |-> "password", users |-> {u}])

CommitPassword(c) ==
    /\ session[c].step = "password"
    /\ \E u \in session[c].users :
          account' = [account EXCEPT ![u].epoch = @ + 1]
    /\ session' = [session EXCEPT ![c].step = "revokeAll"]
    /\ UNCHANGED <<token, meddled>>

\* Mistake: only deactivating oneself is refused.
OnlyDeactivationLocksOut(actor, u, to) == u # actor \/ to.active

\* _guard_self_lockout: nobody deactivates themselves or drops their own role.
LocksNobodyOut(actor, u, to) == u # actor \/ (to.active /\ (account[u].admin => to.admin))

\* update_user, by an active administrator: the columns sent that differ from
\* the ones loaded are written; roles and branch are reconciled, so an account
\* that stops being an administrator is given a branch.
LoadUpdate(c, actor, u, to) ==
    /\ actor \in Administrators
    /\ LocksNobodyOut(actor, u, to)
    /\ to.active \/ Closable(u)
    /\ Begins(c, [step |-> "update", users |-> {actor, u}, user |-> u, to |-> to,
                 from |-> [active |-> account[u].active, admin |-> account[u].admin]])

\* Mistake: the sessions of a closed account are left to expire.
LeftToExpire(written) == FALSE

\* The router, after the commit: an inactive user's sessions end.
EndsSessions(written) == ~written.active

CommitUpdate(c) ==
    LET r == session[c]
        written == [account[r.user] EXCEPT
            !.active = IF r.to.active # r.from.active THEN r.to.active ELSE @,
            !.admin = IF r.to.admin # r.from.admin THEN r.to.admin ELSE @,
            !.epoch = IF r.to.active THEN @ ELSE @ + 1] IN
    /\ r.step = "update"
    /\ account' = [account EXCEPT ![r.user] = written]
    /\ session' = [session EXCEPT ![c] =
           IF EndsSessions(written) THEN [step |-> "revokeAll", users |-> {r.user}]
           ELSE NoSession]
    /\ UNCHANGED <<token, meddled>>

\* The server dies with the request: what it committed stays.
DieInside(c) ==
    /\ session[c].step # "none"
    /\ meddled' = meddled \union session[c].users
    /\ Answered(c)
    /\ UNCHANGED <<account, token>>

-----------------------------------------------------------------------------
SessionsInit ==
    /\ \E u \in Users :
          account = [v \in Users |-> [active |-> TRUE, admin |-> v = u, epoch |-> 0]]
    /\ token = <<>>
    /\ session = [c \in Clients |-> NoSession]
    /\ meddled = {}

SessionsNext ==
    \/ \E c \in Clients :
          \/ \E u \in Users : Authenticate(c, u) \/ LoadPassword(c, u)
          \/ \E t \in Tokens : PresentRevoked(c, t) \/ PresentLive(c, t) \/ Logout(c, t)
          \/ \E actor, u \in Users, to \in [active : BOOLEAN, admin : BOOLEAN] :
                LoadUpdate(c, actor, u, to)
          \/ Issue(c) \/ Rotate(c) \/ RevokeAll(c)
          \/ CommitPassword(c) \/ CommitUpdate(c) \/ DieInside(c)
    \/ \E t \in Tokens : Expire(t)

SessionsSpec == SessionsInit /\ [][SessionsNext]_sessionVars
-----------------------------------------------------------------------------
SessionsTyped ==
    /\ account \in [Users -> [active : BOOLEAN, admin : BOOLEAN, epoch : 0..MaxClosings]]
    /\ token \in Seq([user : Users, epoch : 0..MaxClosings, live : BOOLEAN, fresh : BOOLEAN])
    /\ DOMAIN session = Clients
    /\ \A c \in Clients : session[c].users \subseteq Users
    /\ meddled \subseteq Users

\* update_user's promise, and change_password's: reactivating an account, or
\* knowing an old session of it, brings nothing back. A token still good was won
\* after the last time its user's sessions were to end, unless that ending is
\* under way, or requests about the user crossed or died half done.
OldSessionsStayClosed ==
    \A t \in Tokens :
        token[t].live =>
            \/ token[t].epoch = account[token[t].user].epoch
            \/ token[t].user \in meddled
            \/ \E c \in Clients : /\ session[c].step = "revokeAll"
                                   /\ token[t].user \in session[c].users

\* _guard_self_lockout's promise: there is always an active administrator, as
\* long as no two requests about one account crossed (two administrators who
\* take the role from each other at once leave nobody).
SomeoneManagesUsers == meddled = {} => Administrators # {}

=============================================================================
