----------------------------- MODULE AdminAuth -----------------------------
(***************************************************************************)
(* Who may administer: users, roles, sessions, API tokens and the login    *)
(* lockout (admin/api/handlers.go, admin/store/users.go, sessions.go,      *)
(* tokens.go, admin/auth/lockout.go, admin/rbac/rbac.go).  A handler       *)
(* resolves its actor once and then runs one SQL statement after another;  *)
(* the statements of different handlers interleave, and only each single   *)
(* statement is atomic.                                                    *)
(***************************************************************************)
EXTENDS Naturals, FiniteSets

CONSTANTS
    User, Token,      \* row ids
    Handler,          \* requests to the admin API in flight
    MaxFailures,      \* failed logins that lock a name (8)
    MaxOps,           \* bound on the authorised operations
    MaxPw,            \* bound on the password changes
    None

ASSUME AdminAuthAssumption ==
    /\ MaxFailures \in Nat \ {0} /\ MaxOps \in Nat /\ MaxPw \in Nat
    /\ None \notin User \cup Token /\ IsFiniteSet(Handler)

VARIABLES
    users,     \* the users table
    sessions,  \* the sessions table
    tokens,    \* the api_tokens table
    failures,  \* Lockout: recent failed logins of each name (addresses alike)
    task,      \* the handlers
    ops,       \* operations begun
    granted,   \* history: users an owner made owner, and the first one
    raced      \* history: two changes of users overlapped

vars == <<users, sessions, tokens, failures, task, ops, granted, raced>>

-----------------------------------------------------------------------------
Role == {"viewer", "admin", "owner"}
Rank(r) == IF r = "owner" THEN 3 ELSE IF r = "admin" THEN 2 ELSE 1

UserRow == {None} \cup [role : Role, disabled : BOOLEAN, pw : 0..MaxPw]
(* missed is history: the session outlived the change of its password.      *)
Session == [user : User, pw : 0..MaxPw, missed : BOOLEAN]
TokenRow == {None} \cup [user : User, role : Role, revoked : BOOLEAN]

ASSUME NoneIsNoRow == None \notin [role : Role, disabled : BOOLEAN, pw : 0..MaxPw]

(* A change of a user: a role, a disabled flag (None: not in the body), or a
   deletion.                                                                *)
Change == [role : Role \cup {None}, disabled : BOOLEAN \cup {None}, delete : {FALSE}]
            \cup {[role |-> None, disabled |-> None, delete |-> TRUE]}

Idle == [pc |-> "idle"]
Changing(h) == task[h].pc \in {"get", "count", "write"}

Enabled(u) == users[u] # None /\ ~users[u].disabled
Owners == {u \in User : Enabled(u) /\ users[u].role = "owner"}

(* A store some administrator has used for a while: any users, an enabled
   owner among them (BootstrapOwner made the first), nobody signed in.      *)
Init ==
    /\ users \in [User -> {None} \cup [role : Role, disabled : BOOLEAN, pw : {0}]]
    /\ Owners # {}
    /\ sessions = {}
    /\ tokens = [t \in Token |-> None]
    /\ failures = [u \in User |-> 0]
    /\ task = [h \in Handler |-> Idle]
    /\ ops = 0
    /\ granted = {u \in User : users[u] # None /\ users[u].role = "owner"}
    /\ raced = FALSE

-----------------------------------------------------------------------------
(* Login and lockout                                                        *)
\* Fault: the lock is never taken for closed.
Locked_Never(u) == FALSE

Locked(u) == failures[u] >= MaxFailures

Fail(u) == failures' = [failures EXCEPT ![u] = @ + 1]
Clear(u) == failures' = [failures EXCEPT ![u] = 0]

(* handleLogin up to the password hash: the lock is looked at, the user is
   read.  An unknown or disabled user counts as a failure at once.          *)
LoginStart(h, u) ==
    /\ task[h].pc = "idle" /\ ~Locked(u)
    /\ IF Enabled(u)
       THEN /\ task' = [task EXCEPT ![h] = [pc |-> "verify", user |-> u, pw |-> users[u].pw]]
            /\ UNCHANGED failures
       ELSE /\ Fail(u)
            /\ UNCHANGED task
    /\ UNCHANGED <<users, sessions, tokens, ops, granted, raced>>

(* VerifyPassword takes long; its failure is counted when it is over.       *)
LoginFails(h) ==
    /\ task[h].pc = "verify"
    /\ Fail(task[h].user)
    /\ task' = [task EXCEPT ![h] = Idle]
    /\ UNCHANGED <<users, sessions, tokens, ops, granted, raced>>

LoginVerified(h) ==
    /\ task[h].pc = "verify"
    /\ Clear(task[h].user)
    /\ task' = [task EXCEPT ![h].pc = "session"]
    /\ UNCHANGED <<users, sessions, tokens, ops, granted, raced>>

(* CreateSession; the foreign key refuses the session of a deleted user.    *)
CreateSession(h) ==
    LET u == task[h].user IN
    /\ task[h].pc = "session"
    /\ sessions' = IF users[u] = None THEN sessions
                   ELSE sessions \cup {[user |-> u, pw |-> task[h].pw, missed |-> task[h].pw # users[u].pw]}
    /\ task' = [task EXCEPT ![h] = Idle]
    /\ UNCHANGED <<users, tokens, failures, ops, granted, raced>>

(* The entry of a name that stayed quiet for lockTTL is dropped.            *)
LockExpires(u) ==
    /\ failures[u] > 0
    /\ Clear(u)
    /\ UNCHANGED <<users, sessions, tokens, task, ops, granted, raced>>

(* expires_at passes: the row is deleted by the next look-up or sweep.      *)
SessionExpires(s) ==
    /\ sessions' = sessions \ {s}
    /\ UNCHANGED <<users, tokens, failures, task, ops, granted, raced>>

-----------------------------------------------------------------------------
(* Authorised requests                                                      *)
Act(h, u, role) == task' = [task EXCEPT ![h] = [pc |-> "acting", user |-> u, role |-> role]]

(* resolveActor with a session cookie: GetSessionByToken deletes the session
   of a user that is disabled.                                              *)
GetSessionByToken(h, s) ==
    /\ task[h].pc = "idle" /\ ops < MaxOps
    /\ IF Enabled(s.user)
       THEN Act(h, s.user, users[s.user].role) /\ ops' = ops + 1 /\ UNCHANGED sessions
       ELSE sessions' = sessions \ {s} /\ UNCHANGED <<task, ops>>
    /\ UNCHANGED <<users, tokens, failures, granted, raced>>

(* resolveActor with a bearer token: the lower of the two roles.            *)
LookupAPIToken(h, t) ==
    /\ task[h].pc = "idle" /\ ops < MaxOps
    /\ tokens[t] # None /\ ~tokens[t].revoked /\ Enabled(tokens[t].user)
    /\ LET r == users[tokens[t].user].role IN
       Act(h, tokens[t].user, IF Rank(tokens[t].role) < Rank(r) THEN tokens[t].role ELSE r)
    /\ ops' = ops + 1
    /\ UNCHANGED <<users, sessions, tokens, failures, granted, raced>>

CanManageUsers(h) == Rank(task[h].role) >= 2
CanManageOwners(h) == task[h].role = "owner"

(* handleLogout, handleSessions and handleSessionID: one or all sessions of
   the actor.                                                               *)
RevokeSessions(h) ==
    /\ task[h].pc = "acting"
    /\ LET mine == {s \in sessions : s.user = task[h].user} IN
       \E S \in {mine} \cup {{s} : s \in mine} : sessions' = sessions \ S
    /\ task' = [task EXCEPT ![h] = Idle]
    /\ UNCHANGED <<users, tokens, failures, ops, granted, raced>>

(* ExtendSession: an UPDATE of the row, so that a session that was deleted
   meanwhile does not come back; deadlines are SessionExpires' business.    *)
ExtendSession == UNCHANGED sessions

(* handleRefresh, for an actor with a session.                              *)
handleRefresh(h) ==
    /\ task[h].pc = "acting"
    /\ ExtendSession
    /\ task' = [task EXCEPT ![h] = Idle]
    /\ UNCHANGED <<users, tokens, failures, ops, granted, raced>>

(* handlePassword reads the row and takes long over the current password; a
   wrong one or a user that is gone ends it ...                             *)
VerifyPassword(h) ==
    /\ task[h].pc = "acting"
    /\ \/ users[task[h].user] # None /\ task' = [task EXCEPT ![h].pc = "set"]
       \/ task' = [task EXCEPT ![h] = Idle]
    /\ UNCHANGED <<users, sessions, tokens, failures, ops, granted, raced>>

(* ... the new one is stored, unless the row is gone by now or the statement
   fails ...                                                                *)
SetPassword(h) ==
    LET u == task[h].user IN
    /\ task[h].pc = "set"
    /\ \/ /\ users[u] # None /\ users[u].pw < MaxPw
          /\ users' = [users EXCEPT ![u].pw = @ + 1]
          /\ task' = [task EXCEPT ![h].pc = "revoke"]
       \/ /\ task' = [task EXCEPT ![h] = Idle]
          /\ UNCHANGED users
    /\ UNCHANGED <<sessions, tokens, failures, ops, granted, raced>>

\* Fault: only the actor's own session is deleted.
DeleteSessionsForUser_One(h) ==
    /\ task[h].pc = "revoke"
    /\ \E s \in sessions \cup {None} : sessions' = sessions \ {s}
    /\ task' = [task EXCEPT ![h] = Idle]
    /\ UNCHANGED <<users, tokens, failures, ops, granted, raced>>

(* ... and the sessions are deleted.                                        *)
DeleteSessionsForUser(h) ==
    /\ task[h].pc = "revoke"
    /\ sessions' = {s \in sessions : s.user # task[h].user}
    /\ task' = [task EXCEPT ![h] = Idle]
    /\ UNCHANGED <<users, tokens, failures, ops, granted, raced>>

(* An error of the DELETE is ignored: the sessions stay.                    *)
Outlives(s, u) == s.user = u /\ s.pw # users[u].pw

RevocationFails(h) ==
    /\ task[h].pc = "revoke"
    /\ sessions' = {IF Outlives(s, task[h].user) THEN [s EXCEPT !.missed = TRUE] ELSE s : s \in sessions}
    /\ task' = [task EXCEPT ![h] = Idle]
    /\ UNCHANGED <<users, tokens, failures, ops, granted, raced>>

(* handleTokens: a token of at most the actor's role.                       *)
MayMint(h, role) == Rank(role) <= Rank(task[h].role)

CreateAPIToken(h, t, role) ==
    /\ task[h].pc = "acting" /\ tokens[t] = None
    /\ MayMint(h, role) /\ users[task[h].user] # None
    /\ tokens' = [tokens EXCEPT ![t] = [user |-> task[h].user, role |-> role, revoked |-> FALSE]]
    /\ task' = [task EXCEPT ![h] = Idle]
    /\ UNCHANGED <<users, sessions, failures, ops, granted, raced>>

(* handleTokenID: one's own tokens, and an owner everybody's.               *)
MayRevoke(h, t) == tokens[t] # None /\ (tokens[t].user = task[h].user \/ CanManageOwners(h))

RevokeAPIToken(h, t) ==
    /\ task[h].pc = "acting" /\ MayRevoke(h, t)
    /\ tokens' = [tokens EXCEPT ![t].revoked = TRUE]
    /\ task' = [task EXCEPT ![h] = Idle]
    /\ UNCHANGED <<users, sessions, failures, ops, granted, raced>>

(* handleUsers                                                              *)
MayCreate(h, role) == CanManageUsers(h) /\ (role = "owner" => CanManageOwners(h))

CreateUser(h, u, role) ==
    /\ task[h].pc = "acting" /\ users[u] = None
    /\ MayCreate(h, role)
    /\ users' = [users EXCEPT ![u] = [role |-> role, disabled |-> FALSE, pw |-> 0]]
    /\ granted' = IF role = "owner" /\ CanManageOwners(h) THEN granted \cup {u} ELSE granted
    /\ task' = [task EXCEPT ![h] = Idle]
    /\ UNCHANGED <<sessions, tokens, failures, ops, raced>>

\* Fault: the requested role is not looked at.
MayChange_AnyRole(h, u, c) == users[u] # None /\ CanManageUsers(h) /\ users[u].role # "owner"

(* handleUserID: the target is read and owners are the owners' business.    *)
MayChange(h, u, c) ==
    /\ users[u] # None /\ CanManageUsers(h)
    /\ (users[u].role = "owner" \/ c.role = "owner") => CanManageOwners(h)

handleUserID(h, u, c) ==
    /\ task[h].pc = "acting" /\ MayChange(h, u, c)
    /\ task' = [task EXCEPT ![h] = [pc |-> "get", user |-> @.user, role |-> @.role, target |-> u, change |-> c]]
    /\ raced' = (raced \/ \E k \in Handler : Changing(k))
    /\ UNCHANGED <<users, sessions, tokens, failures, ops, granted>>

(* UpdateUser and DeleteUser read the row again ...                         *)
GetUser(h) ==
    LET u == task[h].target IN
    /\ task[h].pc = "get"
    /\ task' = [task EXCEPT ![h] = IF users[u] = None THEN Idle
                ELSE [pc |-> "count", user |-> @.user, role |-> @.role, target |-> u,
                      change |-> @.change, row |-> users[u]]]
    /\ UNCHANGED <<users, sessions, tokens, failures, ops, granted, raced>>

(* The changes that count: an owner is demoted or deleted, or a user that is
   an owner by this very change is disabled.                                *)
TakesOwner(row, c) ==
    LET role == IF c.role = None THEN row.role ELSE c.role IN
    \/ row.role = "owner" /\ (c.delete \/ role # "owner")
    \/ role = "owner" /\ c.disabled = TRUE

(* ... count the enabled owners when the change takes one away ...          *)
LastOwner(h) == TakesOwner(task[h].row, task[h].change) /\ Cardinality(Owners) <= 1

CountOwners(h) ==
    /\ task[h].pc = "count"
    /\ task' = [task EXCEPT ![h] = IF LastOwner(h) THEN Idle ELSE [@ EXCEPT !.pc = "write"]]
    /\ UNCHANGED <<users, sessions, tokens, failures, ops, granted, raced>>

(* The row an UPDATE stores: role and flag of the body, else as read.       *)
Changed(row, c, pw) ==
    [role |-> IF c.role = None THEN row.role ELSE c.role,
     disabled |-> IF c.disabled = None THEN row.disabled ELSE c.disabled, pw |-> pw]

(* ... and write.  Deleting a user deletes its sessions and tokens.         *)
WriteUser(h) ==
    LET u == task[h].target
        c == task[h].change IN
    /\ task[h].pc = "write"
    /\ users' = [users EXCEPT ![u] = IF c.delete \/ @ = None THEN None ELSE Changed(task[h].row, c, @.pw)]
    /\ sessions' = IF c.delete THEN {s \in sessions : s.user # u} ELSE sessions
    /\ tokens' = IF c.delete THEN [t \in Token |-> IF tokens[t] # None /\ tokens[t].user = u THEN None ELSE tokens[t]]
                 ELSE tokens
    /\ granted' = IF c.role = "owner" /\ CanManageOwners(h) THEN granted \cup {u} ELSE granted
    /\ task' = [task EXCEPT ![h] = Idle]
    /\ UNCHANGED <<failures, ops, raced>>

-----------------------------------------------------------------------------
Login(h) == (\E u \in User : LoginStart(h, u)) \/ LoginFails(h) \/ LoginVerified(h) \/ CreateSession(h)

Request(h) ==
    \/ \E s \in sessions : GetSessionByToken(h, s)
    \/ \E t \in Token : LookupAPIToken(h, t) \/ RevokeAPIToken(h, t)
    \/ \E t \in Token, r \in Role : CreateAPIToken(h, t, r)
    \/ RevokeSessions(h) \/ handleRefresh(h)
    \/ VerifyPassword(h) \/ SetPassword(h) \/ DeleteSessionsForUser(h) \/ RevocationFails(h)
    \/ \E u \in User, r \in Role : CreateUser(h, u, r)
    \/ \E u \in User, c \in Change : handleUserID(h, u, c)
    \/ GetUser(h) \/ CountOwners(h) \/ WriteUser(h)

Next ==
    \/ \E h \in Handler : Login(h) \/ Request(h)
    \/ \E u \in User : LockExpires(u)
    \/ \E s \in sessions : SessionExpires(s)

Spec == Init /\ [][Next]_vars

-----------------------------------------------------------------------------
(* What a handler keeps between its statements.                             *)
Tasks ==
    {Idle}
      \cup [pc : {"verify", "session"}, user : User, pw : 0..MaxPw]
      \cup [pc : {"acting", "set", "revoke"}, user : User, role : Role]
      \cup [pc : {"get"}, user : User, role : Role, target : User, change : Change]
      \cup [pc : {"count", "write"}, user : User, role : Role, target : User, change : Change,
            row : UserRow \ {None}]

TypeOK ==
    /\ users \in [User -> UserRow]
    /\ sessions \subseteq Session
    /\ tokens \in [Token -> TokenRow]
    /\ failures \in [User -> Nat]
    /\ task \in [Handler -> Tasks]
    /\ ops \in 0..MaxOps
    /\ granted \subseteq User
    /\ raced \in BOOLEAN

(* Every owner was made one by an owner, also when an UPDATE writes back a
   role that was read before somebody else changed it; and while changes of
   users do not overlap an enabled owner remains, whatever sequence of
   demotions, disablings, deletions and re-enablings is asked for.          *)
OwnersSafe ==
    /\ \A u \in User : users[u] # None /\ users[u].role = "owner" => u \in granted
    /\ ~raced => Owners # {}

(* A name is guessed at most MaxFailures times plus once for every login that
   had seen it unlocked and was still hashing when the lock came.           *)
GuessBound ==
    \A u \in User : failures[u] +
        Cardinality({h \in Handler : task[h].pc = "verify" /\ task[h].user = u})
            < MaxFailures + Cardinality(Handler)

(* A password change leaves no session of the old password, except while its
   handler has not deleted them yet, of a login that had verified the old one
   before, and when the deletion failed.                                    *)
PasswordRevokes ==
    \A s \in sessions :
        users[s.user] # None /\ s.pw # users[s.user].pw =>
            s.missed \/ \E h \in Handler : task[h].pc = "revoke" /\ task[h].user = s.user
=============================================================================
