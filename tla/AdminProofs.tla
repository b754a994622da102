---------------------------- MODULE AdminProofs ----------------------------
(***************************************************************************)
(* Proofs about the admin server: about AdminAuth, for any users, tokens   *)
(* and number of handlers, and, in the second part, about LiveConfig, for  *)
(* any configuration files, bodies and number of handlers.                 *)
(***************************************************************************)
EXTENDS AdminAuth, LiveConfig, FiniteSetTheorems, TLAPS

-----------------------------------------------------------------------------
(* The inductive invariant                                                  *)

OwnersGranted == \A u \in User : users[u] # None /\ users[u].role = "owner" => u \in granted

(* A handler that makes an owner is an owner's; a row it has read was an
   owner's only if that owner had been made by one.                         *)
Entitled(h) ==
    /\ task[h].pc \in {"get", "count", "write"} /\ task[h].change.role = "owner" => CanManageOwners(h)
    /\ task[h].pc \in {"count", "write"} /\ task[h].row.role = "owner" => task[h].target \in granted

(* While changes do not overlap the row that was read is the row that is
   there, and what takes an owner away leaves another.                      *)
Exact(h) ==
    task[h].pc \in {"count", "write"} =>
      /\ users[task[h].target] # None
      /\ users[task[h].target].role = task[h].row.role
      /\ users[task[h].target].disabled = task[h].row.disabled

Spare(h) ==
    task[h].pc = "write" /\ TakesOwner(task[h].row, task[h].change) => Owners \ {task[h].target} # {}

Orderly ==
    ~raced =>
      /\ \A h, k \in Handler : Changing(h) /\ Changing(k) => h = k
      /\ \A h \in Handler : Exact(h) /\ Spare(h)
      /\ Owners # {}

(* A deleted user has no sessions.                                          *)
SessionsOwned == \A s \in sessions : users[s.user] # None

Inv ==
    /\ TypeOK /\ OwnersGranted /\ (\A h \in Handler : Entitled(h)) /\ Orderly
    /\ GuessBound /\ SessionsOwned /\ PasswordRevokes
-----------------------------------------------------------------------------
(* What a step of one handler leaves alone                                  *)

(* The fields a task has at each of its stages.                             *)
LEMMA TaskFields ==
    ASSUME NEW t \in Tasks
    PROVE  /\ t.pc \in {"idle", "verify", "session", "acting", "set", "revoke", "get", "count", "write"}
           /\ t.pc \in {"verify", "session"} => t \in [pc : {"verify", "session"}, user : User, pw : 0..MaxPw]
           /\ t.pc \in {"acting", "set", "revoke"} => t \in [pc : {"acting", "set", "revoke"}, user : User, role : Role]
           /\ t.pc = "get" =>
                t \in [pc : {"get"}, user : User, role : Role, target : User, change : Change]
           /\ t.pc \in {"count", "write"} =>
                t \in [pc : {"count", "write"}, user : User, role : Role, target : User, change : Change,
                       row : UserRow \ {None}]
BY DEF Tasks, Idle

(* Only handler h moves.                                                    *)
OnlyMoves(h) == \A k \in Handler \ {h} : task'[k] = task[k]

\* A handler that takes a step leaves the tasks of the others alone.
LEMMA OneMoves ==
    ASSUME TypeOK, NEW h \in Handler, NEW t, task' = [task EXCEPT ![h] = t]
    PROVE  OnlyMoves(h) /\ task'[h] = t /\ (t \in Tasks => task' \in [Handler -> Tasks])
BY DEF TypeOK, OnlyMoves

\* An idle handler is a task at its beginning.
LEMMA IdleTask == Idle \in Tasks /\ Idle.pc = "idle"
BY DEF Tasks, Idle

(* Steps that change no user and end no change of one.                      *)
LEMMA OrderSame ==
    ASSUME OwnersGranted, (\A k \in Handler : Entitled(k)), Orderly, UNCHANGED <<users, granted, raced>>,
           NEW h \in Handler, OnlyMoves(h), ~Changing(h)'
    PROVE  OwnersGranted' /\ (\A k \in Handler : Entitled(k)') /\ Orderly'
<1>1. OwnersGranted'  BY DEF OwnersGranted
<1>2. Owners' = Owners  BY DEF Owners, Enabled
<1>3. ASSUME NEW k \in Handler PROVE Entitled(k)'
  BY DEF Entitled, Changing, OnlyMoves, CanManageOwners
<1>4. ASSUME ~raced PROVE \A j, k \in Handler : Changing(j)' /\ Changing(k)' => j = k
  BY <1>4 DEF Orderly, Changing, OnlyMoves
<1>5. ASSUME ~raced, NEW k \in Handler PROVE Exact(k)'
  BY <1>5 DEF Orderly, Exact, Changing, OnlyMoves
<1>6. ASSUME ~raced, NEW k \in Handler PROVE Spare(k)'
  BY <1>2, <1>6 DEF Orderly, Spare, Changing, OnlyMoves
<1> QED  BY <1>1, <1>2, <1>3, <1>4, <1>5, <1>6 DEF Orderly

(* The logins that are hashing a password of u.                             *)
Hashing(u) == {h \in Handler : task[h].pc = "verify" /\ task[h].user = u}

\* At most all handlers are hashing a password for u, and not all of them while one
\* is doing something else.
LEMMA HashingFinite ==
    ASSUME NEW u
    PROVE  /\ IsFiniteSet(Hashing(u)) /\ Cardinality(Hashing(u)) \in Nat
           /\ Cardinality(Hashing(u)) <= Cardinality(Handler) /\ Cardinality(Handler) \in Nat
           /\ \A h \in Handler : h \notin Hashing(u) => Cardinality(Hashing(u)) < Cardinality(Handler)
<1>1. Hashing(u) \subseteq Handler  BY DEF Hashing
<1>2. IsFiniteSet(Hashing(u)) /\ Cardinality(Hashing(u)) <= Cardinality(Handler)
  BY <1>1, FS_Subset, AdminAuthAssumption
<1>3. Cardinality(Hashing(u)) \in Nat /\ Cardinality(Handler) \in Nat
  BY <1>2, FS_CardinalityType, AdminAuthAssumption
<1>4. ASSUME NEW h \in Handler, h \notin Hashing(u) PROVE Cardinality(Hashing(u)) < Cardinality(Handler)
  <2>1. Cardinality(Hashing(u)) # Cardinality(Handler)
    BY <1>1, <1>4, FS_Subset, AdminAuthAssumption
  <2> QED  BY <1>2, <1>3, <2>1
<1> QED  BY <1>2, <1>3, <1>4

\* The same of the next state.
LEMMA HashingFinite2 ==
    ASSUME NEW u
    PROVE  /\ IsFiniteSet(Hashing(u)') /\ Cardinality(Hashing(u)') \in Nat
           /\ Cardinality(Hashing(u)') <= Cardinality(Handler)
<1>1. Hashing(u)' \subseteq Handler  BY DEF Hashing
<1>2. IsFiniteSet(Hashing(u)') /\ Cardinality(Hashing(u)') <= Cardinality(Handler)
  BY <1>1, FS_Subset, AdminAuthAssumption
<1> QED  BY <1>2, FS_CardinalityType

Guesses(u) == failures[u] + Cardinality(Hashing(u)) < MaxFailures + Cardinality(Handler)

\* The bound of the run, user by user.
LEMMA GuessesAre == GuessBound <=> \A u \in User : Guesses(u)
BY DEF GuessBound, Guesses, Hashing

\* The same of the next state.
LEMMA GuessesAre2 == GuessBound' <=> \A u \in User : Guesses(u)'
BY DEF GuessBound, Guesses, Hashing

(* Steps that start no hashing and count no failure.                        *)
LEMMA GuessSame ==
    ASSUME TypeOK, GuessBound, UNCHANGED failures, NEW h \in Handler, OnlyMoves(h), task'[h].pc # "verify"
    PROVE  GuessBound'
<1> SUFFICES ASSUME NEW u \in User PROVE Guesses(u)'  BY GuessesAre2
<1>1. Hashing(u)' \subseteq Hashing(u)  BY DEF Hashing, OnlyMoves
<1>2. Cardinality(Hashing(u)') <= Cardinality(Hashing(u))
  BY <1>1, FS_Subset, HashingFinite
<1>3. Guesses(u) /\ failures[u] \in Nat  BY GuessesAre DEF TypeOK
<1> QED  BY <1>2, <1>3, HashingFinite, HashingFinite2, AdminAuthAssumption DEF Guesses

(* Steps that change no password, open no session and end no revocation.    *)
LEMMA SessionsSame ==
    ASSUME SessionsOwned, PasswordRevokes, UNCHANGED users, sessions' \subseteq sessions,
           NEW h \in Handler, OnlyMoves(h), task[h].pc # "revoke"
    PROVE  SessionsOwned' /\ PasswordRevokes'
<1>1. SessionsOwned'  BY DEF SessionsOwned
<1>2. ASSUME NEW s \in sessions', users[s.user] # None, s.pw # users[s.user].pw
      PROVE  s.missed \/ \E k \in Handler : task'[k].pc = "revoke" /\ task'[k].user = s.user
  BY <1>2 DEF PasswordRevokes, OnlyMoves
<1> QED  BY <1>1, <1>2 DEF PasswordRevokes

(* Most handlers: something of their own, and then they are done.           *)
LEMMA QuietInv ==
    ASSUME Inv, UNCHANGED <<users, failures, granted, raced>>, sessions' \subseteq sessions,
           NEW h \in Handler, OnlyMoves(h), task[h].pc # "revoke",
           task'[h].pc \notin {"verify", "get", "count", "write"}, TypeOK'
    PROVE  Inv'
<1>1. ~Changing(h)'  BY DEF Changing
<1> QED  BY <1>1, OrderSame, GuessSame, SessionsSame DEF Inv

\* At the start there is an owner, and nobody is logged in.
LEMMA InitInv == Init => Inv
<1> SUFFICES ASSUME Init PROVE Inv  OBVIOUS
<1>1. \A h \in Handler : task[h] \in Tasks /\ task[h].pc = "idle"  BY IdleTask DEF Init
<1>2. TypeOK
  <2>1. users \in [User -> UserRow]  BY AdminAuthAssumption DEF Init, UserRow
  <2>2. task \in [Handler -> Tasks]  BY IdleTask DEF Init
  <2>3. tokens \in [Token -> TokenRow]  BY DEF Init, TokenRow
  <2>4. failures \in [User -> Nat] /\ ops \in 0..MaxOps  BY AdminAuthAssumption DEF Init
  <2>5. granted \subseteq User  BY DEF Init
  <2>6. raced \in BOOLEAN /\ sessions \subseteq Session  BY DEF Init
  <2> QED  BY <2>1, <2>2, <2>3, <2>4, <2>5, <2>6 DEF TypeOK
<1>3. OwnersGranted /\ SessionsOwned /\ PasswordRevokes
  BY DEF Init, OwnersGranted, SessionsOwned, PasswordRevokes
<1>4. (\A h \in Handler : Entitled(h)) /\ Orderly
  BY <1>1 DEF Init, Entitled, Orderly, Changing, Exact, Spare
<1>5. GuessBound
  <2> SUFFICES ASSUME NEW u \in User PROVE Guesses(u)  BY GuessesAre
  <2>1. Hashing(u) = {}  BY <1>1 DEF Hashing
  <2>2. Cardinality(Hashing(u)) = 0  BY <2>1, FS_EmptySet
  <2>3. failures[u] = 0  BY DEF Init
  <2> QED  BY <2>2, <2>3, HashingFinite, AdminAuthAssumption DEF Guesses
<1> QED  BY <1>2, <1>3, <1>4, <1>5 DEF Inv
-----------------------------------------------------------------------------
(* Logins and the lock                                                      *)

(* A failure count goes up by one, or back to nothing.                      *)
LEMMA CountTyped ==
    ASSUME TypeOK, NEW u \in User, Fail(u) \/ Clear(u)
    PROVE  /\ failures' \in [User -> Nat] /\ \A v \in User \ {u} : failures'[v] = failures[v]
           /\ Fail(u) => failures'[u] = failures[u] + 1
           /\ Clear(u) => failures'[u] = 0
BY DEF TypeOK, Fail, Clear

\* A login that found the name unlocked hashes: one more guess is in flight.
LEMMA LoginStartInv ==
    ASSUME Inv, NEW h \in Handler, NEW u \in User, LoginStart(h, u)
    PROVE  Inv'
<1>1. /\ TypeOK /\ task[h].pc = "idle" /\ failures[u] < MaxFailures
      /\ UNCHANGED <<users, sessions, tokens, ops, granted, raced>>
  <2>1. TypeOK /\ task[h].pc = "idle" /\ ~(failures[u] >= MaxFailures)
        /\ UNCHANGED <<users, sessions, tokens, ops, granted, raced>>
    BY DEF LoginStart, Locked, Inv
  <2>2. failures[u] \in Nat  BY <2>1 DEF TypeOK
  <2> QED  BY <2>1, <2>2, AdminAuthAssumption
<1>2. \A v \in User : Guesses(v) /\ failures[v] \in Nat  BY <1>1, GuessesAre DEF Inv, TypeOK
<1>3. CASE /\ Enabled(u) /\ UNCHANGED failures
           /\ task' = [task EXCEPT ![h] = [pc |-> "verify", user |-> u, pw |-> users[u].pw]]
  <2> DEFINE t == [pc |-> "verify", user |-> u, pw |-> users[u].pw]
  <2>1. users[u].pw \in 0..MaxPw  BY <1>1, <1>3 DEF TypeOK, UserRow, Enabled
  <2>2. t \in Tasks /\ t.pc = "verify" /\ t.user = u  BY <2>1 DEF Tasks
  <2> HIDE DEF t
  <2>3. OnlyMoves(h) /\ task'[h] = t /\ task' \in [Handler -> Tasks]  BY <1>1, <1>3, <2>2, OneMoves DEF t
  <2>4. TypeOK'  BY <1>1, <1>3, <2>3 DEF TypeOK
  <2>5. ~Changing(h)'  BY <2>2, <2>3 DEF Changing
  <2>6. ASSUME NEW v \in User PROVE Guesses(v)'
    <3>1. CASE v = u
      BY <1>1, <1>2, <1>3, <3>1, HashingFinite, HashingFinite2, AdminAuthAssumption DEF Guesses
    <3>2. CASE v # u
      <4>1. Hashing(v)' = Hashing(v)  BY <1>1, <2>2, <2>3, <3>2 DEF Hashing, OnlyMoves
      <4> QED  BY <1>2, <1>3, <4>1 DEF Guesses
    <3> QED  BY <3>1, <3>2
  <2>7. GuessBound'  BY <2>6, GuessesAre2
  <2> QED  BY <1>1, <2>3, <2>4, <2>5, <2>7, OrderSame, SessionsSame DEF Inv
<1>4. CASE Fail(u) /\ UNCHANGED task
  <2>1. TypeOK'  BY <1>1, <1>4, CountTyped DEF TypeOK
  <2>2. OnlyMoves(h) /\ ~Changing(h)'  BY <1>1, <1>4 DEF OnlyMoves, Changing
  <2>3. ASSUME NEW v \in User PROVE Guesses(v)'
    <3>1. Hashing(v)' = Hashing(v) /\ h \notin Hashing(v)  BY <1>1, <1>4 DEF Hashing
    <3>2. CASE v = u
      <4>1. failures'[v] = failures[v] + 1  BY <1>1, <1>4, <3>2, CountTyped
      <4>2. Cardinality(Hashing(v)) < Cardinality(Handler)  BY <3>1, HashingFinite
      <4> QED  BY <1>1, <1>2, <3>1, <3>2, <4>1, <4>2, HashingFinite, AdminAuthAssumption DEF Guesses
    <3>3. CASE v # u
      BY <1>1, <1>2, <1>4, <3>1, <3>3, CountTyped DEF Guesses
    <3> QED  BY <3>2, <3>3
  <2>4. GuessBound'  BY <2>3, GuessesAre2
  <2> QED  BY <1>1, <2>1, <2>2, <2>4, OrderSame, SessionsSame DEF Inv
<1> QED  BY <1>3, <1>4 DEF LoginStart

(* A password has been checked: one login fewer is hashing.                 *)
LEMMA HashedInv ==
    ASSUME Inv, NEW h \in Handler, task[h].pc = "verify", NEW t \in Tasks, t.pc \in {"idle", "session"},
           task' = [task EXCEPT ![h] = t], Fail(task[h].user) \/ Clear(task[h].user),
           UNCHANGED <<users, sessions, tokens, ops, granted, raced>>
    PROVE  Inv'
<1> DEFINE u == task[h].user
<1>1. TypeOK /\ u \in User  BY TaskFields DEF Inv, TypeOK
<1>2. OnlyMoves(h) /\ task'[h] = t /\ task' \in [Handler -> Tasks]  BY <1>1, OneMoves
<1>3. TypeOK'  BY <1>1, <1>2, CountTyped DEF TypeOK
<1>4. ~Changing(h)'  BY <1>2 DEF Changing
<1>5. ASSUME NEW v \in User PROVE Guesses(v)'
  <2>1. Guesses(v) /\ failures[v] \in Nat  BY <1>1, GuessesAre DEF Inv, TypeOK
  <2>2. CASE v = u
    <3>1. Hashing(v)' = Hashing(v) \ {h} /\ h \in Hashing(v)  BY <1>2, <2>2 DEF Hashing, OnlyMoves
    <3>2. Cardinality(Hashing(v)') = Cardinality(Hashing(v)) - 1
      BY <3>1, HashingFinite, FS_RemoveElement
    <3>3. failures'[v] = failures[v] + 1 \/ failures'[v] = 0  BY <1>1, <2>2, CountTyped
    <3> QED  BY <2>1, <3>2, <3>3, HashingFinite, AdminAuthAssumption DEF Guesses
  <2>3. CASE v # u
    <3>1. Hashing(v)' = Hashing(v)  BY <1>2, <2>3 DEF Hashing, OnlyMoves
    <3> QED  BY <1>1, <2>1, <2>3, <3>1, CountTyped DEF Guesses
  <2> QED  BY <2>2, <2>3
<1>6. GuessBound'  BY <1>5, GuessesAre2
<1> QED  BY <1>2, <1>3, <1>4, <1>6, OrderSame, SessionsSame DEF Inv

\* A wrong password: the guess in flight becomes one the lock counts.
LEMMA LoginFailsInv ==
    ASSUME Inv, NEW h \in Handler, LoginFails(h)
    PROVE  Inv'
BY HashedInv, IdleTask DEF LoginFails

\* A right password clears the count and has its session made for the password
\* it was compared with.
LEMMA LoginVerifiedInv ==
    ASSUME Inv, NEW h \in Handler, LoginVerified(h)
    PROVE  Inv'
<1> DEFINE t == [task[h] EXCEPT !.pc = "session"]
<1>1. task[h].pc = "verify" /\ task[h] \in Tasks  BY DEF LoginVerified, Inv, TypeOK
<1>2. t \in Tasks /\ t.pc = "session"  BY <1>1, TaskFields DEF Tasks
<1>3. task' = [task EXCEPT ![h] = t] /\ Clear(task[h].user)
      /\ UNCHANGED <<users, sessions, tokens, ops, granted, raced>>
  BY DEF LoginVerified
<1> HIDE DEF t
<1> QED  BY <1>1, <1>2, <1>3, HashedInv

\* A lock that runs out starts the count over.
LEMMA LockExpiresInv ==
    ASSUME Inv, NEW u \in User, LockExpires(u)
    PROVE  Inv'
<1>1. TypeOK /\ Clear(u) /\ UNCHANGED <<users, sessions, tokens, task, ops, granted, raced>>
  BY DEF LockExpires, Inv
<1>2. TypeOK'  BY <1>1, CountTyped DEF TypeOK
<1>3. ASSUME NEW v \in User PROVE Guesses(v)'
  <2>1. Guesses(v) /\ failures[v] \in Nat  BY <1>1, GuessesAre DEF Inv, TypeOK
  <2>2. Hashing(v)' = Hashing(v)  BY <1>1 DEF Hashing
  <2>3. failures'[v] = failures[v] \/ failures'[v] = 0  BY <1>1, CountTyped
  <2> QED  BY <2>1, <2>2, <2>3, HashingFinite, AdminAuthAssumption DEF Guesses
<1>4. GuessBound'  BY <1>3, GuessesAre2
<1>5. OwnersGranted' /\ (\A k \in Handler : Entitled(k)') /\ SessionsOwned' /\ PasswordRevokes'
  BY <1>1 DEF Inv, OwnersGranted, Entitled, CanManageOwners, SessionsOwned, PasswordRevokes
<1>6. Orderly'
  BY <1>1 DEF Inv, Orderly, Changing, Exact, Spare, Owners, Enabled
<1> QED  BY <1>2, <1>4, <1>5, <1>6 DEF Inv
-----------------------------------------------------------------------------
(* Sessions and tokens                                                      *)

\* The session of a login that has been verified.
LEMMA CreateSessionInv ==
    ASSUME Inv, NEW h \in Handler, CreateSession(h)
    PROVE  Inv'
<1> DEFINE u == task[h].user
           differs == task[h].pw # users[u].pw
           s == [user |-> u, pw |-> task[h].pw, missed |-> differs]
<1>1. /\ TypeOK /\ task[h].pc = "session" /\ task' = [task EXCEPT ![h] = Idle]
      /\ sessions' = IF users[u] = None THEN sessions ELSE sessions \cup {s}
      /\ UNCHANGED <<users, tokens, failures, ops, granted, raced>>
  BY DEF CreateSession, Inv
<1>2. u \in User /\ task[h].pw \in 0..MaxPw  BY <1>1, TaskFields DEF TypeOK
<1>3. OnlyMoves(h) /\ task'[h].pc = "idle" /\ task' \in [Handler -> Tasks]  BY <1>1, OneMoves, IdleTask
<1>4. CASE users[u] = None
  <2>1. TypeOK' /\ sessions' = sessions  BY <1>1, <1>3, <1>4 DEF TypeOK
  <2> QED  BY <1>1, <1>3, <2>1, QuietInv
<1>5. CASE users[u] # None
  <2>0. differs \in BOOLEAN /\ (differs <=> task[h].pw # users[u].pw)  OBVIOUS
  <2> HIDE DEF differs
  <2>1. s \in Session /\ s.user = u /\ s.missed = differs /\ s.pw = task[h].pw  BY <1>2, <2>0 DEF Session
  <2> HIDE DEF s
  <2>2. TypeOK'  BY <1>1, <1>3, <1>5, <2>1 DEF TypeOK
  <2>3. ~Changing(h)'  BY <1>3 DEF Changing
  <2>4. SessionsOwned'  BY <1>1, <1>5, <2>1 DEF Inv, SessionsOwned
  <2>5. PasswordRevokes'
    <3>1. ASSUME NEW x \in sessions', users[x.user] # None, x.pw # users[x.user].pw
          PROVE  x.missed \/ \E k \in Handler : task'[k].pc = "revoke" /\ task'[k].user = x.user
      <4>1. CASE x = s  BY <2>0, <2>1, <3>1, <4>1
      <4>2. CASE x \in sessions  BY <1>1, <1>3, <3>1, <4>2 DEF Inv, PasswordRevokes, OnlyMoves
      <4> QED  BY <1>1, <1>5, <3>1, <4>1, <4>2
    <3> QED  BY <1>1, <3>1 DEF PasswordRevokes
  <2> QED  BY <1>1, <1>3, <2>2, <2>3, <2>4, <2>5, OrderSame, GuessSame DEF Inv
<1> QED  BY <1>4, <1>5

\* Sessions only go.
LEMMA SessionExpiresInv ==
    ASSUME Inv, NEW s \in sessions, SessionExpires(s)
    PROVE  Inv'
<1>1. TypeOK /\ sessions' = sessions \ {s} /\ UNCHANGED <<users, tokens, failures, task, ops, granted, raced>>
  BY DEF SessionExpires, Inv
<1>2. TypeOK'  BY <1>1 DEF TypeOK
<1>3. OwnersGranted' /\ (\A k \in Handler : Entitled(k)') /\ SessionsOwned' /\ PasswordRevokes'
  BY <1>1 DEF Inv, OwnersGranted, Entitled, CanManageOwners, SessionsOwned, PasswordRevokes
<1>4. Orderly'
  BY <1>1 DEF Inv, Orderly, Changing, Exact, Spare, Owners, Enabled
<1>5. GuessBound'  BY <1>1 DEF Inv, GuessBound
<1> QED  BY <1>2, <1>3, <1>4, <1>5 DEF Inv

(* A request whose actor was found.                                         *)
LEMMA ActMoves ==
    ASSUME TypeOK, NEW h \in Handler, NEW u \in User, NEW role \in Role, Act(h, u, role)
    PROVE  OnlyMoves(h) /\ task'[h].pc = "acting" /\ task' \in [Handler -> Tasks]
<1> DEFINE t == [pc |-> "acting", user |-> u, role |-> role]
<1>1. t \in Tasks /\ t.pc = "acting"  BY DEF Tasks
<1>2. task' = [task EXCEPT ![h] = t]  BY DEF Act
<1> HIDE DEF t
<1> QED  BY <1>1, <1>2, OneMoves

\* An enabled user has a row, and a role.
LEMMA EnabledRow ==
    ASSUME TypeOK, NEW u \in User, Enabled(u)
    PROVE  users[u] # None /\ users[u].role \in Role
BY DEF TypeOK, Enabled, UserRow

\* A handler resolves its actor from a session.
LEMMA GetSessionByTokenInv ==
    ASSUME Inv, NEW h \in Handler, NEW s \in sessions, GetSessionByToken(h, s)
    PROVE  Inv'
<1>1. /\ TypeOK /\ task[h].pc = "idle" /\ ops < MaxOps /\ s.user \in User
      /\ UNCHANGED <<users, tokens, failures, granted, raced>>
  BY DEF GetSessionByToken, Inv, TypeOK, Session
<1>2. CASE Enabled(s.user) /\ Act(h, s.user, users[s.user].role) /\ ops' = ops + 1 /\ UNCHANGED sessions
  <2>1. OnlyMoves(h) /\ task'[h].pc = "acting" /\ task' \in [Handler -> Tasks]
    BY <1>1, <1>2, EnabledRow, ActMoves
  <2>2. ops' \in 0..MaxOps  BY <1>1, <1>2, AdminAuthAssumption DEF TypeOK
  <2>3. TypeOK'  BY <1>1, <1>2, <2>1, <2>2 DEF TypeOK
  <2> QED  BY <1>1, <1>2, <2>1, <2>3, QuietInv
<1>3. CASE sessions' = sessions \ {s} /\ UNCHANGED <<task, ops>>
  <2>1. OnlyMoves(h) /\ task'[h].pc = "idle" /\ sessions' \subseteq sessions  BY <1>1, <1>3 DEF OnlyMoves
  <2>2. TypeOK'  BY <1>1, <1>3 DEF TypeOK
  <2> QED  BY <1>1, <2>1, <2>2, QuietInv
<1> QED  BY <1>2, <1>3 DEF GetSessionByToken

\* A handler resolves its actor from an API token.
LEMMA LookupAPITokenInv ==
    ASSUME Inv, NEW h \in Handler, NEW t \in Token, LookupAPIToken(h, t)
    PROVE  Inv'
<1> DEFINE u == tokens[t].user
           r == users[u].role
           role == IF Rank(tokens[t].role) < Rank(r) THEN tokens[t].role ELSE r
<1>1. /\ TypeOK /\ task[h].pc = "idle" /\ ops < MaxOps /\ tokens[t] # None /\ Enabled(u)
      /\ Act(h, u, role) /\ ops' = ops + 1
      /\ UNCHANGED <<users, sessions, tokens, failures, granted, raced>>
  BY DEF LookupAPIToken, Inv
<1>2. u \in User /\ tokens[t].role \in Role  BY <1>1 DEF TypeOK, TokenRow
<1>3. r \in Role  BY <1>1, <1>2, EnabledRow
<1>4. role \in Role  BY <1>2, <1>3
<1> HIDE DEF role, r, u
<1>5. OnlyMoves(h) /\ task'[h].pc = "acting" /\ task' \in [Handler -> Tasks]
  BY <1>1, <1>2, <1>4, ActMoves
<1>6. ops' \in 0..MaxOps  BY <1>1, AdminAuthAssumption DEF TypeOK
<1>7. TypeOK'  BY <1>1, <1>5, <1>6 DEF TypeOK
<1> QED  BY <1>1, <1>5, <1>7, QuietInv

(* A handler that answers after at most taking sessions away.               *)
LEMMA DoneInv ==
    ASSUME Inv, NEW h \in Handler, task[h].pc # "revoke", task' = [task EXCEPT ![h] = Idle],
           sessions' \subseteq sessions, tokens' \in [Token -> TokenRow],
           UNCHANGED <<users, failures, ops, granted, raced>>
    PROVE  Inv'
<1>1. TypeOK  BY DEF Inv
<1>2. OnlyMoves(h) /\ task'[h].pc = "idle" /\ task' \in [Handler -> Tasks]  BY <1>1, OneMoves, IdleTask
<1>3. TypeOK'  BY <1>1, <1>2 DEF TypeOK
<1> QED  BY <1>2, <1>3, QuietInv

\* The actor revokes one of its sessions, or all.
LEMMA RevokeSessionsInv ==
    ASSUME Inv, NEW h \in Handler, RevokeSessions(h)
    PROVE  Inv'
BY DoneInv DEF RevokeSessions, Inv, TypeOK

\* A refresh makes no session.
LEMMA handleRefreshInv ==
    ASSUME Inv, NEW h \in Handler, handleRefresh(h)
    PROVE  Inv'
BY DoneInv DEF handleRefresh, ExtendSession, Inv, TypeOK

\* A token is issued to the actor.
LEMMA CreateAPITokenInv ==
    ASSUME Inv, NEW h \in Handler, NEW t \in Token, NEW role \in Role, CreateAPIToken(h, t, role)
    PROVE  Inv'
<1>1. TypeOK /\ task[h].pc = "acting"  BY DEF Inv, CreateAPIToken
<1>2. task[h].user \in User  BY <1>1, TaskFields DEF TypeOK
<1>3. [user |-> task[h].user, role |-> role, revoked |-> FALSE] \in TokenRow  BY <1>2 DEF TokenRow
<1>4. tokens' \in [Token -> TokenRow]  BY <1>1, <1>3 DEF TypeOK, CreateAPIToken
<1> QED  BY <1>1, <1>4, DoneInv DEF CreateAPIToken

\* A token is revoked.
LEMMA RevokeAPITokenInv ==
    ASSUME Inv, NEW h \in Handler, NEW t \in Token, RevokeAPIToken(h, t)
    PROVE  Inv'
<1>1. TypeOK /\ task[h].pc = "acting" /\ tokens[t] # None  BY DEF Inv, RevokeAPIToken, MayRevoke
<1>2. tokens[t] \in [user : User, role : Role, revoked : BOOLEAN]  BY <1>1 DEF TypeOK, TokenRow
<1>3. [tokens[t] EXCEPT !.revoked = TRUE] \in TokenRow  BY <1>2 DEF TokenRow
<1>4. tokens' = [tokens EXCEPT ![t] = [tokens[t] EXCEPT !.revoked = TRUE]]  BY DEF RevokeAPIToken
<1>5. tokens' \in [Token -> TokenRow]  BY <1>1, <1>3, <1>4 DEF TypeOK
<1> QED  BY <1>1, <1>5, DoneInv DEF RevokeAPIToken
-----------------------------------------------------------------------------
(* Passwords                                                                *)

(* The change of a handler concerns a user.                                 *)
LEMMA ChangeFields ==
    ASSUME TypeOK, NEW h \in Handler, Changing(h)
    PROVE  /\ task[h].target \in User /\ task[h].change \in Change /\ task[h].role \in Role
           /\ task[h].user \in User
           /\ task[h].pc # "get" =>
                task[h].row \in [role : Role, disabled : BOOLEAN, pw : 0..MaxPw] /\ task[h].row # None
BY TaskFields DEF TypeOK, Changing, UserRow

SetRow(u) == [users[u] EXCEPT !.pw = users[u].pw + 1]

\* The current password is looked at.
LEMMA VerifyPasswordInv ==
    ASSUME Inv, NEW h \in Handler, VerifyPassword(h)
    PROVE  Inv'
<1> DEFINE t == [task[h] EXCEPT !.pc = "set"]
<1>1. /\ TypeOK /\ task[h].pc = "acting" /\ UNCHANGED <<users, sessions, tokens, failures, ops, granted, raced>>
  BY DEF VerifyPassword, Inv
<1>2. CASE task' = [task EXCEPT ![h] = Idle]
  BY <1>1, <1>2, DoneInv DEF TypeOK
<1>3. CASE task' = [task EXCEPT ![h].pc = "set"]
  <2>1. task[h] \in [pc : {"acting", "set", "revoke"}, user : User, role : Role]  BY <1>1, TaskFields DEF TypeOK
  <2>2. t \in Tasks /\ t.pc = "set"  BY <2>1 DEF Tasks
  <2>3. task' = [task EXCEPT ![h] = t]  BY <1>3
  <2> HIDE DEF t
  <2>4. OnlyMoves(h) /\ task'[h].pc = "set" /\ task' \in [Handler -> Tasks]  BY <1>1, <2>2, <2>3, OneMoves
  <2>5. TypeOK'  BY <1>1, <2>4 DEF TypeOK
  <2> QED  BY <1>1, <2>4, <2>5, QuietInv
<1> QED  BY <1>2, <1>3 DEF VerifyPassword

\* A new password: every older session is one its handler is about to delete.
LEMMA SetPasswordInv ==
    ASSUME Inv, NEW h \in Handler, SetPassword(h)
    PROVE  Inv'
<1> DEFINE u == task[h].user
           t == [task[h] EXCEPT !.pc = "revoke"]
<1>a. CASE task' = [task EXCEPT ![h] = Idle] /\ UNCHANGED users
  BY <1>a, DoneInv DEF SetPassword, Inv, TypeOK
<1> SUFFICES ASSUME ~(task' = [task EXCEPT ![h] = Idle] /\ UNCHANGED users)
             PROVE  Inv'
  BY <1>a
<1>1. /\ TypeOK /\ task[h].pc = "set" /\ users[u] # None /\ users[u].pw < MaxPw
      /\ users' = [users EXCEPT ![u] = SetRow(u)] /\ task' = [task EXCEPT ![h] = t]
      /\ UNCHANGED <<sessions, tokens, failures, ops, granted, raced>>
  BY DEF SetPassword, Inv, SetRow
<1>2. task[h] \in [pc : {"acting", "set", "revoke"}, user : User, role : Role]  BY <1>1, TaskFields DEF TypeOK
<1>3. t \in Tasks /\ t.pc = "revoke" /\ t.user = u  BY <1>2 DEF Tasks
<1> HIDE DEF t
<1>4. OnlyMoves(h) /\ task'[h] = t /\ task' \in [Handler -> Tasks]  BY <1>1, <1>3, OneMoves
<1>5. u \in User /\ users[u] \in [role : Role, disabled : BOOLEAN, pw : 0..MaxPw]
  BY <1>1, <1>2 DEF TypeOK, UserRow
<1>6. /\ SetRow(u) \in [role : Role, disabled : BOOLEAN, pw : 0..MaxPw]
      /\ SetRow(u).role = users[u].role /\ SetRow(u).disabled = users[u].disabled
  BY <1>1, <1>5, AdminAuthAssumption DEF SetRow
<1>7. TypeOK'
  <2>1. users' \in [User -> UserRow]  BY <1>1, <1>5, <1>6 DEF TypeOK, UserRow
  <2> QED  BY <1>1, <1>4, <2>1 DEF TypeOK
<1>8. ASSUME NEW v \in User
      PROVE  /\ users'[v] = None <=> users[v] = None
             /\ users'[v].role = users[v].role /\ users'[v].disabled = users[v].disabled
  BY <1>1, <1>5, <1>6, NoneIsNoRow DEF TypeOK
<1>9. OwnersGranted'  BY <1>1, <1>8 DEF Inv, OwnersGranted
<1>10. Owners' = Owners  BY <1>8 DEF Owners, Enabled
<1>11. ASSUME NEW k \in Handler, Changing(k)' PROVE k # h /\ Changing(k) /\ task'[k] = task[k]
  BY <1>3, <1>4, <1>11 DEF Changing, OnlyMoves
<1>12. ASSUME NEW k \in Handler PROVE Entitled(k)'
  BY <1>1, <1>11 DEF Inv, Entitled, Changing, CanManageOwners
<1>13. Orderly'
  <2>1. ASSUME ~raced, NEW k \in Handler PROVE Exact(k)' /\ Spare(k)'
    <3>1. CASE Changing(k)'
      <4>1. task[k].target \in User  BY <1>1, <1>11, <3>1, ChangeFields
      <4>2. Exact(k) /\ Spare(k)  BY <2>1 DEF Inv, Orderly
      <4> QED  BY <1>8, <1>10, <1>11, <3>1, <4>1, <4>2 DEF Exact, Spare
    <3>2. CASE ~Changing(k)'  BY <3>2 DEF Changing, Exact, Spare
    <3> QED  BY <3>1, <3>2
  <2> QED  BY <1>1, <1>10, <1>11, <2>1 DEF Inv, Orderly
<1>14. GuessBound'  BY <1>1, <1>3, <1>4, GuessSame DEF Inv
<1>15. SessionsOwned'
  BY <1>1, <1>8 DEF Inv, SessionsOwned, TypeOK, Session
<1>16. PasswordRevokes'
  <2>1. ASSUME NEW s \in sessions, users'[s.user] # None, s.pw # users'[s.user].pw
        PROVE  s.missed \/ \E k \in Handler : task'[k].pc = "revoke" /\ task'[k].user = s.user
    <3>1. CASE s.user = u  BY <1>3, <1>4, <3>1
    <3>2. CASE s.user # u
      <4>1. users'[s.user] = users[s.user]  BY <1>1, <3>2 DEF TypeOK, Session
      <4> QED  BY <1>1, <1>4, <2>1, <4>1 DEF Inv, PasswordRevokes, OnlyMoves
    <3> QED  BY <3>1, <3>2
  <2> QED  BY <1>1, <2>1 DEF PasswordRevokes
<1> QED  BY <1>7, <1>9, <1>12, <1>13, <1>14, <1>15, <1>16 DEF Inv

\* ... which it does now.
LEMMA DeleteSessionsForUserInv ==
    ASSUME Inv, NEW h \in Handler, DeleteSessionsForUser(h)
    PROVE  Inv'
<1>1. /\ TypeOK /\ task[h].pc = "revoke" /\ task' = [task EXCEPT ![h] = Idle]
      /\ sessions' = {s \in sessions : s.user # task[h].user}
      /\ UNCHANGED <<users, tokens, failures, ops, granted, raced>>
  BY DEF DeleteSessionsForUser, Inv
<1>2. OnlyMoves(h) /\ task'[h].pc = "idle" /\ task' \in [Handler -> Tasks]  BY <1>1, OneMoves, IdleTask
<1>3. TypeOK'
  <2>1. sessions' \subseteq sessions  BY <1>1
  <2> QED  BY <1>1, <1>2, <2>1 DEF TypeOK
<1>4. ~Changing(h)'  BY <1>2 DEF Changing
<1>5. SessionsOwned'  BY <1>1 DEF Inv, SessionsOwned
<1>6. PasswordRevokes'
  <2>1. ASSUME NEW s \in sessions', users[s.user] # None, s.pw # users[s.user].pw
        PROVE  s.missed \/ \E k \in Handler : task'[k].pc = "revoke" /\ task'[k].user = s.user
    BY <1>1, <1>2, <2>1 DEF Inv, PasswordRevokes, OnlyMoves
  <2> QED  BY <1>1, <2>1 DEF PasswordRevokes
<1> QED  BY <1>1, <1>2, <1>3, <1>4, <1>5, <1>6, OrderSame, GuessSame DEF Inv

\* ... or fails to: what stays is marked.
LEMMA RevocationFailsInv ==
    ASSUME Inv, NEW h \in Handler, RevocationFails(h)
    PROVE  Inv'
<1> DEFINE u == task[h].user
           f(s) == IF Outlives(s, u) THEN [s EXCEPT !.missed = TRUE] ELSE s
<1>1. /\ TypeOK /\ task[h].pc = "revoke" /\ task' = [task EXCEPT ![h] = Idle]
      /\ sessions' = {f(s) : s \in sessions}
      /\ UNCHANGED <<users, tokens, failures, ops, granted, raced>>
  BY DEF RevocationFails, Inv
<1>2. OnlyMoves(h) /\ task'[h].pc = "idle" /\ task' \in [Handler -> Tasks]  BY <1>1, OneMoves, IdleTask
<1>3. ASSUME NEW s \in sessions
      PROVE  /\ f(s) \in Session /\ f(s).user = s.user /\ f(s).pw = s.pw
             /\ s.missed \/ Outlives(s, u) => f(s).missed
  <2>1. s \in [user : User, pw : 0..MaxPw, missed : BOOLEAN]  BY <1>1 DEF TypeOK, Session
  <2>2. CASE Outlives(s, u)
    <3>1. f(s) = [s EXCEPT !.missed = TRUE]  BY <2>2
    <3> HIDE DEF f
    <3> QED  BY <2>1, <3>1 DEF Session
  <2>3. CASE ~Outlives(s, u)
    <3>1. f(s) = s  BY <2>3
    <3> HIDE DEF f
    <3> QED  BY <2>1, <2>3, <3>1 DEF Session
  <2> QED  BY <2>2, <2>3
<1> HIDE DEF f
<1>4. TypeOK'
  <2>1. sessions' \subseteq Session  BY <1>1, <1>3
  <2> QED  BY <1>1, <1>2, <2>1 DEF TypeOK
<1>5. ~Changing(h)'  BY <1>2 DEF Changing
<1>6. SessionsOwned'  BY <1>1, <1>3 DEF Inv, SessionsOwned
<1>7. PasswordRevokes'
  <2>1. ASSUME NEW x \in sessions', users[x.user] # None, x.pw # users[x.user].pw
        PROVE  x.missed \/ \E k \in Handler : task'[k].pc = "revoke" /\ task'[k].user = x.user
    <3>1. PICK s \in sessions : x = f(s)  BY <1>1
    <3>2. x.user = s.user /\ x.pw = s.pw /\ (s.missed \/ Outlives(s, u) => x.missed)  BY <1>3, <3>1
    <3>3. CASE s.user = u  BY <2>1, <3>2, <3>3 DEF Outlives
    <3>4. CASE s.user # u
      <4>1. s.missed \/ \E k \in Handler : task[k].pc = "revoke" /\ task[k].user = s.user
        BY <2>1, <3>2 DEF Inv, PasswordRevokes
      <4> QED  BY <1>2, <3>2, <3>4, <4>1 DEF OnlyMoves
    <3> QED  BY <3>3, <3>4
  <2> QED  BY <1>1, <2>1 DEF PasswordRevokes
<1> QED  BY <1>1, <1>2, <1>4, <1>5, <1>6, <1>7, OrderSame, GuessSame DEF Inv
-----------------------------------------------------------------------------
(* Changes of users                                                         *)

\* Only an owner makes an owner.
LEMMA CreateUserInv ==
    ASSUME Inv, NEW h \in Handler, NEW u \in User, NEW role \in Role, CreateUser(h, u, role)
    PROVE  Inv'
<1> DEFINE row == [role |-> role, disabled |-> FALSE, pw |-> 0]
<1>1. /\ TypeOK /\ task[h].pc = "acting" /\ users[u] = None
      /\ users' = [users EXCEPT ![u] = row] /\ task' = [task EXCEPT ![h] = Idle]
      /\ UNCHANGED <<sessions, tokens, failures, ops, raced>>
  BY DEF CreateUser, Inv
<1>2. /\ granted \subseteq granted' /\ granted' \subseteq granted \cup {u}
      /\ role = "owner" => u \in granted'
  BY DEF CreateUser, MayCreate
<1>3. OnlyMoves(h) /\ task'[h].pc = "idle" /\ task' \in [Handler -> Tasks]  BY <1>1, OneMoves, IdleTask
<1>4. row \in [role : Role, disabled : BOOLEAN, pw : 0..MaxPw] /\ row.role = role
  BY AdminAuthAssumption
<1> HIDE DEF row
<1>5. TypeOK'
  <2>1. users' \in [User -> UserRow]  BY <1>1, <1>4 DEF TypeOK, UserRow
  <2>2. granted' \subseteq User  BY <1>1, <1>2 DEF TypeOK
  <2> QED  BY <1>1, <1>3, <2>1, <2>2 DEF TypeOK
<1>6. users'[u] = row /\ \A v \in User \ {u} : users'[v] = users[v]  BY <1>1 DEF TypeOK
<1>7. OwnersGranted'  BY <1>2, <1>4, <1>6 DEF Inv, OwnersGranted
<1>8. Owners \subseteq Owners'  BY <1>1, <1>6 DEF Owners, Enabled
<1>9. ASSUME NEW k \in Handler, Changing(k)' PROVE Changing(k) /\ task'[k] = task[k]
  BY <1>3, <1>9 DEF Changing, OnlyMoves
<1>10. ASSUME NEW k \in Handler PROVE Entitled(k)'
  BY <1>2, <1>9 DEF Inv, Entitled, Changing, CanManageOwners
<1>11. Orderly'
  <2>1. ASSUME ~raced, NEW k \in Handler PROVE Exact(k)' /\ Spare(k)'
    <3>1. CASE Changing(k)'
      <4>1. task[k].target \in User /\ task'[k] = task[k]  BY <1>1, <1>9, <3>1, ChangeFields
      <4>2. Exact(k) /\ Spare(k)  BY <2>1 DEF Inv, Orderly
      <4>3. Exact(k)'  BY <1>1, <1>6, <4>1, <4>2 DEF Exact
      <4>4. Spare(k)'  BY <1>8, <4>1, <4>2 DEF Spare
      <4> QED  BY <4>3, <4>4
    <3>2. CASE ~Changing(k)'  BY <3>2 DEF Changing, Exact, Spare
    <3> QED  BY <3>1, <3>2
  <2> QED  BY <1>1, <1>8, <1>9, <2>1 DEF Inv, Orderly
<1>12. GuessBound'  BY <1>1, <1>3, GuessSame DEF Inv
<1>13. \A s \in sessions : s.user \in User /\ s.user # u
  BY <1>1 DEF Inv, SessionsOwned, TypeOK, Session
<1>14. SessionsOwned'  BY <1>1, <1>6, <1>13 DEF Inv, SessionsOwned
<1>15. PasswordRevokes'
  <2>1. ASSUME NEW s \in sessions, users'[s.user] # None, s.pw # users'[s.user].pw
        PROVE  s.missed \/ \E k \in Handler : task'[k].pc = "revoke" /\ task'[k].user = s.user
    BY <1>1, <1>3, <1>6, <1>13, <2>1 DEF Inv, PasswordRevokes, OnlyMoves
  <2> QED  BY <1>1, <2>1 DEF PasswordRevokes
<1> QED  BY <1>5, <1>7, <1>10, <1>11, <1>12, <1>14, <1>15 DEF Inv

(* A change of a user that moves on by one statement.                       *)
LEMMA ChangeMovesInv ==
    ASSUME Inv, NEW h \in Handler, NEW t \in Tasks, task' = [task EXCEPT ![h] = t],
           t.pc \in {"idle", "get", "count", "write"}, task[h].pc \in {"acting", "get", "count"},
           UNCHANGED <<users, sessions, tokens, failures, ops, granted>>, raced' \in BOOLEAN,
           ~raced' => /\ ~raced
                      /\ \A k \in Handler \ {h} : Changing(k) => ~Changing(h)'
                      /\ Exact(h)' /\ Spare(h)',
           Entitled(h)'
    PROVE  Inv'
<1>1. TypeOK  BY DEF Inv
<1>2. OnlyMoves(h) /\ task'[h] = t /\ task' \in [Handler -> Tasks]  BY <1>1, OneMoves
<1>3. TypeOK'  BY <1>1, <1>2 DEF TypeOK
<1>4. OwnersGranted'  BY DEF Inv, OwnersGranted
<1>5. Owners' = Owners  BY DEF Owners, Enabled
<1>6. ASSUME NEW k \in Handler PROVE Entitled(k)'
  BY <1>2 DEF Inv, Entitled, OnlyMoves, CanManageOwners
<1>7. Orderly'
  <2> SUFFICES ASSUME ~raced'
               PROVE  /\ \A j, k \in Handler : Changing(j)' /\ Changing(k)' => j = k
                      /\ \A k \in Handler : Exact(k)' /\ Spare(k)'
                      /\ Owners # {}
    BY <1>5 DEF Orderly
  <2>1. Orderly /\ ~raced  BY DEF Inv
  <2>2. \A j, k \in Handler : Changing(j)' /\ Changing(k)' => j = k
    BY <1>2, <2>1 DEF Orderly, Changing, OnlyMoves
  <2>3. ASSUME NEW k \in Handler PROVE Exact(k)' /\ Spare(k)'
    BY <1>2, <1>5, <2>1 DEF Orderly, Exact, Spare, OnlyMoves
  <2> QED  BY <2>1, <2>2, <2>3 DEF Orderly
<1>8. GuessBound'  BY <1>1, <1>2, GuessSame DEF Inv
<1>9. SessionsOwned' /\ PasswordRevokes'  BY <1>2, SessionsSame DEF Inv
<1> QED  BY <1>3, <1>4, <1>6, <1>7, <1>8, <1>9 DEF Inv

\* A request to change or delete a user begins.
LEMMA handleUserIDInv ==
    ASSUME Inv, NEW h \in Handler, NEW u \in User, NEW c \in Change, handleUserID(h, u, c)
    PROVE  Inv'
<1> DEFINE t == [pc |-> "get", user |-> task[h].user, role |-> task[h].role, target |-> u, change |-> c]
           busy == \E k \in Handler : Changing(k)
<1>1. TypeOK /\ task[h].pc = "acting"  BY DEF Inv, handleUserID
<1>2. task[h].user \in User /\ task[h].role \in Role  BY <1>1, TaskFields DEF TypeOK
<1>3. t \in Tasks /\ t.pc = "get" /\ t.role = task[h].role /\ t.change = c  BY <1>2 DEF Tasks
<1> HIDE DEF t
<1>4. /\ task' = [task EXCEPT ![h] = t] /\ raced' = (raced \/ busy)
      /\ UNCHANGED <<users, sessions, tokens, failures, ops, granted>>
  BY DEF handleUserID, t
<1>5. task'[h] = t  BY <1>1, <1>4, OneMoves
<1>6. Entitled(h)'
  <2>1. c.role = "owner" => task[h].role = "owner"  BY DEF handleUserID, MayChange, CanManageOwners
  <2> QED  BY <1>3, <1>5, <2>1 DEF Entitled, CanManageOwners
<1>7. Exact(h)' /\ Spare(h)'  BY <1>3, <1>5 DEF Exact, Spare
<1>8. raced' \in BOOLEAN /\ (~raced' => ~raced /\ ~busy)  BY <1>1, <1>4 DEF TypeOK
<1> QED  BY <1>1, <1>3, <1>4, <1>6, <1>7, <1>8, ChangeMovesInv

\* The row is read, and what was read is tested.
LEMMA GetUserInv ==
    ASSUME Inv, NEW h \in Handler, GetUser(h)
    PROVE  Inv'
<1> DEFINE u == task[h].target
           t == [pc |-> "count", user |-> task[h].user, role |-> task[h].role, target |-> u,
                 change |-> task[h].change, row |-> users[u]]
<1>1. /\ TypeOK /\ task[h].pc = "get" /\ UNCHANGED <<users, sessions, tokens, failures, ops, granted, raced>>
      /\ task' = [task EXCEPT ![h] = IF users[u] = None THEN Idle ELSE t]
  BY DEF Inv, GetUser
<1>2. Changing(h) /\ raced' \in BOOLEAN  BY <1>1 DEF Changing, TypeOK
<1>3. task[h].user \in User /\ task[h].role \in Role /\ u \in User /\ task[h].change \in Change
  BY <1>1, <1>2, ChangeFields
<1>4. ~raced => \A k \in Handler \ {h} : ~Changing(k)  BY <1>2 DEF Inv, Orderly
<1>5. CASE users[u] = None
  <2>1. task' = [task EXCEPT ![h] = Idle]  BY <1>1, <1>5
  <2>2. task'[h].pc = "idle"  BY <1>1, <2>1, OneMoves, IdleTask
  <2>3. Entitled(h)' /\ Exact(h)' /\ Spare(h)'  BY <2>2 DEF Entitled, Exact, Spare
  <2> QED  BY <1>1, <1>2, <1>4, <2>1, <2>3, IdleTask, ChangeMovesInv
<1>6. CASE users[u] # None
  <2>1. users[u] \in UserRow \ {None}  BY <1>1, <1>3, <1>6 DEF TypeOK
  <2>2. t \in Tasks /\ t.pc = "count" /\ t.role = task[h].role /\ t.change = task[h].change
        /\ t.row = users[u] /\ t.target = u
    BY <1>3, <2>1 DEF Tasks
  <2> HIDE DEF t
  <2>3. task' = [task EXCEPT ![h] = t]  BY <1>1, <1>6
  <2>4. task'[h] = t  BY <1>1, <2>3, OneMoves
  <2>5. Entitled(h)'
    BY <1>1, <1>3, <1>6, <2>2, <2>4 DEF Inv, Entitled, CanManageOwners, OwnersGranted
  <2>6. Exact(h)' /\ Spare(h)'  BY <1>1, <1>6, <2>2, <2>4 DEF Exact, Spare
  <2> QED  BY <1>1, <1>2, <1>4, <2>2, <2>3, <2>5, <2>6, ChangeMovesInv
<1> QED  BY <1>5, <1>6

(* Two enabled owners: one of them is not u.                                *)
LEMMA SecondOwner ==
    ASSUME NEW S, NEW u, ~(Cardinality(S) <= 1)
    PROVE  S \ {u} # {}
<1> SUFFICES ASSUME S \subseteq {u} PROVE FALSE  OBVIOUS
<1>1. IsFiniteSet({u}) /\ Cardinality({u}) = 1  BY FS_Singleton
<1> QED  BY <1>1, FS_Subset

\* The owners are counted: while changes do not overlap the count stays right.
LEMMA CountOwnersInv ==
    ASSUME Inv, NEW h \in Handler, CountOwners(h)
    PROVE  Inv'
<1> DEFINE t == [task[h] EXCEPT !.pc = "write"]
<1>1. /\ TypeOK /\ task[h].pc = "count" /\ UNCHANGED <<users, sessions, tokens, failures, ops, granted, raced>>
      /\ task' = [task EXCEPT ![h] = IF LastOwner(h) THEN Idle ELSE t]
  BY DEF Inv, CountOwners
<1>2. Changing(h) /\ raced' \in BOOLEAN  BY <1>1 DEF Changing, TypeOK
<1>3. ~raced => /\ \A k \in Handler \ {h} : ~Changing(k)
                /\ Exact(h)
  BY <1>2 DEF Inv, Orderly
<1>4. CASE LastOwner(h)
  <2>1. task' = [task EXCEPT ![h] = Idle]  BY <1>1, <1>4
  <2>2. task'[h].pc = "idle"  BY <1>1, <2>1, OneMoves, IdleTask
  <2>3. Entitled(h)' /\ Exact(h)' /\ Spare(h)'  BY <2>2 DEF Entitled, Exact, Spare
  <2> QED  BY <1>1, <1>2, <1>3, <2>1, <2>3, IdleTask, ChangeMovesInv
<1>5. CASE ~LastOwner(h)
  <2>1. task[h] \in [pc : {"count", "write"}, user : User, role : Role, target : User, change : Change,
                     row : UserRow \ {None}]
    BY <1>1, TaskFields DEF TypeOK
  <2>2. /\ t \in Tasks /\ t.pc = "write" /\ t.role = task[h].role /\ t.change = task[h].change
        /\ t.row = task[h].row /\ t.target = task[h].target
    BY <2>1 DEF Tasks
  <2> HIDE DEF t
  <2>3. task' = [task EXCEPT ![h] = t]  BY <1>1, <1>5
  <2>4. task'[h] = t  BY <1>1, <2>3, OneMoves
  <2>5. Entitled(h)'  BY <1>1, <2>2, <2>4 DEF Inv, Entitled, CanManageOwners
  <2>6. ~raced => Exact(h)'  BY <1>1, <1>3, <2>2, <2>4 DEF Exact
  <2>7. Spare(h)'
    <3>1. Owners' = Owners  BY <1>1 DEF Owners, Enabled
    <3>2. TakesOwner(task[h].row, task[h].change) => ~(Cardinality(Owners) <= 1)
      BY <1>5 DEF LastOwner
    <3> QED  BY <2>2, <2>4, <3>1, <3>2, SecondOwner DEF Spare
  <2> QED  BY <1>1, <1>2, <1>3, <2>2, <2>3, <2>5, <2>6, <2>7, ChangeMovesInv
<1> QED  BY <1>4, <1>5
\* The fields of a change of a user.
LEMMA ChangeTyped ==
    ASSUME NEW c \in Change
    PROVE  c.role \in Role \cup {None} /\ c.disabled \in BOOLEAN \cup {None}
<1> DEFINE D == BOOLEAN \cup {None}
<1>1. CASE c \in [role : Role \cup {None}, disabled : D, delete : {FALSE}]
  <2> HIDE DEF D
  <2>1. c.role \in Role \cup {None} /\ c.disabled \in D  BY <1>1
  <2> QED  BY <2>1 DEF D
<1>2. CASE c = [role |-> None, disabled |-> None, delete |-> TRUE]
  BY <1>2
<1> QED  BY <1>1, <1>2 DEF Change

(* The row an UPDATE stores is a row.                                       *)
LEMMA ChangedRow ==
    ASSUME NEW row \in [role : Role, disabled : BOOLEAN, pw : 0..MaxPw], NEW c \in Change, NEW pw \in 0..MaxPw
    PROVE  /\ Changed(row, c, pw) \in [role : Role, disabled : BOOLEAN, pw : 0..MaxPw]
           /\ Changed(row, c, pw).role = (IF c.role = None THEN row.role ELSE c.role)
           /\ Changed(row, c, pw).disabled = (IF c.disabled = None THEN row.disabled ELSE c.disabled)
           /\ Changed(row, c, pw).pw = pw
<1>1. c.role \in Role \cup {None} /\ c.disabled \in BOOLEAN \cup {None}  BY ChangeTyped
<1> DEFINE role == IF c.role = None THEN row.role ELSE c.role
           off == IF c.disabled = None THEN row.disabled ELSE c.disabled
<1>2. role \in Role /\ off \in BOOLEAN  BY <1>1
<1>3. Changed(row, c, pw) = [role |-> role, disabled |-> off, pw |-> pw]  BY DEF Changed
<1> HIDE DEF role, off
<1>4. /\ Changed(row, c, pw) \in [role : Role, disabled : BOOLEAN, pw : 0..MaxPw]
      /\ Changed(row, c, pw).role = role /\ Changed(row, c, pw).disabled = off
      /\ Changed(row, c, pw).pw = pw
  BY <1>2, <1>3
<1> QED  BY <1>4 DEF role, off

\* The row is written or deleted, on the strength of what was read and counted.
LEMMA WriteUserInv ==
    ASSUME Inv, NEW h \in Handler, WriteUser(h)
    PROVE  Inv'
<1> DEFINE u == task[h].target
           c == task[h].change
           row == task[h].row
           new == IF c.delete \/ users[u] = None THEN None ELSE Changed(row, c, users[u].pw)
<1>1. /\ TypeOK /\ task[h].pc = "write" /\ users' = [users EXCEPT ![u] = new]
      /\ sessions' = (IF c.delete THEN {s \in sessions : s.user # u} ELSE sessions)
      /\ task' = [task EXCEPT ![h] = Idle] /\ UNCHANGED <<failures, ops, raced>>
  BY DEF Inv, WriteUser
<1>2. Changing(h)  BY <1>1 DEF Changing
<1>3. /\ u \in User /\ c \in Change /\ row \in [role : Role, disabled : BOOLEAN, pw : 0..MaxPw]
  BY <1>1, <1>2, ChangeFields
<1>4. OnlyMoves(h) /\ task'[h].pc = "idle" /\ task' \in [Handler -> Tasks]  BY <1>1, OneMoves, IdleTask
<1>5. users[u] # None => users[u] \in [role : Role, disabled : BOOLEAN, pw : 0..MaxPw]
  BY <1>1, <1>3 DEF TypeOK, UserRow
<1>6. \/ new = None /\ (c.delete \/ users[u] = None)
      \/ /\ users[u] # None /\ ~c.delete /\ new # None
         /\ new \in [role : Role, disabled : BOOLEAN, pw : 0..MaxPw]
         /\ new.role = (IF c.role = None THEN row.role ELSE c.role)
         /\ new.disabled = (IF c.disabled = None THEN row.disabled ELSE c.disabled)
         /\ new.pw = users[u].pw
  <2>1. CASE c.delete \/ users[u] = None  BY <2>1
  <2>2. CASE ~c.delete /\ users[u] # None
    <3>1. new = Changed(row, c, users[u].pw)  BY <2>2
    <3>2. users[u].pw \in 0..MaxPw  BY <1>5, <2>2
    <3> HIDE DEF new, row, c, u
    <3> QED  BY <1>3, <2>2, <3>1, <3>2, ChangedRow, NoneIsNoRow
  <2> QED  BY <2>1, <2>2
<1>7. /\ granted \subseteq granted' /\ granted' \subseteq granted \cup {u}
      /\ c.role = "owner" => u \in granted'
  BY <1>1 DEF Inv, WriteUser, Entitled
<1>8. row.role = "owner" => u \in granted  BY <1>1 DEF Inv, Entitled
<1> HIDE DEF new
<1>9. new \in UserRow /\ (new # None /\ new.role = "owner" => u \in granted')
  BY <1>6, <1>7, <1>8 DEF UserRow
<1>10. users'[u] = new /\ \A v \in User \ {u} : users'[v] = users[v]  BY <1>1, <1>3 DEF TypeOK
<1>11. tokens' \in [Token -> TokenRow]
  BY <1>1 DEF WriteUser, TypeOK, TokenRow
<1>12. TypeOK'
  <2>1. users' \in [User -> UserRow]  BY <1>1, <1>9 DEF TypeOK
  <2>2. granted' \subseteq User  BY <1>1, <1>3, <1>7 DEF TypeOK
  <2>3. sessions' \subseteq sessions  BY <1>1
  <2> QED  BY <1>1, <1>4, <1>11, <2>1, <2>2, <2>3 DEF TypeOK
<1>13. OwnersGranted'  BY <1>7, <1>9, <1>10 DEF Inv, OwnersGranted
<1>14. ASSUME NEW k \in Handler, Changing(k)' PROVE k # h /\ Changing(k) /\ task'[k] = task[k]
  BY <1>4, <1>14 DEF Changing, OnlyMoves
<1>15. ASSUME NEW k \in Handler PROVE Entitled(k)'
  BY <1>7, <1>14 DEF Inv, Entitled, Changing, CanManageOwners
<1>16. Orderly'
  <2> SUFFICES ASSUME ~raced
               PROVE  (\A k \in Handler : ~Changing(k)') /\ Owners' # {}
    BY <1>1 DEF Orderly, Exact, Spare, Changing
  <2>1. \A k \in Handler : ~Changing(k)'  BY <1>2, <1>14 DEF Inv, Orderly
  <2>2. Exact(h) /\ Spare(h) /\ Owners # {}  BY DEF Inv, Orderly
  <2>3. users[u] # None /\ users[u].role = row.role /\ users[u].disabled = row.disabled
    BY <1>1, <2>2 DEF Exact
  <2>4. Owners \ {u} \subseteq Owners'  BY <1>10 DEF Owners, Enabled
  <2>5. CASE TakesOwner(row, c)  BY <1>1, <2>1, <2>2, <2>4, <2>5 DEF Spare
  <2>6. CASE ~TakesOwner(row, c)
    <3>1. CASE u \in Owners
      <4>1. row.role = "owner" /\ ~row.disabled  BY <2>3, <3>1 DEF Owners, Enabled
      <4>2. ~c.delete /\ (IF c.role = None THEN row.role ELSE c.role) = "owner" /\ c.disabled # TRUE
        BY <2>6, <4>1 DEF TakesOwner
      <4>3. ~(IF c.disabled = None THEN row.disabled ELSE c.disabled)
        <5>1. c.disabled \in BOOLEAN \cup {None}  BY <1>3, ChangeTyped
        <5> QED  BY <4>1, <4>2, <5>1
      <4>4. new # None /\ new.role = "owner" /\ ~new.disabled  BY <1>6, <2>3, <4>2, <4>3
      <4> QED  BY <1>3, <1>10, <2>1, <4>4 DEF Owners, Enabled
    <3>2. CASE u \notin Owners  BY <2>1, <2>2, <2>4, <3>2
    <3> QED  BY <3>1, <3>2
  <2> QED  BY <2>1, <2>5, <2>6
<1>17. GuessBound'  BY <1>1, <1>4, GuessSame DEF Inv
<1>18. \A s \in sessions' : s \in sessions /\ s.user \in User /\ (s.user = u => ~c.delete)
  BY <1>1 DEF TypeOK, Session
<1>19. SessionsOwned'  BY <1>6, <1>10, <1>18 DEF Inv, SessionsOwned
<1>20. PasswordRevokes'
  <2>1. ASSUME NEW s \in sessions', users'[s.user] # None, s.pw # users'[s.user].pw
        PROVE  s.missed \/ \E k \in Handler : task'[k].pc = "revoke" /\ task'[k].user = s.user
    <3>1. users[s.user] # None /\ users'[s.user].pw = users[s.user].pw
      BY <1>6, <1>10, <1>18, <2>1
    <3> QED  BY <1>1, <1>4, <1>18, <2>1, <3>1 DEF Inv, PasswordRevokes, OnlyMoves
  <2> QED  BY <2>1 DEF PasswordRevokes
<1> QED  BY <1>12, <1>13, <1>15, <1>16, <1>17, <1>19, <1>20 DEF Inv

-----------------------------------------------------------------------------
(* All steps together                                                       *)

\* Every step preserves the invariant.
LEMMA NextInv == Inv /\ [Next]_vars => Inv'
<1> SUFFICES ASSUME Inv, [Next]_vars PROVE Inv'  OBVIOUS
<1>1. CASE UNCHANGED vars
  <2> USE <1>1 DEF vars
  <2>1. TypeOK' /\ OwnersGranted' /\ (\A k \in Handler : Entitled(k)') /\ SessionsOwned' /\ PasswordRevokes'
    BY DEF Inv, TypeOK, OwnersGranted, Entitled, CanManageOwners, SessionsOwned, PasswordRevokes
  <2>2. Orderly'  BY DEF Inv, Orderly, Changing, Exact, Spare, Owners, Enabled
  <2>3. GuessBound'  BY DEF Inv, GuessBound
  <2> QED  BY <2>1, <2>2, <2>3 DEF Inv
<1>2. ASSUME NEW h \in Handler, Login(h) PROVE Inv'
  BY <1>2, LoginStartInv, LoginFailsInv, LoginVerifiedInv, CreateSessionInv DEF Login
<1>3. ASSUME NEW h \in Handler, Request(h) PROVE Inv'
  BY <1>3, GetSessionByTokenInv, LookupAPITokenInv, RevokeAPITokenInv, CreateAPITokenInv,
     RevokeSessionsInv, handleRefreshInv, VerifyPasswordInv, SetPasswordInv,
     DeleteSessionsForUserInv, RevocationFailsInv, CreateUserInv,
     handleUserIDInv, GetUserInv, CountOwnersInv, WriteUserInv DEF Request
<1> QED  BY <1>1, <1>2, <1>3, LockExpiresInv, SessionExpiresInv DEF Next

(* The inductive invariant of users, sessions and the lock.                 *)
THEOREM Invariance == Spec => []Inv
BY InitInv, NextInv, PTL DEF Spec

(* Rows, sessions, tasks and counters keep their types.                     *)
THEOREM TypeCorrect == Spec => []TypeOK
<1>1. Inv => TypeOK  BY DEF Inv
<1> QED  BY <1>1, Invariance, PTL

(* For any number of concurrent admin requests every owner was made one by an
   owner, and one that is enabled remains while changes do not overlap.     *)
THEOREM OwnersAreSafe == Spec => []OwnersSafe
<1>1. Inv => OwnersSafe  BY DEF Inv, OwnersGranted, Orderly, OwnersSafe
<1> QED  BY <1>1, Invariance, PTL

(* However many logins race, a name is guessed fewer than MaxFailures plus
   the number of handlers times before the lock's entry expires.            *)
THEOREM GuessesAreBounded == Spec => []GuessBound
<1>1. Inv => GuessBound  BY DEF Inv
<1> QED  BY <1>1, Invariance, PTL

(* A password change leaves only sessions its handler is about to delete or
   a login opened late with the old password, or its deletion failed.       *)
THEOREM PasswordChangeRevokes == Spec => []PasswordRevokes
<1>1. Inv => PasswordRevokes  BY DEF Inv
<1> QED  BY <1>1, Invariance, PTL

-----------------------------------------------------------------------------
(* LiveConfig: configurations and what an operation changes of them         *)

Fields == {"admin", "data", "prot", "limit", "rate", "chal", "secret", "diff", "coraza", "ml", "low", "high",
           "logo", "trust", "proxies", "ids", "qf", "token", "intel"}

(* d is c but for the fields of F.                                          *)
Kept(c, d, F) == d \in Config /\ \A f \in Fields \ F : d[f] = c[f]

\* What two changes leave alone their sequence leaves alone.
LEMMA KeptTrans ==
    ASSUME NEW c, NEW d, NEW e, NEW F, NEW G, Kept(c, d, F), Kept(d, e, G)
    PROVE  Kept(c, e, F \cup G)
  BY DEF Kept

\* The fields of a body of PUT /config.
LEMMA SafeFields ==
    ASSUME NEW s \in SafeConfig
    PROVE  /\ s.prot \in BOOLEAN /\ s.limit \in BOOLEAN /\ s.rate \in 0..2 /\ s.chal \in BOOLEAN
           /\ s.diff \in 0..2 /\ s.coraza \in BOOLEAN
           /\ s.ml \in {"", "off", "shadow", "challenge", "block"} /\ s.low \in 0..3 /\ s.high \in 0..3
           /\ s.logo \in 0..1 /\ s.trust \in {"", "edge", "behind"}
           /\ s.proxies \in {"none", "nets", "bad"}
           /\ s.ids # Absent => s.ids \in BOOLEAN
           /\ s.qf # Absent => s.qf \in [on : BOOLEAN, token : BOOLEAN]
  BY DEF SafeConfig

\* The fields of a configuration.
LEMMA ConfigFields ==
    ASSUME NEW c \in Config
    PROVE  /\ c.admin \in BOOLEAN /\ c.prot \in BOOLEAN /\ c.limit \in BOOLEAN /\ c.rate \in 1..2 /\ c.chal \in BOOLEAN
           /\ c.diff \in 0..2 /\ c.coraza \in BOOLEAN /\ c.ml \in {"off", "shadow", "challenge", "block"}
           /\ c.low \in 1..3 /\ c.high \in 1..3 /\ c.logo \in 0..1 /\ c.trust \in {"edge", "behind"}
           /\ c.proxies \in {"none", "nets", "bad"} /\ c.ids \in BOOLEAN /\ c.qf \in BOOLEAN
           /\ c.token \in BOOLEAN /\ c.intel \in BOOLEAN
  BY DEF Config

\* applyDetectSafe changes the scores, and those only to what the body gives.
LEMMA DetectSafe ==
    ASSUME NEW c \in Config, NEW s \in SafeConfig, NEW d, d = applyDetectSafe(c, s)
    PROVE  /\ Kept(c, d, {"low", "high"})
           /\ d.low = setNonEmpty(c.low, s.low) /\ d.high = setNonEmpty(c.high, s.high)
<1>1. setNonEmpty(c.low, s.low) \in 1..3
  <2>1. c.low \in 1..3 /\ s.low \in 0..3
    BY SafeFields, ConfigFields
  <2> QED BY <2>1 DEF setNonEmpty
<1>2. setNonEmpty(c.high, s.high) \in 1..3
  <2>1. c.high \in 1..3 /\ s.high \in 0..3
    BY SafeFields, ConfigFields
  <2> QED BY <2>1 DEF setNonEmpty
<1> QED BY <1>1, <1>2 DEF applyDetectSafe, Kept, Fields, Config

\* applyChallengeSafe changes the challenge flag and its difficulty.
LEMMA ChallengeSafe ==
    ASSUME NEW c \in Config, NEW s \in SafeConfig, NEW d, d = applyChallengeSafe(c, s)
    PROVE  Kept(c, d, {"chal", "diff"}) /\ d.chal = s.chal /\ d.diff = s.diff
  BY SafeFields DEF applyChallengeSafe, Kept, Fields, Config

\* applyUISafe changes the logo, and leaves it if the body has none.
LEMMA UISafe ==
    ASSUME NEW c \in Config, NEW s \in SafeConfig, NEW d, d = applyUISafe(c, s)
    PROVE  Kept(c, d, {"logo"}) /\ d.logo = setNonEmpty(c.logo, s.logo)
<1>1. setNonEmpty(c.logo, s.logo) \in 0..1
  BY SafeFields, ConfigFields DEF setNonEmpty
<1> QED BY <1>1 DEF applyUISafe, Kept, Fields, Config

\* applyTrustSafe takes mode and proxies together or leaves both.
LEMMA TrustSafe ==
    ASSUME NEW c \in Config, NEW s \in SafeConfig, NEW d, d = applyTrustSafe(c, s)
    PROVE  /\ Kept(c, d, {"trust", "proxies"})
           /\ d.trust = (IF s.trust = "" THEN c.trust ELSE s.trust)
           /\ d.proxies = (IF s.trust = "" THEN c.proxies ELSE s.proxies)
<1>1. CASE s.trust = ""
  BY <1>1 DEF applyTrustSafe, Kept
<1>2. CASE s.trust \in {"edge", "behind"}
  <2>1. d = [c EXCEPT !.trust = s.trust, !.proxies = s.proxies]
    BY <1>2 DEF applyTrustSafe
  <2> QED BY <1>2, <2>1, SafeFields DEF Kept, Fields, Config
<1> QED BY <1>1, <1>2, SafeFields

\* applyPrivacySafe leaves the pointer alone that the body leaves out.
LEMMA PrivacySafe ==
    ASSUME NEW c \in Config, NEW s \in SafeConfig, NEW d, d = applyPrivacySafe(c, s)
    PROVE  /\ Kept(c, d, {"ids"})
           /\ d.ids = IF s.ids = Absent THEN c.ids ELSE s.ids
<1>1. CASE s.ids = Absent
  BY <1>1 DEF applyPrivacySafe, Kept
<1>2. CASE s.ids # Absent
  <2>1. d = [c EXCEPT !.ids = s.ids] /\ s.ids \in BOOLEAN
    BY <1>2, SafeFields DEF applyPrivacySafe
  <2> QED BY <1>2, <2>1 DEF Kept, Fields, Config
<1> QED BY <1>1, <1>2

\* applyQFeedsSettings changes the feeds' flag and never drops a token.
LEMMA QFeedsSettings ==
    ASSUME NEW c \in Config, NEW q \in [on : BOOLEAN, token : BOOLEAN], NEW d, d = applyQFeedsSettings(c, q)
    PROVE  /\ Kept(c, d, {"qf", "token"})
           /\ d.qf = q.on /\ d.token = (c.token \/ q.token)
<1>1. (c.token \/ q.token) \in BOOLEAN /\ q.on \in BOOLEAN
  OBVIOUS
<1> DEFINE v == c.token \/ q.token
<1>2. d = [c EXCEPT !.qf = q.on, !.token = v]
  BY DEF applyQFeedsSettings
<1> HIDE DEF v
<1> QED BY <1>1, <1>2 DEF Kept, Fields, Config, v

(* Merged names every field that it may change.                             *)
LEMMA MergedIs ==
    ASSUME NEW c \in Config, NEW s \in SafeConfig, NEW d, d = Merged(c, s)
    PROVE  /\ Kept(c, d, {"prot", "limit", "rate", "chal", "diff", "coraza", "ml", "low", "high", "logo",
                          "trust", "proxies", "ids", "qf", "token"})
           /\ d.prot = s.prot /\ d.limit = s.limit /\ d.chal = s.chal /\ d.diff = s.diff
           /\ d.coraza = s.coraza /\ d.rate = setNonEmpty(c.rate, s.rate)
           /\ d.ml = IF s.ml = "" THEN c.ml ELSE s.ml
           /\ d.low = setNonEmpty(c.low, s.low) /\ d.high = setNonEmpty(c.high, s.high)
           /\ d.logo = setNonEmpty(c.logo, s.logo)
           /\ d.trust = (IF s.trust = "" THEN c.trust ELSE s.trust)
           /\ d.proxies = (IF s.trust = "" THEN c.proxies ELSE s.proxies)
           /\ d.ids = IF s.ids = Absent THEN c.ids ELSE s.ids
           /\ s.qf = Absent => d.qf = c.qf /\ d.token = c.token
           /\ s.qf # Absent => d.qf = s.qf.on /\ d.token = (c.token \/ s.qf.token)
<1> DEFINE v == IF s.ml = "" THEN c.ml ELSE s.ml
           c1 == [c EXCEPT !.coraza = s.coraza, !.ml = v]
           c2 == applyDetectSafe(c1, s)
           c3 == applyChallengeSafe(c2, s)
           c4 == applyUISafe(c3, s)
           c5 == applyTrustSafe(c4, s)
           c6 == applyPrivacySafe(c5, s)
           c7 == IF s.qf = Absent THEN c6 ELSE applyQFeedsSettings(c6, s.qf)
           r == setNonEmpty(c.rate, s.rate)
<1>0. d = [c7 EXCEPT !.prot = s.prot, !.limit = s.limit, !.rate = setNonEmpty(c7.rate, s.rate)]
  BY DEF Merged, OverlaySafe
<1> HIDE DEF v, c1, c2, c3, c4, c5, c6, c7, r
<1>v. v \in {"off", "shadow", "challenge", "block"}
  BY SafeFields, ConfigFields DEF v
<1>1. Kept(c, c1, {"coraza", "ml"}) /\ c1.coraza = s.coraza /\ c1.ml = v
  BY <1>v, SafeFields DEF c1, Kept, Fields, Config
<1>2. /\ Kept(c1, c2, {"low", "high"})
      /\ c2.low = setNonEmpty(c1.low, s.low) /\ c2.high = setNonEmpty(c1.high, s.high)
  BY <1>1, DetectSafe DEF c2, Kept
<1>3. Kept(c2, c3, {"chal", "diff"}) /\ c3.chal = s.chal /\ c3.diff = s.diff
  BY <1>2, ChallengeSafe DEF c3, Kept
<1>4. Kept(c3, c4, {"logo"}) /\ c4.logo = setNonEmpty(c3.logo, s.logo)
  BY <1>3, UISafe DEF c4, Kept
<1>5. /\ Kept(c4, c5, {"trust", "proxies"})
      /\ c5.trust = (IF s.trust = "" THEN c4.trust ELSE s.trust)
      /\ c5.proxies = (IF s.trust = "" THEN c4.proxies ELSE s.proxies)
  <2>1. c4 \in Config /\ c5 = applyTrustSafe(c4, s)
    BY <1>4 DEF Kept, c5
  <2> QED BY <2>1, TrustSafe
<1>6. Kept(c5, c6, {"ids"}) /\ c6.ids = IF s.ids = Absent THEN c5.ids ELSE s.ids
  BY <1>5, PrivacySafe DEF c6, Kept
<1>7. /\ Kept(c6, c7, {"qf", "token"})
      /\ s.qf = Absent => c7.qf = c6.qf /\ c7.token = c6.token
      /\ s.qf # Absent => c7.qf = s.qf.on /\ c7.token = (c6.token \/ s.qf.token)
  <2>1. CASE s.qf = Absent
    BY <2>1, <1>6 DEF c7, Kept
  <2>2. CASE s.qf # Absent
    <3>1. c6 \in Config /\ s.qf \in [on : BOOLEAN, token : BOOLEAN] /\ c7 = applyQFeedsSettings(c6, s.qf)
      BY <2>2, <1>6, SafeFields DEF Kept, c7
    <3> QED BY <2>2, <3>1, QFeedsSettings
  <2> QED BY <2>1, <2>2
<1>f. /\ Kept(c, c2, {"coraza", "ml"} \cup {"low", "high"})
      /\ Kept(c, c3, {"coraza", "ml"} \cup {"low", "high"} \cup {"chal", "diff"})
      /\ Kept(c, c4, {"coraza", "ml"} \cup {"low", "high"} \cup {"chal", "diff"} \cup {"logo"})
      /\ Kept(c, c5, {"coraza", "ml"} \cup {"low", "high"} \cup {"chal", "diff"} \cup {"logo"} \cup {"trust", "proxies"})
      /\ Kept(c, c6, {"coraza", "ml"} \cup {"low", "high"} \cup {"chal", "diff"} \cup {"logo"} \cup {"trust", "proxies"}
                       \cup {"ids"})
      /\ Kept(c, c7, {"coraza", "ml"} \cup {"low", "high"} \cup {"chal", "diff"} \cup {"logo"} \cup {"trust", "proxies"}
                       \cup {"ids"} \cup {"qf", "token"})
  BY <1>1, <1>2, <1>3, <1>4, <1>5, <1>6, <1>7, KeptTrans, Zenon
<1>8. c7.rate = c.rate
  BY <1>f DEF Kept, Fields
<1>9. r \in 1..2
  <2>1. c.rate \in 1..2 /\ s.rate \in 0..2
    BY SafeFields, ConfigFields
  <2> QED BY <2>1 DEF setNonEmpty, r
<1>10. d = [c7 EXCEPT !.prot = s.prot, !.limit = s.limit, !.rate = r]
  BY <1>0, <1>8 DEF r
<1>11. Kept(c7, d, {"prot", "limit", "rate"}) /\ d.prot = s.prot /\ d.limit = s.limit /\ d.rate = r
  <2>1. c7 \in Config /\ s.prot \in BOOLEAN /\ s.limit \in BOOLEAN
    BY <1>7, SafeFields DEF Kept
  <2> QED BY <2>1, <1>9, <1>10 DEF Kept, Fields, Config
<1>a. /\ c1.low = c.low /\ c1.high = c.high
      /\ c3.logo = c.logo /\ c4.trust = c.trust /\ c4.proxies = c.proxies
      /\ c5.ids = c.ids /\ c6.qf = c.qf /\ c6.token = c.token
  <2>1. c1.low = c.low /\ c1.high = c.high
    BY <1>1 DEF Kept, Fields
  <2>2. c3.logo = c.logo
    BY <1>f DEF Kept, Fields
  <2>3. c4.trust = c.trust /\ c4.proxies = c.proxies
    BY <1>f DEF Kept, Fields
  <2>4. c5.ids = c.ids
    BY <1>f DEF Kept, Fields
  <2>5. c6.qf = c.qf /\ c6.token = c.token
    BY <1>f DEF Kept, Fields
  <2> QED BY <2>1, <2>2, <2>3, <2>4, <2>5
<1>g. /\ Kept(c6, d, {"qf", "token"} \cup {"prot", "limit", "rate"})
      /\ Kept(c5, d, {"ids"} \cup ({"qf", "token"} \cup {"prot", "limit", "rate"}))
      /\ Kept(c4, d, {"trust", "proxies"} \cup ({"ids"} \cup ({"qf", "token"} \cup {"prot", "limit", "rate"})))
      /\ Kept(c3, d, {"logo"} \cup ({"trust", "proxies"} \cup ({"ids"} \cup ({"qf", "token"} \cup {"prot", "limit", "rate"}))))
      /\ Kept(c2, d, {"chal", "diff"} \cup ({"logo"} \cup ({"trust", "proxies"} \cup ({"ids"} \cup ({"qf", "token"}
                        \cup {"prot", "limit", "rate"})))))
      /\ Kept(c1, d, {"low", "high"} \cup ({"chal", "diff"} \cup ({"logo"} \cup ({"trust", "proxies"} \cup ({"ids"}
                        \cup ({"qf", "token"} \cup {"prot", "limit", "rate"}))))))
  BY <1>2, <1>3, <1>4, <1>5, <1>6, <1>7, <1>11, KeptTrans, Zenon
<1>b. /\ d.coraza = c1.coraza /\ d.ml = c1.ml /\ d.low = c2.low /\ d.high = c2.high /\ d.chal = c3.chal
      /\ d.diff = c3.diff /\ d.logo = c4.logo /\ d.trust = c5.trust /\ d.proxies = c5.proxies /\ d.ids = c6.ids
      /\ d.qf = c7.qf /\ d.token = c7.token
  <2>1. d.coraza = c1.coraza /\ d.ml = c1.ml
    BY <1>g DEF Kept, Fields
  <2>2. d.low = c2.low /\ d.high = c2.high
    BY <1>g DEF Kept, Fields
  <2>3. d.chal = c3.chal /\ d.diff = c3.diff
    BY <1>g DEF Kept, Fields
  <2>4. d.logo = c4.logo
    BY <1>g DEF Kept, Fields
  <2>5. d.trust = c5.trust /\ d.proxies = c5.proxies
    BY <1>g DEF Kept, Fields
  <2>6. d.ids = c6.ids /\ d.qf = c7.qf /\ d.token = c7.token
    BY <1>g, <1>11 DEF Kept, Fields
  <2> QED BY <2>1, <2>2, <2>3, <2>4, <2>5, <2>6
<1>c. Kept(c, d, {"prot", "limit", "rate", "chal", "diff", "coraza", "ml", "low", "high", "logo",
                          "trust", "proxies", "ids", "qf", "token"})
  BY <1>f, <1>11 DEF Kept, Fields
<1> QED BY <1>a, <1>b, <1>c, <1>1, <1>2, <1>3, <1>4, <1>5, <1>6, <1>7, <1>11 DEF v, r

\* UpdateLive stores back what the engines made of their two settings.
LEMMA UpdateLiveIs ==
    ASSUME NEW c \in Config, NEW d, d = UpdateLive(c)
    PROVE  Kept(c, d, {"coraza", "ml"}) /\ d.coraza = CorazaLive(c.coraza) /\ d.ml = MLLive(c.ml)
<1> DEFINE v == CorazaLive(c.coraza)
           w == MLLive(c.ml)
<1>1. v \in BOOLEAN
  BY DEF CorazaLive
<1>2. w \in {"off", "shadow", "challenge", "block"}
  BY ConfigFields DEF MLLive
<1>3. d = [c EXCEPT !.coraza = v, !.ml = w]
  BY DEF UpdateLive
<1> HIDE DEF v, w
<1> QED BY <1>1, <1>2, <1>3 DEF Kept, Fields, Config, v, w

\* The fields of the runtime that main has built.
LEMMA RuntimeFields ==
    ASSUME NEW p \in Runtime
    PROVE  /\ p.cfg \in Config /\ p.pipe \in Config /\ p.engines \in Config /\ p.flag \in BOOLEAN
           /\ p.nets \in {"none", "nets"} /\ p.feeds \in {Absent} \cup [token : BOOLEAN]
           /\ p.limiter \in {Absent} \cup [rate : 1..2] /\ p.guard \in {Absent} \cup [on : BOOLEAN]
           /\ p.mgr \in {Absent} \cup Manager
  BY DEF Runtime

\* A feed cache that exists has the token of the configuration.
LEMMA SyncQFeeds ==
    ASSUME NEW feeds \in {Absent} \cup [token : BOOLEAN], NEW c \in Config, NEW g,
           g = syncQFeedsLocked(feeds, c)
    PROVE  g \in {Absent} \cup [token : BOOLEAN] /\ (g # Absent => g.token = c.token)
<1>1. c.token \in BOOLEAN
  BY ConfigFields
<1> QED BY <1>1 DEF syncQFeedsLocked

\* A manager takes a positive difficulty and keeps its own otherwise.
LEMMA ApplyLiveIs ==
    ASSUME NEW m \in Manager, NEW d \in 0..2, NEW n, n = ApplyLive(m, d)
    PROVE  n \in Manager /\ n # Absent /\ (d > 0 => liveSettings(n) = d)
<1> DEFINE v == IF d > 0 THEN d ELSE liveSettings(m)
<1>1. m.diff \in 0..2 /\ m.live \in {Absent} \cup 0..2
  BY DEF Manager
<1>2. v \in 0..2 /\ (d > 0 => v = d)
  BY <1>1 DEF liveSettings
<1>3. n = [m EXCEPT !.live = v]
  BY DEF ApplyLive
<1> HIDE DEF v
<1>4. n \in Manager /\ n.live = v
  BY <1>2, <1>3 DEF Manager
<1>5. v # Absent
  BY <1>2, AbsentIsNoValue
<1> QED BY <1>2, <1>4, <1>5, AbsentIsNoValue DEF liveSettings

(* What the pipeline, the challenge manager and the limiter make of c.      *)
LEMMA ApplyConfigIs ==
    ASSUME NEW p \in Runtime, NEW c \in Config, NEW q, q = ApplyConfig(p, c)
    PROVE  /\ q \in Runtime /\ q.cfg = p.cfg /\ q.pipe = c /\ q.engines = p.engines /\ q.flag = p.flag
           /\ q.feeds = p.feeds /\ q.guard = p.guard
           /\ c.proxies # "bad" => q.nets = c.proxies
           /\ q.mgr # Absent /\ c.diff > 0 => liveSettings(q.mgr) = c.diff
           /\ q.limiter # Absent => q.limiter.rate = c.rate
<1> DEFINE n == IF c.proxies = "bad" THEN p.nets ELSE c.proxies
           m == IF p.mgr = Absent THEN Absent ELSE ApplyLive(p.mgr, c.diff)
           l == IF p.limiter = Absent THEN Absent ELSE [rate |-> c.rate]
<1>1. n \in {"none", "nets"} /\ (c.proxies # "bad" => n = c.proxies)
  BY RuntimeFields, ConfigFields
<1>2. m \in {Absent} \cup Manager /\ (m # Absent /\ c.diff > 0 => liveSettings(m) = c.diff)
  <2>1. c.diff \in 0..2 /\ (p.mgr # Absent => p.mgr \in Manager)
    BY RuntimeFields, ConfigFields
  <2> QED BY <2>1, ApplyLiveIs
<1>3. l \in {Absent} \cup [rate : 1..2] /\ (l # Absent => l.rate = c.rate)
  BY ConfigFields
<1>4. q = [p EXCEPT !.pipe = c, !.nets = n, !.mgr = m, !.limiter = l]
  BY DEF ApplyConfig
<1> HIDE DEF n, m, l
<1>5. q \in Runtime
  BY <1>1, <1>2, <1>3, <1>4 DEF Runtime
<1>6. /\ q.cfg = p.cfg /\ q.pipe = c /\ q.engines = p.engines /\ q.flag = p.flag
      /\ q.feeds = p.feeds /\ q.guard = p.guard /\ q.nets = n /\ q.mgr = m /\ q.limiter = l
  BY <1>4 DEF Runtime
<1> QED BY <1>1, <1>2, <1>3, <1>5, <1>6

\* Setting the field of the manager leaves everything else alone.
LEMMA SetDifficultyIs ==
    ASSUME NEW p \in Runtime, NEW d \in 0..2, NEW q, q = [p EXCEPT !.mgr = SetDifficulty(@, d)]
    PROVE  q \in Runtime /\ q.feeds = p.feeds /\ q.guard = p.guard
<1> DEFINE m == SetDifficulty(p.mgr, d)
<1>1. m \in {Absent} \cup Manager
  BY RuntimeFields DEF SetDifficulty, Manager
<1>2. q = [p EXCEPT !.mgr = m]
  OBVIOUS
<1> HIDE DEF m
<1> QED BY <1>1, <1>2 DEF Runtime

\* ApplySafeConfig gives the merged settings to every component that exists.
LEMMA ApplySafeConfigIs ==
    ASSUME NEW p \in Runtime, NEW s \in SafeConfig, NEW q, q = ApplySafeConfig(p, s), NEW d,
           d = UpdateLive(Merged(p.cfg, s))
    PROVE  /\ d \in Config
           /\ q \in Runtime /\ q.cfg = d /\ q.pipe = d /\ q.engines = d /\ q.flag = d.chal
           /\ s.qf = Absent => q.feeds = p.feeds
           /\ s.qf # Absent => (q.feeds # Absent => q.feeds.token = d.token)
           /\ q.guard # Absent => q.guard.on = d.prot
           /\ d.proxies # "bad" => q.nets = d.proxies
           /\ q.mgr # Absent /\ d.diff > 0 => liveSettings(q.mgr) = d.diff
           /\ q.limiter # Absent => q.limiter.rate = d.rate
<1> DEFINE b == [p EXCEPT !.mgr = SetDifficulty(@, d.diff)]
           a == ApplyConfig(b, d)
           g == IF p.guard = Absent THEN Absent ELSE [on |-> d.prot]
           f == IF s.qf = Absent THEN p.feeds ELSE syncQFeedsLocked(p.feeds, d)
<1>1. d \in Config
  BY RuntimeFields, MergedIs, UpdateLiveIs DEF Kept
<1>2. /\ a \in Runtime /\ a.pipe = d
      /\ a.feeds = p.feeds /\ a.guard = p.guard
      /\ d.proxies # "bad" => a.nets = d.proxies
      /\ a.mgr # Absent /\ d.diff > 0 => liveSettings(a.mgr) = d.diff
      /\ a.limiter # Absent => a.limiter.rate = d.rate
  <2>1. b \in Runtime /\ b.feeds = p.feeds /\ b.guard = p.guard
    BY <1>1, ConfigFields, SetDifficultyIs
  <2> HIDE DEF b
  <2> QED BY <1>1, <2>1, ApplyConfigIs
<1>3. g \in {Absent} \cup [on : BOOLEAN] /\ (g # Absent => g.on = d.prot)
  BY <1>1, ConfigFields
<1>4. /\ f \in {Absent} \cup [token : BOOLEAN]
      /\ s.qf = Absent => f = p.feeds
      /\ s.qf # Absent => (f # Absent => f.token = d.token)
  BY <1>1, RuntimeFields, SyncQFeeds
<1>5. q = [a EXCEPT !.cfg = d, !.flag = d.chal, !.engines = d, !.guard = g, !.feeds = f]
  BY <1>2 DEF ApplySafeConfig
<1>6. d.chal \in BOOLEAN
  BY <1>1, ConfigFields
<1> HIDE DEF a, g, f
<1>7. q \in Runtime
  BY <1>1, <1>2, <1>3, <1>4, <1>5, <1>6 DEF Runtime
<1>8. /\ q.cfg = d /\ q.pipe = a.pipe /\ q.engines = d /\ q.flag = d.chal
      /\ q.feeds = f /\ q.guard = g /\ q.nets = a.nets /\ q.mgr = a.mgr /\ q.limiter = a.limiter
  BY <1>2, <1>5 DEF Runtime
<1> QED BY <1>1, <1>2, <1>3, <1>4, <1>7, <1>8

\* ApplyQFeeds touches the configuration and the feed cache alone.
LEMMA ApplyQFeedsIs ==
    ASSUME NEW p \in Runtime, NEW q \in [on : BOOLEAN, token : BOOLEAN], NEW r, r = ApplyQFeeds(p, q)
    PROVE  /\ r \in Runtime /\ r.pipe = p.pipe /\ r.engines = p.engines /\ r.flag = p.flag /\ r.nets = p.nets
           /\ r.guard = p.guard /\ r.mgr = p.mgr /\ r.limiter = p.limiter
           /\ r.cfg = applyQFeedsSettings(p.cfg, q)
           /\ r.feeds # Absent => r.feeds.token = r.cfg.token
<1> DEFINE d == applyQFeedsSettings(p.cfg, q)
           f == syncQFeedsLocked(p.feeds, d)
<1>1. d \in Config
  BY RuntimeFields, QFeedsSettings DEF Kept
<1>2. f \in {Absent} \cup [token : BOOLEAN] /\ (f # Absent => f.token = d.token)
  BY <1>1, RuntimeFields, SyncQFeeds
<1>3. r = [p EXCEPT !.cfg = d, !.feeds = f]
  BY DEF ApplyQFeeds
<1> HIDE DEF d, f
<1>4. r \in Runtime
  BY <1>1, <1>2, <1>3 DEF Runtime
<1>5. /\ r.pipe = p.pipe /\ r.engines = p.engines /\ r.flag = p.flag /\ r.nets = p.nets
      /\ r.guard = p.guard /\ r.mgr = p.mgr /\ r.limiter = p.limiter /\ r.cfg = d /\ r.feeds = f
  BY <1>3 DEF Runtime
<1> QED BY <1>2, <1>4, <1>5 DEF d

\* The first half of ReplaceConfig touches the configuration alone.
LEMMA ReplaceConfigIs ==
    ASSUME NEW p \in Runtime, NEW c \in Config, NEW q, q = ReplaceConfig(p, c)
    PROVE  /\ q \in Runtime /\ q.cfg = c /\ q.flag = p.flag /\ q.pipe = p.pipe /\ q.engines = p.engines
           /\ q.nets = p.nets /\ q.guard = p.guard /\ q.mgr = p.mgr /\ q.limiter = p.limiter /\ q.feeds = p.feeds
  BY DEF ReplaceConfig, Runtime

\* The second half touches the flag of the challenges alone.
LEMMA StoreEnabledIs ==
    ASSUME NEW p \in Runtime, NEW c \in Config, NEW q, q = StoreEnabled(p, c)
    PROVE  /\ q \in Runtime /\ q.cfg = p.cfg /\ q.flag = c.chal /\ q.pipe = p.pipe /\ q.engines = p.engines
           /\ q.nets = p.nets /\ q.guard = p.guard /\ q.mgr = p.mgr /\ q.limiter = p.limiter /\ q.feeds = p.feeds
<1>1. c.chal \in BOOLEAN
  BY ConfigFields
<1> QED BY <1>1 DEF StoreEnabled, Runtime

(* The values of the fields of a body, by name.                             *)
BodyIds == BOOLEAN \cup {Absent}
BodyFeeds == {Absent} \cup [on : BOOLEAN, token : BOOLEAN]
BodyRate == 0..2
BodyScore == 0..3
BodyBit == 0..1
BodyML == {"", "off", "shadow", "challenge", "block"}
BodyTrust == {"", "edge", "behind"}
BodyProxies == {"none", "nets", "bad"}

\* SafeConfig with its fields' values by name.
LEMMA SafeSets ==
    SafeConfig = [prot : BOOLEAN, limit : BOOLEAN, rate : BodyRate, chal : BOOLEAN, diff : BodyRate,
                  coraza : BOOLEAN, ml : BodyML, low : BodyScore, high : BodyScore, logo : BodyBit,
                  trust : BodyTrust, proxies : BodyProxies, ids : BodyIds, qf : BodyFeeds]
  BY DEF SafeConfig, BodyIds, BodyFeeds, BodyRate, BodyScore, BodyBit, BodyML, BodyTrust, BodyProxies

\* What ConfigView shows is a body PUT /config could have sent.
LEMMA ConfigViewType ==
    ASSUME NEW p \in Runtime
    PROVE  ConfigView(p) \in SafeConfig
<1>1. p.cfg \in Config /\ p.engines \in Config
  BY RuntimeFields
<1> DEFINE q == [on |-> p.cfg.qf, token |-> FALSE]
<1>2. q \in BodyFeeds
  BY <1>1, ConfigFields DEF BodyFeeds
<1>3. p.cfg.ids \in BodyIds
  BY <1>1, ConfigFields DEF BodyIds
<1>4. ConfigView(p) =
    [prot |-> p.cfg.prot, limit |-> p.cfg.limit, rate |-> p.cfg.rate, chal |-> p.cfg.chal,
     diff |-> p.cfg.diff, coraza |-> p.engines.coraza, ml |-> p.engines.ml, low |-> p.cfg.low,
     high |-> p.cfg.high, logo |-> p.cfg.logo, trust |-> p.cfg.trust, proxies |-> p.cfg.proxies,
     ids |-> p.cfg.ids, qf |-> q]
  BY DEF ConfigView
<1> HIDE DEF q
<1>5. p.cfg.rate \in BodyRate /\ p.cfg.low \in BodyScore /\ p.cfg.high \in BodyScore
  BY <1>1, ConfigFields DEF BodyRate, BodyScore
<1>6. p.cfg.logo \in BodyBit /\ p.cfg.diff \in BodyRate
  BY <1>1, ConfigFields DEF BodyBit, BodyRate
<1>7. p.engines.coraza \in BOOLEAN /\ p.engines.ml \in BodyML /\ p.cfg.trust \in BodyTrust /\ p.cfg.proxies \in BodyProxies
  BY <1>1, ConfigFields DEF BodyML, BodyTrust, BodyProxies
<1>8. p.cfg.prot \in BOOLEAN /\ p.cfg.limit \in BOOLEAN /\ p.cfg.chal \in BOOLEAN
  BY <1>1, ConfigFields
<1> QED BY <1>2, <1>3, <1>4, <1>5, <1>6, <1>7, <1>8, SafeSets

(* Two bodies that differ in the feeds and the logo at most.                *)
Same(s, t) ==
    /\ s.prot = t.prot /\ s.limit = t.limit /\ s.rate = t.rate /\ s.chal = t.chal /\ s.diff = t.diff
    /\ s.coraza = t.coraza /\ s.ml = t.ml /\ s.low = t.low /\ s.high = t.high /\ s.trust = t.trust
    /\ s.proxies = t.proxies /\ s.ids = t.ids

\* The empty blob is a body.
LEMMA BlankType == Blank \in SafeConfig
<1>1. Absent \in BodyIds /\ Absent \in BodyFeeds
  BY DEF BodyIds, BodyFeeds
<1>2. 0 \in BodyRate /\ 0 \in BodyScore /\ 0 \in BodyBit /\ "" \in BodyML /\ "" \in BodyTrust /\ "none" \in BodyProxies
  BY DEF BodyRate, BodyScore, BodyBit, BodyML, BodyTrust, BodyProxies
<1> QED BY <1>1, <1>2, SafeSets DEF Blank

\* MergeAndEncode changes only the feeds and the logo of the blob it is given.
LEMMA MergeAndEncodeIs ==
    ASSUME NEW blob \in {Absent} \cup SafeConfig, NEW q \in BodyFeeds, NEW logo \in BodyBit, NEW t,
           t = MergeAndEncode(blob, q, logo)
    PROVE  /\ t \in SafeConfig
           /\ blob # Absent => /\ Same(blob, t)
                               /\ t.qf = IF q = Absent THEN blob.qf ELSE q
                               /\ t.logo = setNonEmpty(blob.logo, logo)
<1> DEFINE s == IF blob = Absent THEN Blank ELSE blob
           f == IF q = Absent THEN s.qf ELSE q
           l == setNonEmpty(s.logo, logo)
<1>1. s \in SafeConfig
  BY BlankType
<1>2. t = [s EXCEPT !.qf = f, !.logo = l]
  BY DEF MergeAndEncode, DecodeSafeConfig
<1>3. blob # Absent => s = blob
  OBVIOUS
<1> HIDE DEF s
<1>4. s.qf \in BodyFeeds /\ s.logo \in BodyBit
  BY <1>1, SafeSets
<1>5. f \in BodyFeeds
  BY <1>4
<1>6. l \in BodyBit
  BY <1>4 DEF setNonEmpty
<1>7. (s.qf = f \/ q # Absent) /\ f = (IF q = Absent THEN s.qf ELSE q) /\ l = setNonEmpty(s.logo, logo)
  OBVIOUS
<1> HIDE DEF f, l
<1>8. t \in SafeConfig
  BY <1>1, <1>2, <1>5, <1>6, SafeSets
<1>9. Same(s, t) /\ t.qf = f /\ t.logo = l
  BY <1>1, <1>2, SafeSets DEF Same
<1> QED BY <1>3, <1>7, <1>8, <1>9

\* What a save of the feeds or the logo says is what the merge makes of it.
LEMMA Words ==
    ASSUME NEW s \in SafeConfig
    PROVE  /\ \A q \in [on : BOOLEAN, token : BOOLEAN] : MergeAndEncode(s, q, 0) = [s EXCEPT !.qf = q]
           /\ MergeAndEncode(s, Absent, 1) = [s EXCEPT !.logo = 1]
<1>1. s # Absent
  BY AbsentIsNoValue
<1>2. ASSUME NEW q \in [on : BOOLEAN, token : BOOLEAN]
      PROVE  MergeAndEncode(s, q, 0) = [s EXCEPT !.qf = q]
  <2>1. q # Absent
    BY AbsentIsNoValue
  <2>2. MergeAndEncode(s, q, 0) = [s EXCEPT !.qf = q, !.logo = s.logo]
    BY <1>1, <2>1 DEF MergeAndEncode, DecodeSafeConfig, setNonEmpty
  <2> QED BY <2>2, SafeSets
<1>3. MergeAndEncode(s, Absent, 1) = [s EXCEPT !.logo = 1]
  <2>1. MergeAndEncode(s, Absent, 1) = [s EXCEPT !.qf = s.qf, !.logo = 1]
    BY <1>1 DEF MergeAndEncode, DecodeSafeConfig, setNonEmpty
  <2> QED BY <2>1, SafeSets
<1> QED BY <1>2, <1>3

(* What configuration c has of the settings that body s names.              *)
Carries(c, s) ==
    /\ c.prot = s.prot /\ c.limit = s.limit /\ c.chal = s.chal /\ c.diff = s.diff
    /\ c.coraza = CorazaLive(s.coraza)
    /\ (s.rate = 0 \/ c.rate = s.rate) /\ (s.low = 0 \/ c.low = s.low) /\ (s.high = 0 \/ c.high = s.high)
    /\ s.ml = "" \/ c.ml = MLLive(s.ml)
    /\ s.trust = "" \/ (c.trust = s.trust /\ c.proxies = s.proxies)
    /\ s.ids = Absent \/ c.ids = s.ids
    /\ s.qf = Absent \/ (c.qf = s.qf.on /\ (s.qf.token => c.token))

CarriesLogo(c, s) == s.logo = 0 \/ c.logo = s.logo

(* A body that is applied is carried, the administration stays on, and a
   trust section that is complete, in configuration and body, stays
   complete.                                                                *)
LEMMA AppliedCarries ==
    ASSUME NEW c \in Config, NEW s \in SafeConfig, NEW d, d = UpdateLive(Merged(c, s))
    PROVE  /\ d \in Config /\ Carries(d, s) /\ CarriesLogo(d, s) /\ d.admin = c.admin
           /\ ValidTrust(c) /\ validateSafeConfig(s) => ValidTrust(d)
           /\ s.qf = Absent => d.token = c.token
<1> DEFINE m == Merged(c, s)
<1>1. /\ m \in Config /\ m.admin = c.admin
      /\ m.prot = s.prot /\ m.limit = s.limit /\ m.chal = s.chal /\ m.diff = s.diff
      /\ m.coraza = s.coraza /\ m.rate = setNonEmpty(c.rate, s.rate)
      /\ m.ml = IF s.ml = "" THEN c.ml ELSE s.ml
      /\ m.low = setNonEmpty(c.low, s.low) /\ m.high = setNonEmpty(c.high, s.high)
      /\ m.logo = setNonEmpty(c.logo, s.logo)
      /\ m.trust = (IF s.trust = "" THEN c.trust ELSE s.trust)
      /\ m.proxies = (IF s.trust = "" THEN c.proxies ELSE s.proxies)
      /\ m.ids = IF s.ids = Absent THEN c.ids ELSE s.ids
      /\ s.qf = Absent => m.qf = c.qf /\ m.token = c.token
      /\ s.qf # Absent => m.qf = s.qf.on /\ m.token = (c.token \/ s.qf.token)
  <2>1. /\ Kept(c, m, {"prot", "limit", "rate", "chal", "diff", "coraza", "ml", "low", "high", "logo",
                      "trust", "proxies", "ids", "qf", "token"})
    BY MergedIs
  <2>2. m.admin = c.admin /\ m \in Config
    BY <2>1 DEF Kept, Fields
  <2>3. m = Merged(c, s)
    OBVIOUS
  <2> HIDE DEF m
  <2>4. s.qf # Absent => m.qf = s.qf.on /\ m.token = (c.token \/ s.qf.token)
    BY <2>3, MergedIs
  <2>51. m.prot = s.prot
    BY <2>3, MergedIs
  <2>52. m.limit = s.limit /\ m.chal = s.chal
    BY <2>3, MergedIs
  <2>53. m.diff = s.diff
    BY <2>3, MergedIs
  <2>54. m.coraza = s.coraza
    BY <2>3, MergedIs
  <2>5. /\ m.rate = setNonEmpty(c.rate, s.rate)
        /\ m.low = setNonEmpty(c.low, s.low) /\ m.high = setNonEmpty(c.high, s.high)
        /\ m.logo = setNonEmpty(c.logo, s.logo)
    BY <2>3, MergedIs
  <2>6. m.ml = IF s.ml = "" THEN c.ml ELSE s.ml
    BY <2>3, MergedIs
  <2>7. m.trust = (IF s.trust = "" THEN c.trust ELSE s.trust)
    BY <2>3, MergedIs
  <2>8. m.proxies = (IF s.trust = "" THEN c.proxies ELSE s.proxies)
    BY <2>3, MergedIs
  <2>9. m.ids = IF s.ids = Absent THEN c.ids ELSE s.ids
    BY <2>3, MergedIs
  <2>10. s.qf = Absent => m.qf = c.qf /\ m.token = c.token
    BY <2>3, MergedIs
  <2> QED BY <2>2, <2>4, <2>51, <2>52, <2>53, <2>54, <2>5, <2>6, <2>7, <2>8, <2>9, <2>10
<1> HIDE DEF m
<1>2. Kept(m, d, {"coraza", "ml"}) /\ d.coraza = CorazaLive(m.coraza) /\ d.ml = MLLive(m.ml)
  BY <1>1, UpdateLiveIs DEF m
<1>3. /\ d.admin = m.admin /\ d.prot = m.prot /\ d.limit = m.limit /\ d.chal = m.chal /\ d.diff = m.diff
      /\ d.rate = m.rate /\ d.low = m.low /\ d.high = m.high /\ d.logo = m.logo /\ d.trust = m.trust
      /\ d.proxies = m.proxies /\ d.ids = m.ids /\ d.qf = m.qf /\ d.token = m.token
  BY <1>2 DEF Kept, Fields
<1>4. Carries(d, s)
  <2>1. /\ d.prot = s.prot /\ d.limit = s.limit /\ d.chal = s.chal /\ d.diff = s.diff
        /\ d.coraza = CorazaLive(s.coraza)
    BY <1>1, <1>2, <1>3
  <2>2. (s.rate = 0 \/ d.rate = s.rate) /\ (s.low = 0 \/ d.low = s.low) /\ (s.high = 0 \/ d.high = s.high)
    BY <1>1, <1>3 DEF setNonEmpty
  <2>3. s.ml = "" \/ d.ml = MLLive(s.ml)
    BY <1>1, <1>2
  <2>4. s.trust = "" \/ (d.trust = s.trust /\ d.proxies = s.proxies)
    BY <1>1, <1>3
  <2>5. s.ids = Absent \/ d.ids = s.ids
    BY <1>1, <1>3
  <2>6. s.qf = Absent \/ (d.qf = s.qf.on /\ (s.qf.token => d.token))
    <3>1. CASE s.qf # Absent
      <4>1. d.qf = s.qf.on /\ d.token = (c.token \/ s.qf.token)
        BY <1>1, <1>3, <3>1
      <4>2. s.qf.token => d.token
        BY <4>1
      <4> QED BY <4>1, <4>2
    <3> QED BY <3>1
  <2> QED BY <2>1, <2>2, <2>3, <2>4, <2>5, <2>6 DEF Carries
<1>5. CarriesLogo(d, s)
  BY <1>1, <1>3 DEF setNonEmpty, CarriesLogo
<1>6. ASSUME ValidTrust(c), validateSafeConfig(s)
      PROVE  ValidTrust(d)
  <2>1. d.trust = (IF s.trust = "" THEN c.trust ELSE s.trust) /\ d.proxies = (IF s.trust = "" THEN c.proxies ELSE s.proxies)
    BY <1>1, <1>3
  <2> QED BY <1>6, <2>1, SafeFields DEF ValidTrust, validateSafeConfig
<1> QED BY <1>1, <1>2, <1>3, <1>4, <1>5, <1>6 DEF Kept

\* Saving the feeds keeps the blob and the configuration in step.
LEMMA FeedsCarry ==
    ASSUME NEW c \in Config, NEW s \in SafeConfig, NEW q \in [on : BOOLEAN, token : BOOLEAN], Carries(c, s),
           NEW d, d = applyQFeedsSettings(c, q), NEW t, t = MergeAndEncode(s, q, 0)
    PROVE  /\ d \in Config /\ t \in SafeConfig /\ Carries(d, t)
           /\ CarriesLogo(c, s) => CarriesLogo(d, t)
<1>1. q # Absent /\ q \in BodyFeeds /\ 0 \in BodyBit /\ s # Absent
  BY AbsentIsNoValue DEF BodyFeeds, BodyBit
<1>2. t \in SafeConfig /\ Same(s, t) /\ t.qf = q /\ t.logo = s.logo
  <2>1. t \in SafeConfig /\ Same(s, t) /\ t.qf = (IF q = Absent THEN s.qf ELSE q) /\ t.logo = setNonEmpty(s.logo, 0)
    BY <1>1, MergeAndEncodeIs
  <2> QED BY <2>1, <1>1 DEF setNonEmpty
<1>3. Kept(c, d, {"qf", "token"}) /\ d.qf = q.on /\ d.token = (c.token \/ q.token)
  BY QFeedsSettings
<1>4. /\ d.prot = c.prot /\ d.limit = c.limit /\ d.chal = c.chal /\ d.diff = c.diff /\ d.coraza = c.coraza
      /\ d.ml = c.ml
      /\ d.rate = c.rate /\ d.low = c.low /\ d.high = c.high /\ d.logo = c.logo /\ d.trust = c.trust
      /\ d.proxies = c.proxies /\ d.ids = c.ids
  BY <1>3 DEF Kept, Fields
<1>5. t.qf = Absent \/ (d.qf = t.qf.on /\ (t.qf.token => d.token))
  BY <1>2, <1>3
<1>6. Carries(d, t)
  <2>1. /\ d.prot = t.prot /\ d.limit = t.limit /\ d.chal = t.chal /\ d.diff = t.diff
        /\ d.coraza = CorazaLive(t.coraza)
    BY <1>2, <1>4 DEF Carries, Same
  <2>2. (t.rate = 0 \/ d.rate = t.rate) /\ (t.low = 0 \/ d.low = t.low) /\ (t.high = 0 \/ d.high = t.high)
    BY <1>2, <1>4 DEF Carries, Same
  <2>3. /\ t.ml = "" \/ d.ml = MLLive(t.ml)
        /\ t.trust = "" \/ (d.trust = t.trust /\ d.proxies = t.proxies)
        /\ t.ids = Absent \/ d.ids = t.ids
    BY <1>2, <1>4 DEF Carries, Same
  <2> QED BY <2>1, <2>2, <2>3, <1>5 DEF Carries
<1> QED BY <1>2, <1>3, <1>4, <1>6 DEF Kept, CarriesLogo

(* A change of logo and intelligence section does not disturb the other
   settings a body named.                                                   *)
LEMMA OthersCarry ==
    ASSUME NEW c \in Config, NEW s \in SafeConfig, Carries(c, s), NEW d, Kept(c, d, {"logo", "intel"}),
           NEW t \in SafeConfig, Same(s, t), t.qf = s.qf
    PROVE  Carries(d, t)
<1>4. /\ d.prot = c.prot /\ d.limit = c.limit /\ d.chal = c.chal /\ d.diff = c.diff /\ d.coraza = c.coraza
      /\ d.ml = c.ml
      /\ d.rate = c.rate /\ d.low = c.low /\ d.high = c.high /\ d.trust = c.trust
      /\ d.proxies = c.proxies /\ d.ids = c.ids /\ d.qf = c.qf /\ d.token = c.token
  BY DEF Kept, Fields
<1> QED BY <1>4 DEF Carries, Same

(* The pipeline's trust section is complete, and a list that parses is in
   force.                                                                   *)
PipeTrust(p) == ValidTrust(p.pipe) /\ (p.pipe.proxies # "bad" => p.nets = p.pipe.proxies)

(* Everything that runs has the settings of the configuration, but for the
   logo, which the pipeline may still be waiting for.                       *)
Agree(p) ==
    /\ Kept(p.cfg, p.pipe, {"qf", "token", "intel", "logo"})
    /\ p.engines.coraza = p.cfg.coraza /\ p.engines.ml = p.cfg.ml
    /\ p.flag = p.cfg.chal
    /\ p.cfg.proxies # "bad" => p.nets = p.cfg.proxies
    /\ p.guard # Absent => p.guard.on = p.cfg.prot
    /\ p.mgr # Absent /\ p.cfg.diff > 0 => liveSettings(p.mgr) = p.cfg.diff
    /\ p.limiter # Absent => p.limiter.rate = p.cfg.rate
    /\ p.feeds # Absent => p.feeds.token = p.cfg.token

\* What main builds agrees with the configuration it is built from.
LEMMA NewRuntimeIs ==
    ASSUME NEW c \in Config, c.proxies # "bad", NEW p, p = NewRuntime(c)
    PROVE  p \in Runtime /\ p.cfg = c /\ p.pipe = c /\ p.nets = c.proxies /\ Agree(p)
<1>1. /\ NewFeeds(c) \in {Absent} \cup [token : BOOLEAN]
      /\ NewFeeds(c) # Absent => NewFeeds(c).token = c.token
  BY ConfigFields DEF NewFeeds
<1>2. /\ NewLimiter(c) \in {Absent} \cup [rate : 1..2]
      /\ NewLimiter(c) # Absent => NewLimiter(c).rate = c.rate
  BY ConfigFields DEF NewLimiter
<1>3. /\ NewGuard(c) \in {Absent} \cup [on : BOOLEAN]
      /\ NewGuard(c) # Absent => NewGuard(c).on = c.prot
  BY ConfigFields DEF NewGuard
<1>4. /\ NewManager(c) \in {Absent} \cup Manager
      /\ NewManager(c) # Absent => liveSettings(NewManager(c)) = c.diff
  BY ConfigFields DEF NewManager, Manager, liveSettings
<1>5. c.chal \in BOOLEAN /\ c.proxies \in {"none", "nets"}
  BY ConfigFields
<1>6. /\ p.cfg = c /\ p.pipe = c /\ p.engines = c /\ p.flag = c.chal /\ p.nets = c.proxies /\ p.feeds = NewFeeds(c)
      /\ p.limiter = NewLimiter(c) /\ p.guard = NewGuard(c) /\ p.mgr = NewManager(c)
  BY DEF NewRuntime
<1>7. p \in Runtime
  BY <1>1, <1>2, <1>3, <1>4, <1>5 DEF NewRuntime, Runtime
<1>8. Kept(c, c, {"qf", "token", "intel", "logo"})
  BY DEF Kept
<1> QED BY <1>1, <1>2, <1>3, <1>4, <1>6, <1>7, <1>8 DEF Agree

(* After PUT /config everything that runs agrees with the configuration,
   unless the feed cache had missed a token before.                         *)
LEMMA AppliedAgree ==
    ASSUME NEW p \in Runtime, NEW s \in SafeConfig, NEW q, q = ApplySafeConfig(p, s),
           s.qf # Absent \/ (p.feeds # Absent => p.feeds.token = p.cfg.token)
    PROVE  Agree(q) /\ q.pipe = q.cfg
<1> DEFINE d == UpdateLive(Merged(p.cfg, s))
<1>1. d = UpdateLive(Merged(p.cfg, s)) /\ p.cfg \in Config
  BY RuntimeFields
<1> HIDE DEF d
<1>2. d \in Config /\ (s.qf = Absent => d.token = p.cfg.token)
  BY <1>1, AppliedCarries
<1>3. /\ q \in Runtime /\ q.cfg = d /\ q.pipe = d /\ q.engines = d /\ q.flag = d.chal
      /\ s.qf = Absent => q.feeds = p.feeds
      /\ s.qf # Absent => (q.feeds # Absent => q.feeds.token = d.token)
      /\ q.guard # Absent => q.guard.on = d.prot
      /\ d.proxies # "bad" => q.nets = d.proxies
      /\ q.mgr # Absent /\ d.diff > 0 => liveSettings(q.mgr) = d.diff
      /\ q.limiter # Absent => q.limiter.rate = d.rate
  BY <1>1, ApplySafeConfigIs
<1>4. Kept(d, d, {"qf", "token", "intel", "logo"})
  BY <1>2 DEF Kept
<1>5. q.feeds # Absent => q.feeds.token = d.token
  BY <1>2, <1>3
<1> QED BY <1>3, <1>4, <1>5 DEF Agree

\* After PUT /qfeeds what agreed before agrees.
LEMMA FeedsAgree ==
    ASSUME NEW p \in Runtime, NEW q \in [on : BOOLEAN, token : BOOLEAN], NEW r, r = ApplyQFeeds(p, q)
    PROVE  /\ r \in Runtime /\ Kept(p.cfg, r.cfg, {"qf", "token"}) /\ r.pipe = p.pipe /\ r.nets = p.nets
           /\ Agree(p) => Agree(r)
<1>1. p.cfg \in Config
  BY RuntimeFields
<1>2. /\ r \in Runtime /\ r.pipe = p.pipe /\ r.engines = p.engines /\ r.flag = p.flag /\ r.nets = p.nets
      /\ r.guard = p.guard /\ r.mgr = p.mgr /\ r.limiter = p.limiter
      /\ r.cfg = applyQFeedsSettings(p.cfg, q)
      /\ r.feeds # Absent => r.feeds.token = r.cfg.token
  BY ApplyQFeedsIs
<1>3. Kept(p.cfg, r.cfg, {"qf", "token"})
  BY <1>1, <1>2, QFeedsSettings
<1>4. ASSUME Agree(p)
      PROVE  Agree(r)
  <2>1. Kept(r.cfg, r.pipe, {"qf", "token", "intel", "logo"})
    BY <1>2, <1>3, <1>4 DEF Agree, Kept, Fields
  <2>2. /\ r.cfg.coraza = p.cfg.coraza /\ r.cfg.ml = p.cfg.ml /\ r.cfg.chal = p.cfg.chal
        /\ r.cfg.proxies = p.cfg.proxies /\ r.cfg.prot = p.cfg.prot /\ r.cfg.diff = p.cfg.diff
        /\ r.cfg.rate = p.cfg.rate
    BY <1>3 DEF Kept, Fields
  <2> QED BY <1>2, <1>4, <2>1, <2>2 DEF Agree
<1> QED BY <1>2, <1>3, <1>4

\* Trust mode and proxies that are left alone stay complete.
LEMMA TrustKept ==
    ASSUME NEW c \in Config, NEW d, NEW F, Kept(c, d, F), "trust" \notin F, "proxies" \notin F,
           ValidTrust(c)
    PROVE  ValidTrust(d)
<1>1. d.trust = c.trust /\ d.proxies = c.proxies
  BY DEF Kept, Fields
<1> QED BY <1>1 DEF ValidTrust

(* An edge that has just started.                                           *)
LEMMA BootedIs ==
    ASSUME NEW s \in Files, Bootable(s), NEW blob \in {Absent} \cup SafeConfig, NEW p, p = Booted(s, blob),
           NEW c, c = LoadWithFlagsMode(s)
    PROVE  /\ p \in Runtime /\ ValidTrust(p.cfg) /\ PipeTrust(p) /\ Agree(p) /\ p.pipe.logo = p.cfg.logo
           /\ p.cfg.admin = c.admin
           /\ ~c.admin => p.cfg = c
           /\ c.admin /\ blob # Absent /\ validateSafeConfig(blob) => Carries(p.cfg, blob) /\ CarriesLogo(p.cfg, blob)
<1> DEFINE p0 == NewRuntime(c)
           p1 == IF validateSafeConfig(blob) THEN ApplySafeConfig(p0, blob) ELSE p0
<1>1. c \in Config /\ ValidTrust(c) /\ c.proxies # "bad"
  BY InputAssumption DEF Bootable, Validate
<1>2. p0 \in Runtime /\ p0.cfg = c /\ p0.pipe = c /\ PipeTrust(p0) /\ Agree(p0)
  BY <1>1, NewRuntimeIs DEF PipeTrust
<1>3. p = IF c.admin THEN ApplyOverrides(p0, blob) ELSE p0
  BY DEF Booted
<1>4. CASE ~c.admin \/ blob = Absent
  <2>1. p = p0
    BY <1>3, <1>4 DEF ApplyOverrides
  <2> QED BY <1>1, <1>2, <1>4, <2>1
<1>5. CASE c.admin /\ blob # Absent
  <2> HIDE DEF p0
  <2>1. p = IF blob.qf = Absent THEN p1 ELSE ApplyQFeeds(p1, blob.qf)
    BY <1>3, <1>5 DEF ApplyOverrides
  <2>2. blob \in SafeConfig
    BY <1>5
  <2>3. /\ p1 \in Runtime /\ ValidTrust(p1.cfg) /\ PipeTrust(p1) /\ Agree(p1) /\ p1.pipe.logo = p1.cfg.logo
        /\ p1.cfg.admin = c.admin
        /\ validateSafeConfig(blob) => Carries(p1.cfg, blob) /\ CarriesLogo(p1.cfg, blob)
    <3>1. CASE validateSafeConfig(blob)
      <4> DEFINE d == UpdateLive(Merged(p0.cfg, blob))
      <4>1. p1 = ApplySafeConfig(p0, blob) /\ d = UpdateLive(Merged(p0.cfg, blob))
        BY <3>1
      <4> HIDE DEF p1, d
      <4>2. p1 \in Runtime /\ p1.cfg = d /\ p1.pipe = d /\ (d.proxies # "bad" => p1.nets = d.proxies)
        BY <1>2, <2>2, <4>1, ApplySafeConfigIs
      <4>3. Agree(p1)
        BY <1>2, <2>2, <4>1, AppliedAgree DEF Agree
      <4>4. Carries(d, blob) /\ CarriesLogo(d, blob) /\ d.admin = c.admin /\ ValidTrust(d)
        BY <1>1, <1>2, <2>2, <3>1, <4>1, AppliedCarries
      <4> QED BY <4>2, <4>3, <4>4 DEF PipeTrust
    <3>2. CASE ~validateSafeConfig(blob)
      BY <3>2, <1>1, <1>2
    <3> QED BY <3>1, <3>2
  <2> HIDE DEF p1
  <2>4. CASE blob.qf = Absent
    BY <2>1, <2>3, <2>4, <1>5
  <2>5. CASE blob.qf # Absent
    <3>1. p = ApplyQFeeds(p1, blob.qf) /\ blob.qf \in [on : BOOLEAN, token : BOOLEAN]
      BY <2>1, <2>2, <2>5, SafeFields
    <3>2. p \in Runtime /\ Kept(p1.cfg, p.cfg, {"qf", "token"}) /\ p.pipe = p1.pipe /\ p.nets = p1.nets /\ Agree(p)
      BY <2>3, <3>1, FeedsAgree
    <3>3. p1.cfg \in Config
      BY <2>3, RuntimeFields
    <3>4. ValidTrust(p.cfg)
      BY <2>3, <3>2, <3>3, TrustKept
    <3>5. p.cfg.logo = p1.cfg.logo /\ p.cfg.admin = p1.cfg.admin
      BY <3>2 DEF Kept, Fields
    <3>6. ASSUME validateSafeConfig(blob)
          PROVE  Carries(p.cfg, blob) /\ CarriesLogo(p.cfg, blob)
      <4>1. p.cfg = applyQFeedsSettings(p1.cfg, blob.qf)
        BY <2>3, <3>1, ApplyQFeedsIs
      <4>2. p.cfg.qf = blob.qf.on /\ p.cfg.token = (p1.cfg.token \/ blob.qf.token)
        BY <3>1, <3>3, <4>1, QFeedsSettings
      <4>3. /\ p.cfg.prot = p1.cfg.prot /\ p.cfg.limit = p1.cfg.limit /\ p.cfg.chal = p1.cfg.chal
            /\ p.cfg.diff = p1.cfg.diff /\ p.cfg.coraza = p1.cfg.coraza /\ p.cfg.ml = p1.cfg.ml
            /\ p.cfg.rate = p1.cfg.rate /\ p.cfg.low = p1.cfg.low /\ p.cfg.high = p1.cfg.high
            /\ p.cfg.trust = p1.cfg.trust /\ p.cfg.proxies = p1.cfg.proxies /\ p.cfg.ids = p1.cfg.ids
        BY <3>2 DEF Kept, Fields
      <4>4. blob.qf.token => p.cfg.token
        BY <4>2
      <4>5. Carries(p1.cfg, blob) /\ CarriesLogo(p1.cfg, blob)
        BY <2>3, <3>6
      <4> QED BY <3>5, <4>2, <4>3, <4>4, <4>5 DEF Carries, CarriesLogo
    <3> QED BY <1>5, <2>3, <3>2, <3>4, <3>5, <3>6 DEF PipeTrust
  <2> QED BY <2>4, <2>5
<1> QED BY <1>4, <1>5

-----------------------------------------------------------------------------
(* The inductive invariant                                                  *)
ConfigTasks ==
    {NoJob} \cup [pc : {"store"}, blob : SafeConfig, next : {"fleet", "idle"}]
      \cup [pc : {"qget"}, qf : [on : BOOLEAN, token : BOOLEAN]]
      \cup [pc : {"replace", "flag", "apply", "iflag"}, cfg : Config] \cup [pc : {"aget"}]
      \cup [pc : {"intel"}, on : BOOLEAN, cfg : Config] \cup [pc : {"fleet"}, blob : SafeConfig]

Typed ==
    /\ inputs \in Files
    /\ proc = Absent \/ proc \in Runtime
    /\ overrides \in {Absent} \cup SafeConfig /\ last \in {Absent} \cup SafeConfig
    /\ job \in [Saver -> ConfigTasks]
    /\ clean \in BOOLEAN /\ lost \in BOOLEAN

(* The configurations that are about to be stored.                          *)
Holds(t) == t.pc \in {"replace", "flag", "apply", "intel", "iflag"}

(* Whoever saves has a process, the administration is on, and what it has
   read is as sound as what runs.                                           *)
Trusted ==
    /\ proc # Absent => ValidTrust(proc.cfg) /\ PipeTrust(proc)
    /\ \A h \in Saver :
        /\ job[h] # NoJob => proc # Absent /\ LoadWithFlagsMode(inputs).admin
        /\ Holds(job[h]) => ValidTrust(job[h].cfg) /\ job[h].cfg.admin

Following ==
    proc # Absent /\ ~lost =>
      Agree(proc) /\ (proc.pipe.logo = proc.cfg.logo \/ \E h \in Saver : job[h].pc \in {"flag", "apply"})

Rooted ==
    proc # Absent =>
      /\ proc.cfg.admin = LoadWithFlagsMode(inputs).admin
      /\ ~proc.cfg.admin => proc.cfg = LoadWithFlagsMode(inputs)

(* What the handler of t will have made of the blob, if it is the only one. *)
Pending(t) ==
    /\ t.pc = "store" => t.blob = last
    /\ t.pc \in {"idle", "fleet", "intel", "iflag"} => overrides = last
    /\ t.pc = "qget" => overrides # Absent /\ MergeAndEncode(overrides, t.qf, 0) = last
    /\ t.pc \in {"replace", "flag", "apply", "aget"} => overrides # Absent /\ MergeAndEncode(overrides, Absent, 1) = last
    /\ t.pc = "replace" => t.cfg = [proc.cfg EXCEPT !.logo = 1]
    /\ t.pc = "intel" => t.cfg = [proc.cfg EXCEPT !.intel = t.on]

Remembered ==
    clean =>
      /\ last # Absent /\ validateSafeConfig(last)
      /\ \A h, k \in Saver : job[h] # NoJob /\ job[k] # NoJob => h = k
      /\ Quiet => overrides = last
      /\ \A h \in Saver : job[h] # NoJob => Pending(job[h])
      /\ proc # Absent /\ proc.cfg.admin =>
           Carries(proc.cfg, last) /\ (CarriesLogo(proc.cfg, last) \/ \E h \in Saver : job[h].pc = "replace")

ConfigInv == Typed /\ Trusted /\ Following /\ Rooted /\ Remembered

\* The fields of a handler at each of its stages.
LEMMA ConfigTaskFields ==
    ASSUME NEW t \in ConfigTasks
    PROVE  /\ t.pc \in {"idle", "store", "qget", "replace", "flag", "apply", "aget", "intel", "iflag", "fleet"}
           /\ t.pc = "idle" => t = NoJob
           /\ t.pc = "store" => t.blob \in SafeConfig /\ t.next \in {"fleet", "idle"}
           /\ t.pc = "qget" => t.qf \in [on : BOOLEAN, token : BOOLEAN]
           /\ t.pc \in {"replace", "flag", "apply", "intel", "iflag"} => t.cfg \in Config
           /\ t.pc = "intel" => t.on \in BOOLEAN
           /\ t.pc = "fleet" => t.blob \in SafeConfig
  BY DEF ConfigTasks, NoJob

\* Only the handler that takes the step moves.
LEMMA GotoIs ==
    ASSUME Typed, NEW h \in Saver, NEW t \in ConfigTasks, Goto(h, t)
    PROVE  job' \in [Saver -> ConfigTasks] /\ job'[h] = t /\ \A k \in Saver \ {h} : job'[k] = job[k]
  BY DEF Typed, Goto

\* An idle handler is at no stage.
LEMMA IdlePc == NoJob.pc = "idle" /\ NoJob \in ConfigTasks
  BY DEF NoJob, ConfigTasks

(* What a step of handler h has to establish.                               *)
LEMMA Moved ==
    ASSUME ConfigInv, NEW h \in Saver, inputs' = inputs,
           job' \in [Saver -> ConfigTasks], \A k \in Saver \ {h} : job'[k] = job[k],
           overrides' \in {Absent} \cup SafeConfig, last' \in {Absent} \cup SafeConfig,
           clean' \in BOOLEAN, lost' \in BOOLEAN,
           proc' \in Runtime, ValidTrust(proc'.cfg), PipeTrust(proc'), proc'.cfg.admin,
           LoadWithFlagsMode(inputs).admin,
           Holds(job'[h]) => ValidTrust(job'[h].cfg) /\ job'[h].cfg.admin,
           ~lost' => /\ Agree(proc')
                     /\ proc'.pipe.logo = proc'.cfg.logo \/ \E k \in Saver : job'[k].pc \in {"flag", "apply"},
           clean' => /\ last' # Absent /\ validateSafeConfig(last')
                     /\ \A k \in Saver \ {h} : job[k] = NoJob
                     /\ Pending(job[h])'
                     /\ Carries(proc'.cfg, last')
                     /\ CarriesLogo(proc'.cfg, last') \/ job'[h].pc = "replace"
    PROVE  ConfigInv'
<1>0. proc' # Absent
  BY AbsentIsNoValue
<1>1. Typed'
  BY DEF ConfigInv, Typed
<1>2. Trusted'
  <2>1. ASSUME NEW k \in Saver
        PROVE  /\ job'[k] # NoJob => proc' # Absent /\ LoadWithFlagsMode(inputs').admin
               /\ Holds(job'[k]) => ValidTrust(job'[k].cfg) /\ job'[k].cfg.admin
    <3>1. CASE k = h
      BY <1>0, <3>1
    <3>2. CASE k # h
      <4>1. job'[k] = job[k]
        BY <3>2
      <4> QED BY <1>0, <4>1 DEF ConfigInv, Trusted
    <3> QED BY <3>1, <3>2
  <2> QED BY <2>1 DEF Trusted, Holds, PipeTrust, ValidTrust
<1>3. Following'
  <2> SUFFICES ASSUME ~lost'
               PROVE  Following'
    BY DEF Following
  <2>1. Agree(proc)'
    BY DEF Agree, Kept, liveSettings
  <2>2. (proc.pipe.logo = proc.cfg.logo \/ \E k \in Saver : job[k].pc \in {"flag", "apply"})'
    OBVIOUS
  <2> QED BY <2>1, <2>2 DEF Following
<1>4. Rooted'
  <2>1. proc'.cfg.admin = LoadWithFlagsMode(inputs').admin
    <3>1. proc'.cfg \in Config /\ LoadWithFlagsMode(inputs) \in Config
      BY InputAssumption, RuntimeFields DEF ConfigInv, Typed
    <3>2. proc'.cfg.admin \in BOOLEAN /\ LoadWithFlagsMode(inputs).admin \in BOOLEAN
      BY <3>1, ConfigFields
    <3> QED BY <3>2
  <2> QED BY <2>1 DEF Rooted
<1>5. Remembered'
  <2> SUFFICES ASSUME clean'
               PROVE  Remembered'
    BY DEF Remembered
  <2>1. \A k \in Saver \ {h} : job'[k] = NoJob
    OBVIOUS
  <2>2. \A k, l \in Saver : job'[k] # NoJob /\ job'[l] # NoJob => k = l
    BY <2>1
  <2>3. (Quiet => overrides = last)'
    BY IdlePc DEF Quiet, Pending
  <2>4. \A k \in Saver : job'[k] # NoJob => Pending(job[k])'
    BY <2>1
  <2>5. (proc # Absent /\ proc.cfg.admin =>
           Carries(proc.cfg, last) /\ (CarriesLogo(proc.cfg, last) \/ \E k \in Saver : job[k].pc = "replace"))'
    BY DEF Carries, CarriesLogo, CorazaLive, MLLive
  <2>6. (last # Absent /\ validateSafeConfig(last))'
    BY DEF validateSafeConfig
  <2> QED BY <2>2, <2>3, <2>4, <2>5, <2>6 DEF Remembered
<1> QED BY <1>1, <1>2, <1>3, <1>4, <1>5 DEF ConfigInv

(* A handler that may start, and one that is at work.                       *)
LEMMA BeginIs ==
    ASSUME ConfigInv, NEW h \in Saver, BeginSave(h)
    PROVE  /\ proc # Absent /\ proc \in Runtime /\ proc.cfg \in Config /\ proc.pipe \in Config
           /\ proc.cfg.admin /\ LoadWithFlagsMode(inputs).admin /\ job[h] = NoJob
           /\ ValidTrust(proc.cfg) /\ PipeTrust(proc)
           /\ ~lost => Agree(proc) /\ (proc.pipe.logo = proc.cfg.logo \/ \E k \in Saver : job[k].pc \in {"flag", "apply"})
           /\ clean /\ Alone(h) =>
                /\ last # Absent /\ last \in SafeConfig /\ validateSafeConfig(last) /\ overrides = last
                /\ Carries(proc.cfg, last) /\ CarriesLogo(proc.cfg, last)
<1>1. proc # Absent /\ proc \in Runtime /\ proc.cfg.admin /\ job[h] = NoJob
  BY DEF ConfigInv, Typed, BeginSave
<1>2. proc.cfg \in Config /\ proc.pipe \in Config
  BY <1>1, RuntimeFields
<1>3. LoadWithFlagsMode(inputs).admin /\ ValidTrust(proc.cfg) /\ PipeTrust(proc)
  BY <1>1 DEF ConfigInv, Rooted, Trusted
<1>4. ~lost => Agree(proc) /\ (proc.pipe.logo = proc.cfg.logo \/ \E k \in Saver : job[k].pc \in {"flag", "apply"})
  BY <1>1 DEF ConfigInv, Following
<1>5. ASSUME clean, Alone(h)
      PROVE  /\ last # Absent /\ last \in SafeConfig /\ validateSafeConfig(last) /\ overrides = last
             /\ Carries(proc.cfg, last) /\ CarriesLogo(proc.cfg, last)
  <2>1. \A k \in Saver : job[k] = NoJob
    BY <1>1, <1>5 DEF Alone
  <2>2. \A k \in Saver : job[k].pc # "replace"
    BY <2>1, IdlePc
  <2> QED BY <1>1, <1>5, <2>1, <2>2 DEF ConfigInv, Typed, Remembered, Quiet
<1> QED BY <1>1, <1>2, <1>3, <1>4, <1>5

(* A handler at work: the process is up and administered, and if the saves
   were clean it is the only one.                                           *)
LEMMA AtWork ==
    ASSUME ConfigInv, NEW h \in Saver, job[h] # NoJob
    PROVE  /\ proc # Absent /\ proc \in Runtime /\ proc.cfg \in Config /\ proc.pipe \in Config
           /\ proc.cfg.admin /\ LoadWithFlagsMode(inputs).admin
           /\ ValidTrust(proc.cfg) /\ PipeTrust(proc) /\ job[h] \in ConfigTasks
           /\ Holds(job[h]) => ValidTrust(job[h].cfg) /\ job[h].cfg.admin
           /\ ~lost => Agree(proc) /\ (proc.pipe.logo = proc.cfg.logo \/ \E k \in Saver : job[k].pc \in {"flag", "apply"})
           /\ clean =>
                /\ \A k \in Saver \ {h} : job[k] = NoJob
                /\ last # Absent /\ last \in SafeConfig /\ validateSafeConfig(last) /\ Pending(job[h])
                /\ Carries(proc.cfg, last) /\ (CarriesLogo(proc.cfg, last) \/ job[h].pc = "replace")
<1>1. proc # Absent /\ proc \in Runtime /\ LoadWithFlagsMode(inputs).admin /\ job[h] \in ConfigTasks
  BY DEF ConfigInv, Typed, Trusted
<1>2. proc.cfg \in Config /\ proc.pipe \in Config
  BY <1>1, RuntimeFields
<1>3. /\ proc.cfg.admin /\ ValidTrust(proc.cfg) /\ PipeTrust(proc)
      /\ Holds(job[h]) => ValidTrust(job[h].cfg) /\ job[h].cfg.admin
  BY <1>1 DEF ConfigInv, Rooted, Trusted
<1>4. ~lost => Agree(proc) /\ (proc.pipe.logo = proc.cfg.logo \/ \E k \in Saver : job[k].pc \in {"flag", "apply"})
  BY <1>1 DEF ConfigInv, Following
<1>5. ASSUME clean
      PROVE  /\ \A k \in Saver \ {h} : job[k] = NoJob
             /\ last # Absent /\ last \in SafeConfig /\ validateSafeConfig(last) /\ Pending(job[h])
             /\ Carries(proc.cfg, last) /\ (CarriesLogo(proc.cfg, last) \/ job[h].pc = "replace")
  <2>1. \A k \in Saver \ {h} : job[k] = NoJob
    BY <1>5 DEF ConfigInv, Remembered
  <2>2. \A k \in Saver \ {h} : job[k].pc # "replace"
    BY <2>1, IdlePc
  <2> QED BY <1>1, <1>3, <1>5, <2>1, <2>2 DEF ConfigInv, Typed, Remembered
<1> QED BY <1>1, <1>2, <1>3, <1>4, <1>5

\* PUT /config preserves the invariant.
LEMMA ConfigStep ==
    ASSUME ConfigInv, NEW h \in Saver, NEW s \in Bodies, handleConfig(h, s)
    PROVE  ConfigInv'
<1> DEFINE t == [pc |-> "store", blob |-> s, next |-> "fleet"]
           d == UpdateLive(Merged(proc.cfg, s))
<1>1. s \in SafeConfig
  BY InputAssumption
<1>2. BeginSave(h) /\ validateSafeConfig(s) /\ proc' = ApplySafeConfig(proc, s) /\ Goto(h, t)
  BY DEF handleConfig
<1>3. /\ proc \in Runtime /\ proc.cfg \in Config /\ proc.cfg.admin /\ LoadWithFlagsMode(inputs).admin
      /\ ValidTrust(proc.cfg) /\ (~lost => Agree(proc))
  BY <1>2, BeginIs
<1>4. t \in ConfigTasks /\ t.pc = "store" /\ t.blob = s
  BY <1>1 DEF ConfigTasks
<1> HIDE DEF t
<1>5. job' \in [Saver -> ConfigTasks] /\ job'[h] = t /\ \A k \in Saver \ {h} : job'[k] = job[k]
  BY <1>2, <1>4, GotoIs DEF ConfigInv
<1>6. d = UpdateLive(Merged(proc.cfg, s))
  OBVIOUS
<1> HIDE DEF d
<1>7. proc' \in Runtime /\ proc'.cfg = d /\ proc'.pipe = d /\ (d.proxies # "bad" => proc'.nets = d.proxies)
  BY <1>1, <1>2, <1>3, <1>6, ApplySafeConfigIs
<1>8. Carries(d, s) /\ CarriesLogo(d, s) /\ d.admin = proc.cfg.admin /\ ValidTrust(d)
  <2>1. ValidTrust(proc.cfg) /\ validateSafeConfig(s) /\ proc.cfg \in Config
    BY <1>2, <1>3
  <2> QED BY <1>1, <1>6, <2>1, AppliedCarries
<1>9. /\ inputs' = inputs /\ overrides' = overrides /\ last' = s
      /\ clean' = Alone(h) /\ lost' = (lost /\ s.qf = Absent)
  BY DEF handleConfig
<1>10. clean' \in BOOLEAN /\ lost' \in BOOLEAN
  BY <1>9 DEF Alone
<1>p. PipeTrust(proc')
  BY <1>7, <1>8 DEF PipeTrust
<1>11. ASSUME ~lost'
       PROVE  Agree(proc')
  <2>1. s.qf # Absent \/ (proc.feeds # Absent => proc.feeds.token = proc.cfg.token)
    BY <1>3, <1>9, <1>11 DEF Agree
  <2> QED BY <1>1, <1>2, <1>3, <2>1, AppliedAgree
<1>12. ASSUME clean'
       PROVE  /\ last' # Absent /\ \A k \in Saver \ {h} : job[k] = NoJob
              /\ Pending(job[h])'
  <2>1. Pending(job[h])'
    BY <1>4, <1>5, <1>9 DEF Pending
  <2> QED BY AbsentIsNoValue, <2>1, <1>1, <1>9, <1>12 DEF Alone
<1>13. ~Holds(job'[h])
  BY <1>4, <1>5 DEF Holds
<1>14. overrides' \in {Absent} \cup SafeConfig /\ last' \in {Absent} \cup SafeConfig
  BY <1>1, <1>9 DEF ConfigInv, Typed
<1> QED BY <1>2, <1>3, <1>5, <1>7, <1>8, <1>9, <1>10, <1>p, <1>11, <1>12, <1>13, <1>14, Moved

\* PUT /qfeeds preserves the invariant.
LEMMA QFeedsStep ==
    ASSUME ConfigInv, NEW h \in Saver, NEW q \in Feeds, handleQFeeds(h, q)
    PROVE  ConfigInv'
<1> DEFINE t == [pc |-> "qget", qf |-> q]
<1>1. q \in [on : BOOLEAN, token : BOOLEAN] /\ q \in BodyFeeds /\ 0 \in BodyBit
  BY InputAssumption DEF BodyFeeds, BodyBit
<1>2. BeginSave(h) /\ proc' = ApplyQFeeds(proc, q) /\ Goto(h, t)
  BY DEF handleQFeeds
<1>3. /\ proc \in Runtime /\ proc.cfg \in Config /\ proc.cfg.admin /\ LoadWithFlagsMode(inputs).admin
      /\ ValidTrust(proc.cfg) /\ PipeTrust(proc) /\ job[h] = NoJob
      /\ ~lost => Agree(proc) /\ (proc.pipe.logo = proc.cfg.logo \/ \E k \in Saver : job[k].pc \in {"flag", "apply"})
      /\ clean /\ Alone(h) =>
                /\ last # Absent /\ last \in SafeConfig /\ validateSafeConfig(last) /\ overrides = last
                /\ Carries(proc.cfg, last) /\ CarriesLogo(proc.cfg, last)
  BY <1>2, BeginIs
<1>4. t \in ConfigTasks /\ t.pc = "qget" /\ t.qf = q
  BY <1>1 DEF ConfigTasks
<1> HIDE DEF t
<1>5. job' \in [Saver -> ConfigTasks] /\ job'[h] = t /\ \A k \in Saver \ {h} : job'[k] = job[k]
  BY <1>2, <1>4, GotoIs DEF ConfigInv
<1>7. /\ proc' \in Runtime /\ Kept(proc.cfg, proc'.cfg, {"qf", "token"}) /\ proc'.pipe = proc.pipe /\ proc'.nets = proc.nets
      /\ Agree(proc) => Agree(proc')
  BY <1>1, <1>2, <1>3, FeedsAgree
<1>8. proc'.cfg.admin = proc.cfg.admin /\ proc'.cfg.logo = proc.cfg.logo
  BY <1>7 DEF Kept, Fields
<1>9. ValidTrust(proc'.cfg) /\ PipeTrust(proc')
  BY <1>3, <1>7, TrustKept DEF PipeTrust
<1>10. /\ inputs' = inputs /\ overrides' = overrides /\ lost' = lost /\ clean' = (clean /\ Alone(h))
       /\ last' = IF last = Absent THEN Absent ELSE MergeAndEncode(last, q, 0)
  BY <1>1, Words DEF handleQFeeds, ConfigInv, Typed
<1>11. last' \in {Absent} \cup SafeConfig
  <2>1. last \in {Absent} \cup SafeConfig
    BY DEF ConfigInv, Typed
  <2>2. MergeAndEncode(last, q, 0) \in SafeConfig
    BY <1>1, <2>1, MergeAndEncodeIs
  <2> QED BY <1>10, <2>2
<1>12. ~lost' => proc'.pipe.logo = proc'.cfg.logo \/ \E k \in Saver : job'[k].pc \in {"flag", "apply"}
  <2>1. \A k \in Saver : job[k].pc \in {"flag", "apply"} => job'[k].pc \in {"flag", "apply"}
    BY <1>3, <1>5, IdlePc
  <2> QED BY <1>3, <1>7, <1>8, <1>10, <2>1
<1>13. ASSUME clean'
       PROVE  /\ last' # Absent /\ validateSafeConfig(last')
              /\ \A k \in Saver \ {h} : job[k] = NoJob
              /\ Pending(job[h])'
              /\ Carries(proc'.cfg, last') /\ CarriesLogo(proc'.cfg, last')
  <2>1. clean /\ Alone(h)
    BY <1>10, <1>13
  <2>2. last' = MergeAndEncode(last, q, 0)
    BY <1>3, <1>10, <2>1
  <2>3. proc'.cfg = applyQFeedsSettings(proc.cfg, q)
    BY <1>1, <1>2, <1>3, ApplyQFeedsIs
  <2>4. last' \in SafeConfig /\ Carries(proc'.cfg, last') /\ CarriesLogo(proc'.cfg, last')
    BY <1>1, <1>3, <2>1, <2>2, <2>3, FeedsCarry
  <2>5. Same(last, last')
    BY <1>1, <1>3, <2>1, <2>2, MergeAndEncodeIs
  <2>6. validateSafeConfig(last')
    BY <1>3, <2>1, <2>5 DEF validateSafeConfig, Same
  <2>7. Pending(job[h])'
    <3>1. overrides' # Absent /\ MergeAndEncode(overrides', q, 0) = last'
      BY <1>3, <1>10, <2>1, <2>2
    <3> QED BY <1>4, <1>5, <3>1 DEF Pending, MergeAndEncode, DecodeSafeConfig, Blank, setNonEmpty
  <2> QED BY AbsentIsNoValue, <2>1, <2>4, <2>6, <2>7 DEF Alone
<1>14. ~Holds(job'[h])
  BY <1>4, <1>5 DEF Holds
<1>15. overrides' \in {Absent} \cup SafeConfig /\ clean' \in BOOLEAN /\ lost' \in BOOLEAN
  BY <1>10 DEF ConfigInv, Typed, Alone
<1> QED BY <1>3, <1>5, <1>7, <1>8, <1>9, <1>10, <1>11, <1>12, <1>13, <1>14, <1>15, Moved

(* The steps that leave the process alone.                                  *)
LEMMA QFeedsGetStep ==
    ASSUME ConfigInv, NEW h \in Saver, QFeedsGet(h)
    PROVE  ConfigInv'
<1> DEFINE b == MergeAndEncode(overrides, job[h].qf, 0)
           t == [pc |-> "store", blob |-> b, next |-> "idle"]
<1>1. job[h] # NoJob /\ job[h].pc = "qget"
  BY IdlePc DEF QFeedsGet
<1>2. /\ proc \in Runtime /\ proc.cfg \in Config /\ proc.pipe \in Config /\ proc.cfg.admin
      /\ LoadWithFlagsMode(inputs).admin /\ ValidTrust(proc.cfg) /\ PipeTrust(proc) /\ job[h] \in ConfigTasks
      /\ Holds(job[h]) => ValidTrust(job[h].cfg) /\ job[h].cfg.admin
      /\ ~lost => Agree(proc) /\ (proc.pipe.logo = proc.cfg.logo \/ \E k \in Saver : job[k].pc \in {"flag", "apply"})
      /\ clean =>
           /\ \A k \in Saver \ {h} : job[k] = NoJob
           /\ last # Absent /\ last \in SafeConfig /\ validateSafeConfig(last) /\ Pending(job[h])
           /\ Carries(proc.cfg, last) /\ (CarriesLogo(proc.cfg, last) \/ job[h].pc = "replace")
  BY <1>1, AtWork
<1>3. Goto(h, t)
  BY DEF QFeedsGet
<1>b. b \in SafeConfig
  <2>1. job[h].qf \in BodyFeeds /\ 0 \in BodyBit /\ overrides \in {Absent} \cup SafeConfig
    BY <1>1, <1>2, ConfigTaskFields DEF BodyFeeds, BodyBit, ConfigInv, Typed
  <2> QED BY <2>1, MergeAndEncodeIs
<1>4. t \in ConfigTasks /\ t.pc = "store" /\ t.blob = b
  BY <1>b DEF ConfigTasks
<1> HIDE DEF t
<1>5. job' \in [Saver -> ConfigTasks] /\ job'[h] = t /\ \A k \in Saver \ {h} : job'[k] = job[k]
  BY <1>3, <1>4, GotoIs DEF ConfigInv
<1>6. /\ inputs' = inputs /\ proc' = proc /\ overrides' = overrides /\ last' = last /\ clean' = clean /\ lost' = lost
  BY DEF QFeedsGet
<1>7. clean' => Pending(job[h])' /\ CarriesLogo(proc.cfg, last)
  <2> SUFFICES ASSUME clean
               PROVE  Pending(job[h])' /\ CarriesLogo(proc.cfg, last)
    BY <1>6
  <2>1. b = last
    BY <1>1, <1>2 DEF Pending
  <2> QED BY <1>1, <1>2, <1>4, <1>5, <1>6, <2>1 DEF Pending
<1>8. ~Holds(job'[h])
  BY <1>4, <1>5 DEF Holds
<1>9. ~lost' => proc.pipe.logo = proc.cfg.logo \/ \E k \in Saver : job'[k].pc \in {"flag", "apply"}
  BY <1>1, <1>2, <1>5, <1>6
<1>10. /\ overrides' \in {Absent} \cup SafeConfig /\ last' \in {Absent} \cup SafeConfig
       /\ clean' \in BOOLEAN /\ lost' \in BOOLEAN
  BY <1>6 DEF ConfigInv, Typed
<1> QED BY <1>2, <1>5, <1>6, <1>7, <1>8, <1>9, <1>10, Moved

\* Merging the uploaded URL into the blob preserves the invariant.
LEMMA PersistStep ==
    ASSUME ConfigInv, NEW h \in Saver, persistAppearanceURL(h)
    PROVE  ConfigInv'
<1> DEFINE e == IF overrides = Absent THEN ConfigView(proc) ELSE overrides
           b == MergeAndEncode(e, Absent, 1)
           t == [pc |-> "store", blob |-> b, next |-> "idle"]
<1>1. job[h] # NoJob /\ job[h].pc = "aget"
  BY IdlePc DEF persistAppearanceURL
<1>2. /\ proc \in Runtime /\ proc.cfg \in Config /\ proc.pipe \in Config /\ proc.cfg.admin
      /\ LoadWithFlagsMode(inputs).admin /\ ValidTrust(proc.cfg) /\ PipeTrust(proc) /\ job[h] \in ConfigTasks
      /\ Holds(job[h]) => ValidTrust(job[h].cfg) /\ job[h].cfg.admin
      /\ ~lost => Agree(proc) /\ (proc.pipe.logo = proc.cfg.logo \/ \E k \in Saver : job[k].pc \in {"flag", "apply"})
      /\ clean =>
           /\ \A k \in Saver \ {h} : job[k] = NoJob
           /\ last # Absent /\ last \in SafeConfig /\ validateSafeConfig(last) /\ Pending(job[h])
           /\ Carries(proc.cfg, last) /\ (CarriesLogo(proc.cfg, last) \/ job[h].pc = "replace")
  BY <1>1, AtWork
<1>3. Goto(h, t)
  BY DEF persistAppearanceURL
<1>b. b \in SafeConfig
  <2>1. e \in SafeConfig
    BY <1>2, ConfigViewType DEF ConfigInv, Typed
  <2>2. Absent \in BodyFeeds /\ 1 \in BodyBit
    BY DEF BodyFeeds, BodyBit
  <2> HIDE DEF e
  <2> QED BY <2>1, <2>2, MergeAndEncodeIs
<1>4. t \in ConfigTasks /\ t.pc = "store" /\ t.blob = b
  BY <1>b DEF ConfigTasks
<1>c. overrides # Absent => b = MergeAndEncode(overrides, Absent, 1)
  OBVIOUS
<1> HIDE DEF t, b
<1>5. job' \in [Saver -> ConfigTasks] /\ job'[h] = t /\ \A k \in Saver \ {h} : job'[k] = job[k]
  BY <1>3, <1>4, GotoIs DEF ConfigInv
<1>6. /\ inputs' = inputs /\ proc' = proc /\ overrides' = overrides /\ last' = last /\ clean' = clean /\ lost' = lost
  BY DEF persistAppearanceURL
<1>7. clean' => Pending(job[h])' /\ CarriesLogo(proc.cfg, last)
  <2> SUFFICES ASSUME clean
               PROVE  Pending(job[h])' /\ CarriesLogo(proc.cfg, last)
    BY <1>6
  <2>1. b = last
    BY <1>1, <1>2, <1>c DEF Pending
  <2> QED BY <1>1, <1>2, <1>4, <1>5, <1>6, <2>1 DEF Pending
<1>8. ~Holds(job'[h])
  BY <1>4, <1>5 DEF Holds
<1>9. ~lost' => proc.pipe.logo = proc.cfg.logo \/ \E k \in Saver : job'[k].pc \in {"flag", "apply"}
  BY <1>1, <1>2, <1>5, <1>6
<1>10. /\ overrides' \in {Absent} \cup SafeConfig /\ last' \in {Absent} \cup SafeConfig
       /\ clean' \in BOOLEAN /\ lost' \in BOOLEAN
  BY <1>6 DEF ConfigInv, Typed
<1> QED BY <1>2, <1>5, <1>6, <1>7, <1>8, <1>9, <1>10, Moved

\* Storing the blob, or failing to, preserves the invariant.
LEMMA OverridesStep ==
    ASSUME ConfigInv, NEW h \in Saver, SetConfigOverrides(h)
    PROVE  ConfigInv'
<1> DEFINE t == IF job[h].next = "idle" THEN NoJob ELSE [pc |-> "fleet", blob |-> job[h].blob]
<1>1. job[h] # NoJob /\ job[h].pc = "store"
  BY IdlePc DEF SetConfigOverrides
<1>2. /\ proc \in Runtime /\ proc.cfg \in Config /\ proc.pipe \in Config /\ proc.cfg.admin
      /\ LoadWithFlagsMode(inputs).admin /\ ValidTrust(proc.cfg) /\ PipeTrust(proc) /\ job[h] \in ConfigTasks
      /\ Holds(job[h]) => ValidTrust(job[h].cfg) /\ job[h].cfg.admin
      /\ ~lost => Agree(proc) /\ (proc.pipe.logo = proc.cfg.logo \/ \E k \in Saver : job[k].pc \in {"flag", "apply"})
      /\ clean =>
           /\ \A k \in Saver \ {h} : job[k] = NoJob
           /\ last # Absent /\ last \in SafeConfig /\ validateSafeConfig(last) /\ Pending(job[h])
           /\ Carries(proc.cfg, last) /\ (CarriesLogo(proc.cfg, last) \/ job[h].pc = "replace")
  BY <1>1, AtWork
<1>3. Goto(h, t)
  BY DEF SetConfigOverrides
<1>b. job[h].blob \in SafeConfig
  BY <1>1, <1>2, ConfigTaskFields
<1>4. t \in ConfigTasks /\ t.pc \in {"idle", "fleet"}
  BY <1>b, IdlePc DEF ConfigTasks
<1> HIDE DEF t
<1>5. job' \in [Saver -> ConfigTasks] /\ job'[h] = t /\ \A k \in Saver \ {h} : job'[k] = job[k]
  BY <1>3, <1>4, GotoIs DEF ConfigInv
<1>6. /\ inputs' = inputs /\ proc' = proc /\ last' = last /\ lost' = lost
      /\ \/ overrides' = job[h].blob /\ clean' = clean
         \/ clean' = FALSE /\ overrides' = overrides
  BY DEF SetConfigOverrides
<1>7. ASSUME clean'
      PROVE  clean /\ Pending(job[h])' /\ CarriesLogo(proc.cfg, last)
  <2>1. clean /\ overrides' = job[h].blob
    BY <1>6, <1>7
  <2>2. job[h].blob = last
    BY <1>1, <1>2, <2>1 DEF Pending
  <2> QED BY <1>1, <1>2, <1>4, <1>5, <1>6, <2>1, <2>2 DEF Pending
<1>8. ~Holds(job'[h])
  BY <1>4, <1>5 DEF Holds
<1>9. ~lost' => proc.pipe.logo = proc.cfg.logo \/ \E k \in Saver : job'[k].pc \in {"flag", "apply"}
  BY <1>1, <1>2, <1>5, <1>6
<1>10. /\ overrides' \in {Absent} \cup SafeConfig /\ last' \in {Absent} \cup SafeConfig
       /\ clean' \in BOOLEAN /\ lost' \in BOOLEAN
  BY <1>b, <1>6 DEF ConfigInv, Typed
<1> QED BY <1>2, <1>5, <1>6, <1>7, <1>8, <1>9, <1>10, Moved

\* Storing the fleet's defaults preserves the invariant.
LEMMA FleetStep ==
    ASSUME ConfigInv, NEW h \in Saver, SetFleetDefaults(h)
    PROVE  ConfigInv'
<1> DEFINE t == NoJob
<1>1. job[h] # NoJob /\ job[h].pc = "fleet"
  BY IdlePc DEF SetFleetDefaults
<1>2. /\ proc \in Runtime /\ proc.cfg \in Config /\ proc.pipe \in Config /\ proc.cfg.admin
      /\ LoadWithFlagsMode(inputs).admin /\ ValidTrust(proc.cfg) /\ PipeTrust(proc) /\ job[h] \in ConfigTasks
      /\ Holds(job[h]) => ValidTrust(job[h].cfg) /\ job[h].cfg.admin
      /\ ~lost => Agree(proc) /\ (proc.pipe.logo = proc.cfg.logo \/ \E k \in Saver : job[k].pc \in {"flag", "apply"})
      /\ clean =>
           /\ \A k \in Saver \ {h} : job[k] = NoJob
           /\ last # Absent /\ last \in SafeConfig /\ validateSafeConfig(last) /\ Pending(job[h])
           /\ Carries(proc.cfg, last) /\ (CarriesLogo(proc.cfg, last) \/ job[h].pc = "replace")
  BY <1>1, AtWork
<1>3. Goto(h, t)
  BY DEF SetFleetDefaults
<1>4. t \in ConfigTasks /\ t.pc = "idle"
  BY IdlePc
<1> HIDE DEF t
<1>5. job' \in [Saver -> ConfigTasks] /\ job'[h] = t /\ \A k \in Saver \ {h} : job'[k] = job[k]
  BY <1>3, <1>4, GotoIs DEF ConfigInv
<1>6. /\ inputs' = inputs /\ proc' = proc /\ overrides' = overrides /\ last' = last /\ clean' = clean /\ lost' = lost
  BY DEF SetFleetDefaults
<1>7. clean' => Pending(job[h])' /\ CarriesLogo(proc.cfg, last)
  BY <1>1, <1>2, <1>4, <1>5, <1>6 DEF Pending
<1>8. ~Holds(job'[h])
  BY <1>4, <1>5 DEF Holds
<1>9. ~lost' => proc.pipe.logo = proc.cfg.logo \/ \E k \in Saver : job'[k].pc \in {"flag", "apply"}
  BY <1>1, <1>2, <1>5, <1>6
<1>10. /\ overrides' \in {Absent} \cup SafeConfig /\ last' \in {Absent} \cup SafeConfig
       /\ clean' \in BOOLEAN /\ lost' \in BOOLEAN
  BY <1>6 DEF ConfigInv, Typed
<1> QED BY <1>2, <1>5, <1>6, <1>7, <1>8, <1>9, <1>10, Moved

(* The uploads: a logo and a section of their own.                          *)
LEMMA LogoKept ==
    ASSUME NEW c \in Config, NEW d, d = [c EXCEPT !.logo = 1]
    PROVE  d \in Config /\ Kept(c, d, {"logo"}) /\ d.logo = 1 /\ d.admin = c.admin /\ (ValidTrust(c) => ValidTrust(d))
<1>1. 1 \in 0..1
  OBVIOUS
<1>2. Kept(c, d, {"logo"}) /\ d.logo = 1
  BY <1>1 DEF Kept, Fields, Config
<1>3. d.admin = c.admin
  BY <1>2 DEF Kept, Fields
<1>4. ValidTrust(c) => ValidTrust(d)
  <2>1. d.trust = c.trust /\ d.proxies = c.proxies
    BY <1>2 DEF Kept, Fields
  <2> QED BY <2>1 DEF ValidTrust
<1> QED BY <1>2, <1>3, <1>4 DEF Kept

\* A new intelligence section leaves the other settings alone.
LEMMA IntelKept ==
    ASSUME NEW c \in Config, NEW on \in BOOLEAN, NEW d, d = [c EXCEPT !.intel = on]
    PROVE  d \in Config /\ Kept(c, d, {"intel"}) /\ d.admin = c.admin /\ (ValidTrust(c) => ValidTrust(d))
<1>2. Kept(c, d, {"intel"})
  BY DEF Kept, Fields, Config
<1>3. d.admin = c.admin
  BY <1>2 DEF Kept, Fields
<1> QED BY <1>2, <1>3, TrustKept DEF Kept

(* A configuration that differs in the logo or the section alone.           *)
LEMMA ReplacedAgree ==
    ASSUME NEW p \in Runtime, NEW c, Kept(p.cfg, c, {"logo", "intel"}), Agree(p), NEW q,
           q = ReplaceConfig(p, c)
    PROVE  q \in Runtime /\ q.cfg = c /\ q.pipe = p.pipe /\ Agree(q)
<1>1. c \in Config
  BY DEF Kept
<1>2. /\ q \in Runtime /\ q.cfg = c /\ q.flag = p.flag /\ q.pipe = p.pipe /\ q.engines = p.engines
      /\ q.nets = p.nets /\ q.guard = p.guard /\ q.mgr = p.mgr /\ q.limiter = p.limiter /\ q.feeds = p.feeds
  BY <1>1, ReplaceConfigIs
<1>3. /\ c.coraza = p.cfg.coraza /\ c.ml = p.cfg.ml /\ c.chal = p.cfg.chal
      /\ c.proxies = p.cfg.proxies /\ c.prot = p.cfg.prot /\ c.diff = p.cfg.diff
      /\ c.rate = p.cfg.rate /\ c.token = p.cfg.token
  BY DEF Kept, Fields
<1>4. Kept(c, p.pipe, {"qf", "token", "intel", "logo"})
  BY DEF Agree, Kept, Fields
<1> QED BY <1>2, <1>3, <1>4 DEF Agree

\* Reading the configuration for an upload preserves the invariant.
LEMMA AssetsStep ==
    ASSUME ConfigInv, NEW h \in Saver, handleAppearanceAssets(h)
    PROVE  ConfigInv'
<1> DEFINE c == [proc.cfg EXCEPT !.logo = 1]
           t == [pc |-> "replace", cfg |-> c]
<1>1. BeginSave(h)
  BY DEF handleAppearanceAssets
<1>2. /\ proc \in Runtime /\ proc.cfg \in Config /\ proc.cfg.admin /\ LoadWithFlagsMode(inputs).admin
      /\ ValidTrust(proc.cfg) /\ PipeTrust(proc) /\ job[h] = NoJob
      /\ ~lost => Agree(proc) /\ (proc.pipe.logo = proc.cfg.logo \/ \E k \in Saver : job[k].pc \in {"flag", "apply"})
      /\ clean /\ Alone(h) =>
                /\ last # Absent /\ last \in SafeConfig /\ validateSafeConfig(last) /\ overrides = last
                /\ Carries(proc.cfg, last) /\ CarriesLogo(proc.cfg, last)
  BY <1>1, BeginIs
<1>3. Goto(h, t)
  BY DEF handleAppearanceAssets
<1>c. c \in Config /\ c.admin /\ ValidTrust(c)
  BY <1>2, LogoKept
<1>4. t \in ConfigTasks /\ t.pc = "replace" /\ t.cfg = c
  BY <1>c DEF ConfigTasks
<1>d. c = [proc.cfg EXCEPT !.logo = 1]
  OBVIOUS
<1> HIDE DEF t, c
<1>5. job' \in [Saver -> ConfigTasks] /\ job'[h] = t /\ \A k \in Saver \ {h} : job'[k] = job[k]
  BY <1>3, <1>4, GotoIs DEF ConfigInv
<1>6. /\ inputs' = inputs /\ proc' = proc /\ overrides' = overrides /\ lost' = lost /\ clean' = (clean /\ Alone(h))
      /\ last' = IF last = Absent THEN Absent ELSE MergeAndEncode(last, Absent, 1)
  BY Words DEF handleAppearanceAssets, ConfigInv, Typed
<1>a. Absent \in BodyFeeds /\ 1 \in BodyBit
  BY DEF BodyFeeds, BodyBit
<1>7. last' \in {Absent} \cup SafeConfig
  <2>1. last \in {Absent} \cup SafeConfig
    BY DEF ConfigInv, Typed
  <2>2. MergeAndEncode(last, Absent, 1) \in SafeConfig
    BY <1>a, <2>1, MergeAndEncodeIs
  <2> QED BY <1>6, <2>2
<1>8. ~lost' => proc.pipe.logo = proc.cfg.logo \/ \E k \in Saver : job'[k].pc \in {"flag", "apply"}
  BY <1>2, <1>5, <1>6, IdlePc
<1>9. ASSUME clean'
      PROVE  /\ last' # Absent /\ validateSafeConfig(last') /\ (\A k \in Saver \ {h} : job[k] = NoJob)
             /\ Pending(job[h])' /\ Carries(proc'.cfg, last')
  <2>1. clean /\ Alone(h)
    BY <1>6, <1>9
  <2>2. last' = MergeAndEncode(last, Absent, 1)
    BY <1>2, <1>6, <2>1
  <2>3. last' \in SafeConfig /\ Same(last, last') /\ last'.qf = last.qf
    BY <1>a, <1>2, <2>1, <2>2, MergeAndEncodeIs
  <2>4. validateSafeConfig(last')
    BY <1>2, <2>1, <2>3 DEF validateSafeConfig, Same
  <2>5. Kept(proc.cfg, proc'.cfg, {"logo", "intel"})
    BY <1>2, <1>6 DEF Kept
  <2>6. Carries(proc'.cfg, last')
    BY <1>2, <2>1, <2>3, <2>5, OthersCarry
  <2>7. Pending(job[h])'
    <3>1. overrides' # Absent /\ MergeAndEncode(overrides', Absent, 1) = last'
      BY <1>2, <1>6, <2>1, <2>2
    <3>2. job'[h].cfg = [proc'.cfg EXCEPT !.logo = 1]
      BY <1>4, <1>5, <1>6, <1>d
    <3> QED BY <1>4, <1>5, <3>1, <3>2 DEF Pending, MergeAndEncode, DecodeSafeConfig, Blank, setNonEmpty
  <2> QED BY AbsentIsNoValue, <2>1, <2>3, <2>4, <2>6, <2>7 DEF Alone
<1>10. Holds(job'[h]) => ValidTrust(job'[h].cfg) /\ job'[h].cfg.admin
  BY <1>4, <1>5, <1>c
<1>11. overrides' \in {Absent} \cup SafeConfig /\ clean' \in BOOLEAN /\ lost' \in BOOLEAN
  BY <1>6 DEF ConfigInv, Typed, Alone
<1> QED BY <1>2, <1>4, <1>5, <1>6, <1>7, <1>8, <1>9, <1>10, <1>11, Moved

\* Reading the configuration for a new section preserves the invariant.
LEMMA IntelBeginStep ==
    ASSUME ConfigInv, NEW h \in Saver, NEW on \in BOOLEAN, handleThreatIntelConfig(h, on)
    PROVE  ConfigInv'
<1> DEFINE c == [proc.cfg EXCEPT !.intel = on]
           t == [pc |-> "intel", on |-> on, cfg |-> c]
<1>1. BeginSave(h)
  BY DEF handleThreatIntelConfig
<1>2. /\ proc \in Runtime /\ proc.cfg \in Config /\ proc.cfg.admin /\ LoadWithFlagsMode(inputs).admin
      /\ ValidTrust(proc.cfg) /\ PipeTrust(proc) /\ job[h] = NoJob
      /\ ~lost => Agree(proc) /\ (proc.pipe.logo = proc.cfg.logo \/ \E k \in Saver : job[k].pc \in {"flag", "apply"})
      /\ clean /\ Alone(h) =>
                /\ last # Absent /\ last \in SafeConfig /\ validateSafeConfig(last) /\ overrides = last
                /\ Carries(proc.cfg, last) /\ CarriesLogo(proc.cfg, last)
  BY <1>1, BeginIs
<1>3. Goto(h, t)
  BY DEF handleThreatIntelConfig
<1>c. c \in Config /\ c.admin /\ ValidTrust(c)
  BY <1>2, IntelKept
<1>4. t \in ConfigTasks /\ t.pc = "intel" /\ t.cfg = c /\ t.on = on
  BY <1>c DEF ConfigTasks
<1>d. c = [proc.cfg EXCEPT !.intel = on]
  OBVIOUS
<1> HIDE DEF t, c
<1>5. job' \in [Saver -> ConfigTasks] /\ job'[h] = t /\ \A k \in Saver \ {h} : job'[k] = job[k]
  BY <1>3, <1>4, GotoIs DEF ConfigInv
<1>6. /\ inputs' = inputs /\ proc' = proc /\ overrides' = overrides /\ lost' = lost /\ clean' = (clean /\ Alone(h))
      /\ last' = last
  BY DEF handleThreatIntelConfig
<1>8. ~lost' => proc.pipe.logo = proc.cfg.logo \/ \E k \in Saver : job'[k].pc \in {"flag", "apply"}
  BY <1>2, <1>5, <1>6, IdlePc
<1>9. ASSUME clean'
      PROVE  /\ last' # Absent /\ validateSafeConfig(last') /\ (\A k \in Saver \ {h} : job[k] = NoJob)
             /\ Pending(job[h])' /\ Carries(proc'.cfg, last') /\ CarriesLogo(proc'.cfg, last')
  <2>1. clean /\ Alone(h)
    BY <1>6, <1>9
  <2>2. job'[h].cfg = [proc'.cfg EXCEPT !.intel = job'[h].on]
    BY <1>4, <1>5, <1>6, <1>d
  <2>3. Pending(job[h])'
    BY <1>2, <1>4, <1>5, <1>6, <2>1, <2>2 DEF Pending
  <2> QED BY <1>2, <1>6, <2>1, <2>3 DEF Alone
<1>10. Holds(job'[h]) => ValidTrust(job'[h].cfg) /\ job'[h].cfg.admin
  BY <1>4, <1>5, <1>c
<1>11. /\ overrides' \in {Absent} \cup SafeConfig /\ last' \in {Absent} \cup SafeConfig
       /\ clean' \in BOOLEAN /\ lost' \in BOOLEAN
  BY <1>6 DEF ConfigInv, Typed, Alone
<1> QED BY <1>2, <1>5, <1>6, <1>8, <1>9, <1>10, <1>11, Moved

\* A body is the same as itself.
LEMMA SameBody ==
    ASSUME NEW s \in SafeConfig
    PROVE  Same(s, s)
  BY DEF Same

\* Putting the configuration back with the new URL preserves the invariant.
LEMMA ReplaceStep ==
    ASSUME ConfigInv, NEW h \in Saver, AppearanceReplace(h)
    PROVE  ConfigInv'
<1> DEFINE c == job[h].cfg
           t == [pc |-> "flag", cfg |-> c]
<1>1. job[h] # NoJob /\ job[h].pc = "replace"
  BY IdlePc DEF AppearanceReplace
<1>2. /\ proc \in Runtime /\ proc.cfg \in Config /\ proc.pipe \in Config /\ proc.cfg.admin
      /\ LoadWithFlagsMode(inputs).admin /\ ValidTrust(proc.cfg) /\ PipeTrust(proc) /\ job[h] \in ConfigTasks
      /\ Holds(job[h]) => ValidTrust(job[h].cfg) /\ job[h].cfg.admin
      /\ ~lost => Agree(proc) /\ (proc.pipe.logo = proc.cfg.logo \/ \E k \in Saver : job[k].pc \in {"flag", "apply"})
      /\ clean =>
           /\ \A k \in Saver \ {h} : job[k] = NoJob
           /\ last # Absent /\ last \in SafeConfig /\ validateSafeConfig(last) /\ Pending(job[h])
           /\ Carries(proc.cfg, last) /\ (CarriesLogo(proc.cfg, last) \/ job[h].pc = "replace")
  BY <1>1, AtWork
<1>3. Goto(h, t)
  BY DEF AppearanceReplace
<1>h. Holds(job[h])
  BY <1>1 DEF Holds
<1>c. c \in Config /\ c.admin /\ ValidTrust(c)
  BY <1>1, <1>2, <1>h, ConfigTaskFields
<1>4. t \in ConfigTasks /\ t.pc = "flag" /\ t.cfg = c
  BY <1>c DEF ConfigTasks
<1> HIDE DEF t
<1>5. job' \in [Saver -> ConfigTasks] /\ job'[h] = t /\ \A k \in Saver \ {h} : job'[k] = job[k]
  BY <1>3, <1>4, GotoIs DEF ConfigInv
<1>6. /\ inputs' = inputs /\ proc' = ReplaceConfig(proc, c) /\ overrides' = overrides /\ last' = last /\ clean' = clean
      /\ lost' = (lost \/ [proc.cfg EXCEPT !.logo = 1] # c)
  BY DEF AppearanceReplace
<1>7. proc' \in Runtime /\ proc'.cfg = c /\ proc'.pipe = proc.pipe /\ proc'.nets = proc.nets
  <2>1. proc \in Runtime /\ proc' = ReplaceConfig(proc, c)
    BY <1>2, <1>6
  <2>2. c \in Config
    BY <1>c
  <2> HIDE DEF c
  <2> QED BY <2>1, <2>2, ReplaceConfigIs
<1>8. ASSUME c = [proc.cfg EXCEPT !.logo = 1]
      PROVE  Kept(proc.cfg, c, {"logo", "intel"}) /\ c.logo = 1
  <2>1. Kept(proc.cfg, c, {"logo"}) /\ c.logo = 1
    BY <1>2, <1>8, LogoKept
  <2> QED BY <2>1 DEF Kept
<1>9. ASSUME ~lost'
      PROVE  Agree(proc') /\ \E k \in Saver : job'[k].pc \in {"flag", "apply"}
  <2>1. ~lost /\ c = [proc.cfg EXCEPT !.logo = 1]
    BY <1>6, <1>9
  <2>2. Agree(proc')
    BY <1>2, <1>6, <1>8, <2>1, ReplacedAgree
  <2> QED BY <1>4, <1>5, <2>2
<1>10. ASSUME clean'
       PROVE  /\ clean /\ Pending(job[h])' /\ Carries(proc'.cfg, last') /\ CarriesLogo(proc'.cfg, last')
  <2>1. clean /\ Pending(job[h]) /\ last \in SafeConfig /\ Carries(proc.cfg, last)
    BY <1>2, <1>6, <1>10
  <2>2. c = [proc.cfg EXCEPT !.logo = 1] /\ overrides # Absent /\ MergeAndEncode(overrides, Absent, 1) = last
    BY <1>1, <2>1 DEF Pending
  <2>3. Carries(proc'.cfg, last')
    BY <1>2, <1>6, <1>7, <1>8, <2>1, <2>2, SameBody, OthersCarry
  <2>4. last.logo = 1
    <3>1. overrides \in {Absent} \cup SafeConfig /\ Absent \in BodyFeeds /\ 1 \in BodyBit
      BY DEF ConfigInv, Typed, BodyFeeds, BodyBit
    <3>2. last.logo = setNonEmpty(overrides.logo, 1)
      BY <2>2, <3>1, MergeAndEncodeIs
    <3> QED BY <3>2 DEF setNonEmpty
  <2>5. Pending(job[h])'
    <3>1. overrides' # Absent /\ MergeAndEncode(overrides', Absent, 1) = last'
      BY <1>6, <2>2
    <3> QED BY <1>4, <1>5, <3>1 DEF Pending, MergeAndEncode, DecodeSafeConfig, Blank, setNonEmpty
  <2> QED BY <1>6, <1>7, <1>8, <2>1, <2>2, <2>3, <2>4, <2>5 DEF CarriesLogo
<1>11. Holds(job'[h]) => ValidTrust(job'[h].cfg) /\ job'[h].cfg.admin
  BY <1>4, <1>5, <1>c
<1>12. /\ overrides' \in {Absent} \cup SafeConfig /\ last' \in {Absent} \cup SafeConfig
       /\ clean' \in BOOLEAN /\ lost' \in BOOLEAN
  BY <1>6 DEF ConfigInv, Typed
<1>13. ValidTrust(proc'.cfg) /\ PipeTrust(proc') /\ proc'.cfg.admin
  BY <1>2, <1>7, <1>c DEF PipeTrust
<1> HIDE DEF c
<1> QED BY <1>2, <1>5, <1>6, <1>7, <1>9, <1>10, <1>11, <1>12, <1>13, Moved

(* Storing the flag of the challenges, for an upload or for a new section,
   preserves the invariant.                                                 *)
LEMMA FlagStep ==
    ASSUME ConfigInv, NEW h \in Saver, ReplaceFlag(h)
    PROVE  ConfigInv'
<1> DEFINE c == job[h].cfg
           t == IF job[h].pc = "flag" THEN [pc |-> "apply", cfg |-> c] ELSE NoJob
<1>1. job[h] # NoJob /\ job[h].pc \in {"flag", "iflag"}
  BY IdlePc DEF ReplaceFlag
<1>2. /\ proc \in Runtime /\ proc.cfg \in Config /\ proc.pipe \in Config /\ proc.cfg.admin
      /\ LoadWithFlagsMode(inputs).admin /\ ValidTrust(proc.cfg) /\ PipeTrust(proc) /\ job[h] \in ConfigTasks
      /\ Holds(job[h]) => ValidTrust(job[h].cfg) /\ job[h].cfg.admin
      /\ ~lost => Agree(proc) /\ (proc.pipe.logo = proc.cfg.logo \/ \E k \in Saver : job[k].pc \in {"flag", "apply"})
      /\ clean =>
           /\ \A k \in Saver \ {h} : job[k] = NoJob
           /\ last # Absent /\ last \in SafeConfig /\ validateSafeConfig(last) /\ Pending(job[h])
           /\ Carries(proc.cfg, last) /\ (CarriesLogo(proc.cfg, last) \/ job[h].pc = "replace")
  BY <1>1, AtWork
<1>3. Goto(h, t)
  BY DEF ReplaceFlag
<1>h. Holds(job[h])
  BY <1>1 DEF Holds
<1>c. c \in Config /\ c.admin /\ ValidTrust(c)
  BY <1>1, <1>2, <1>h, ConfigTaskFields
<1>4. /\ t \in ConfigTasks
      /\ job[h].pc = "flag" => t.pc = "apply" /\ t.cfg = c
      /\ job[h].pc = "iflag" => t.pc = "idle"
  BY <1>c, IdlePc DEF ConfigTasks
<1> HIDE DEF t
<1>5. job' \in [Saver -> ConfigTasks] /\ job'[h] = t /\ \A k \in Saver \ {h} : job'[k] = job[k]
  BY <1>3, <1>4, GotoIs DEF ConfigInv
<1>6. /\ inputs' = inputs /\ proc' = StoreEnabled(proc, c) /\ overrides' = overrides /\ last' = last /\ clean' = clean
      /\ lost' = (lost \/ proc.cfg.chal # c.chal)
  BY DEF ReplaceFlag
<1>7. /\ proc' \in Runtime /\ proc'.cfg = proc.cfg /\ proc'.flag = c.chal /\ proc'.pipe = proc.pipe
      /\ proc'.engines = proc.engines /\ proc'.nets = proc.nets /\ proc'.guard = proc.guard /\ proc'.mgr = proc.mgr
      /\ proc'.limiter = proc.limiter /\ proc'.feeds = proc.feeds
  <2>1. proc \in Runtime /\ proc' = StoreEnabled(proc, c)
    BY <1>2, <1>6
  <2>2. c \in Config
    BY <1>c
  <2> HIDE DEF c
  <2> QED BY <2>1, <2>2, StoreEnabledIs
<1>9. ASSUME ~lost'
      PROVE  Agree(proc') /\ (proc'.pipe.logo = proc'.cfg.logo \/ \E k \in Saver : job'[k].pc \in {"flag", "apply"})
  <2>1. ~lost /\ proc.cfg.chal = c.chal
    BY <1>6, <1>9
  <2>2. Agree(proc')
    BY <1>2, <1>7, <2>1 DEF Agree
  <2>3. \A k \in Saver : job[k].pc \in {"flag", "apply"} => job'[k].pc \in {"flag", "apply"}
    BY <1>1, <1>4, <1>5
  <2> QED BY <1>2, <1>7, <2>1, <2>2, <2>3
<1>10. ASSUME clean'
       PROVE  /\ clean /\ Pending(job[h])' /\ Carries(proc'.cfg, last') /\ CarriesLogo(proc'.cfg, last')
  <2>1. /\ clean /\ Pending(job[h]) /\ Carries(proc.cfg, last) /\ CarriesLogo(proc.cfg, last)
    BY <1>1, <1>2, <1>6, <1>10
  <2>2. Pending(job[h])'
    <3>1. CASE job[h].pc = "flag"
      <4>1. overrides' # Absent /\ MergeAndEncode(overrides', Absent, 1) = last'
        BY <1>6, <2>1, <3>1 DEF Pending
      <4> QED BY <1>4, <1>5, <3>1, <4>1 DEF Pending, MergeAndEncode, DecodeSafeConfig, Blank, setNonEmpty
    <3>2. CASE job[h].pc = "iflag"
      BY <1>4, <1>5, <1>6, <2>1, <3>2 DEF Pending
    <3> QED BY <1>1, <3>1, <3>2
  <2> QED BY <1>6, <1>7, <2>1, <2>2
<1>11. Holds(job'[h]) => ValidTrust(job'[h].cfg) /\ job'[h].cfg.admin
  BY <1>1, <1>4, <1>5, <1>c DEF Holds
<1>12. /\ overrides' \in {Absent} \cup SafeConfig /\ last' \in {Absent} \cup SafeConfig
       /\ clean' \in BOOLEAN /\ lost' \in BOOLEAN
  BY <1>6 DEF ConfigInv, Typed
<1>13. ValidTrust(proc'.cfg) /\ PipeTrust(proc') /\ proc'.cfg.admin
  BY <1>2, <1>7 DEF PipeTrust
<1> HIDE DEF c
<1> QED BY <1>2, <1>5, <1>6, <1>7, <1>9, <1>10, <1>11, <1>12, <1>13, Moved

\* Giving it to the pipeline preserves the invariant.
LEMMA ApplyStep ==
    ASSUME ConfigInv, NEW h \in Saver, AppearanceApply(h)
    PROVE  ConfigInv'
<1> DEFINE c == job[h].cfg
           t == [pc |-> "aget"]
<1>1. job[h] # NoJob /\ job[h].pc = "apply"
  BY IdlePc DEF AppearanceApply
<1>2. /\ proc \in Runtime /\ proc.cfg \in Config /\ proc.pipe \in Config /\ proc.cfg.admin
      /\ LoadWithFlagsMode(inputs).admin /\ ValidTrust(proc.cfg) /\ PipeTrust(proc) /\ job[h] \in ConfigTasks
      /\ Holds(job[h]) => ValidTrust(job[h].cfg) /\ job[h].cfg.admin
      /\ ~lost => Agree(proc) /\ (proc.pipe.logo = proc.cfg.logo \/ \E k \in Saver : job[k].pc \in {"flag", "apply"})
      /\ clean =>
           /\ \A k \in Saver \ {h} : job[k] = NoJob
           /\ last # Absent /\ last \in SafeConfig /\ validateSafeConfig(last) /\ Pending(job[h])
           /\ Carries(proc.cfg, last) /\ (CarriesLogo(proc.cfg, last) \/ job[h].pc = "replace")
  BY <1>1, AtWork
<1>3. Goto(h, t)
  BY DEF AppearanceApply
<1>h. Holds(job[h])
  BY <1>1 DEF Holds
<1>c. c \in Config /\ c.admin /\ ValidTrust(c)
  BY <1>1, <1>2, <1>h, ConfigTaskFields
<1>4. t \in ConfigTasks /\ t.pc = "aget"
  BY DEF ConfigTasks
<1> HIDE DEF t
<1>5. job' \in [Saver -> ConfigTasks] /\ job'[h] = t /\ \A k \in Saver \ {h} : job'[k] = job[k]
  BY <1>3, <1>4, GotoIs DEF ConfigInv
<1>6. /\ inputs' = inputs /\ proc' = ApplyConfig(proc, c) /\ overrides' = overrides /\ last' = last /\ clean' = clean
      /\ lost' = (lost \/ proc.cfg # c)
  BY DEF AppearanceApply
<1>7. /\ proc' \in Runtime /\ proc'.cfg = proc.cfg /\ proc'.pipe = c /\ proc'.engines = proc.engines
      /\ proc'.flag = proc.flag /\ proc'.feeds = proc.feeds /\ proc'.guard = proc.guard
      /\ c.proxies # "bad" => proc'.nets = c.proxies
      /\ proc'.mgr # Absent /\ c.diff > 0 => liveSettings(proc'.mgr) = c.diff
      /\ proc'.limiter # Absent => proc'.limiter.rate = c.rate
  <2>1. proc \in Runtime /\ proc' = ApplyConfig(proc, c)
    BY <1>2, <1>6
  <2>2. c \in Config
    BY <1>c
  <2> HIDE DEF c
  <2> QED BY <2>1, <2>2, ApplyConfigIs
<1>9. ASSUME ~lost'
      PROVE  Agree(proc') /\ proc'.pipe.logo = proc'.cfg.logo
  <2>1. ~lost /\ c = proc.cfg
    BY <1>6, <1>9
  <2>2. Kept(c, c, {"qf", "token", "intel", "logo"})
    BY <1>c DEF Kept
  <2> QED BY <1>2, <1>7, <2>1, <2>2 DEF Agree
<1>10. ASSUME clean'
       PROVE  /\ clean /\ Pending(job[h])' /\ Carries(proc'.cfg, last') /\ CarriesLogo(proc'.cfg, last')
  <2>1. /\ clean /\ Pending(job[h]) /\ last \in SafeConfig /\ Carries(proc.cfg, last)
        /\ CarriesLogo(proc.cfg, last)
    BY <1>1, <1>2, <1>6, <1>10
  <2>2. overrides' # Absent /\ MergeAndEncode(overrides', Absent, 1) = last'
    BY <1>1, <1>6, <2>1 DEF Pending
  <2>5. Pending(job[h])'
    BY <1>4, <1>5, <2>2 DEF Pending, MergeAndEncode, DecodeSafeConfig, Blank, setNonEmpty
  <2> QED BY <1>6, <1>7, <2>1, <2>5
<1>11. ~Holds(job'[h])
  BY <1>4, <1>5 DEF Holds
<1>12. /\ overrides' \in {Absent} \cup SafeConfig /\ last' \in {Absent} \cup SafeConfig
       /\ clean' \in BOOLEAN /\ lost' \in BOOLEAN
  BY <1>6 DEF ConfigInv, Typed
<1>13. ValidTrust(proc'.cfg) /\ PipeTrust(proc') /\ proc'.cfg.admin
  BY <1>2, <1>7, <1>c DEF PipeTrust
<1> HIDE DEF c
<1> QED BY <1>2, <1>5, <1>6, <1>7, <1>9, <1>10, <1>11, <1>12, <1>13, Moved

(* Putting the configuration back with the new section preserves the
   invariant.                                                               *)
LEMMA IntelStep ==
    ASSUME ConfigInv, NEW h \in Saver, ThreatIntelReplace(h)
    PROVE  ConfigInv'
<1> DEFINE c == job[h].cfg
           t == [pc |-> "iflag", cfg |-> c]
<1>1. job[h] # NoJob /\ job[h].pc = "intel"
  BY IdlePc DEF ThreatIntelReplace
<1>2. /\ proc \in Runtime /\ proc.cfg \in Config /\ proc.pipe \in Config /\ proc.cfg.admin
      /\ LoadWithFlagsMode(inputs).admin /\ ValidTrust(proc.cfg) /\ PipeTrust(proc) /\ job[h] \in ConfigTasks
      /\ Holds(job[h]) => ValidTrust(job[h].cfg) /\ job[h].cfg.admin
      /\ ~lost => Agree(proc) /\ (proc.pipe.logo = proc.cfg.logo \/ \E k \in Saver : job[k].pc \in {"flag", "apply"})
      /\ clean =>
           /\ \A k \in Saver \ {h} : job[k] = NoJob
           /\ last # Absent /\ last \in SafeConfig /\ validateSafeConfig(last) /\ Pending(job[h])
           /\ Carries(proc.cfg, last) /\ (CarriesLogo(proc.cfg, last) \/ job[h].pc = "replace")
  BY <1>1, AtWork
<1>3. Goto(h, t)
  BY DEF ThreatIntelReplace
<1>h. Holds(job[h])
  BY <1>1 DEF Holds
<1>c. c \in Config /\ c.admin /\ ValidTrust(c) /\ job[h].on \in BOOLEAN
  BY <1>1, <1>2, <1>h, ConfigTaskFields
<1>4. t \in ConfigTasks /\ t.pc = "iflag" /\ t.cfg = c
  BY <1>c DEF ConfigTasks
<1> HIDE DEF t
<1>5. job' \in [Saver -> ConfigTasks] /\ job'[h] = t /\ \A k \in Saver \ {h} : job'[k] = job[k]
  BY <1>3, <1>4, GotoIs DEF ConfigInv
<1>6. /\ inputs' = inputs /\ proc' = ReplaceConfig(proc, c) /\ overrides' = overrides /\ last' = last /\ clean' = clean
      /\ lost' = (lost \/ [proc.cfg EXCEPT !.intel = job[h].on] # c)
  BY DEF ThreatIntelReplace
<1>7. proc' \in Runtime /\ proc'.cfg = c /\ proc'.pipe = proc.pipe /\ proc'.nets = proc.nets
  <2>1. proc \in Runtime /\ proc' = ReplaceConfig(proc, c)
    BY <1>2, <1>6
  <2>2. c \in Config
    BY <1>c
  <2> HIDE DEF c
  <2> QED BY <2>1, <2>2, ReplaceConfigIs
<1>8. ASSUME c = [proc.cfg EXCEPT !.intel = job[h].on]
      PROVE  Kept(proc.cfg, c, {"logo", "intel"}) /\ c.logo = proc.cfg.logo
  <2>1. Kept(proc.cfg, c, {"intel"})
    BY <1>2, <1>8, <1>c, IntelKept
  <2> QED BY <2>1 DEF Kept, Fields
<1>9. ASSUME ~lost'
      PROVE  Agree(proc') /\ (proc'.pipe.logo = proc'.cfg.logo \/ \E k \in Saver : job'[k].pc \in {"flag", "apply"})
  <2>1. ~lost /\ c = [proc.cfg EXCEPT !.intel = job[h].on]
    BY <1>6, <1>9
  <2>2. Agree(proc')
    BY <1>2, <1>6, <1>8, <2>1, ReplacedAgree
  <2>3. \A k \in Saver : job[k].pc \in {"flag", "apply"} => job'[k].pc \in {"flag", "apply"}
    BY <1>1, <1>5
  <2> QED BY <1>2, <1>7, <1>8, <2>1, <2>2, <2>3
<1>10. ASSUME clean'
       PROVE  /\ clean /\ Pending(job[h])' /\ Carries(proc'.cfg, last') /\ CarriesLogo(proc'.cfg, last')
  <2>1. /\ clean /\ Pending(job[h]) /\ last \in SafeConfig /\ Carries(proc.cfg, last)
        /\ CarriesLogo(proc.cfg, last)
    BY <1>1, <1>2, <1>6, <1>10
  <2>2. c = [proc.cfg EXCEPT !.intel = job[h].on] /\ overrides = last
    BY <1>1, <2>1 DEF Pending
  <2>3. Carries(proc'.cfg, last')
    BY <1>2, <1>6, <1>7, <1>8, <2>1, <2>2, SameBody, OthersCarry
  <2>5. Pending(job[h])'
    BY <1>4, <1>5, <1>6, <2>2 DEF Pending
  <2> QED BY <1>6, <1>7, <1>8, <2>1, <2>2, <2>3, <2>5 DEF CarriesLogo
<1>11. Holds(job'[h]) => ValidTrust(job'[h].cfg) /\ job'[h].cfg.admin
  BY <1>4, <1>5, <1>c
<1>12. /\ overrides' \in {Absent} \cup SafeConfig /\ last' \in {Absent} \cup SafeConfig
       /\ clean' \in BOOLEAN /\ lost' \in BOOLEAN
  BY <1>6 DEF ConfigInv, Typed
<1>13. ValidTrust(proc'.cfg) /\ PipeTrust(proc') /\ proc'.cfg.admin
  BY <1>2, <1>7, <1>c DEF PipeTrust
<1> HIDE DEF c
<1> QED BY <1>2, <1>5, <1>6, <1>7, <1>9, <1>10, <1>11, <1>12, <1>13, Moved

\* A start, with the stored blob applied again, preserves the invariant.
LEMMA BootStep ==
    ASSUME ConfigInv, runEdge
    PROVE  ConfigInv'
<1> DEFINE c == LoadWithFlagsMode(inputs)
<1>1. /\ proc = Absent /\ Bootable(inputs) /\ proc' = Booted(inputs, overrides) /\ lost' = FALSE
      /\ inputs' = inputs /\ overrides' = overrides /\ job' = job /\ last' = last /\ clean' = clean
  BY DEF runEdge
<1>2. inputs \in Files /\ overrides \in {Absent} \cup SafeConfig
  BY DEF ConfigInv, Typed
<1>3. c = LoadWithFlagsMode(inputs)
  OBVIOUS
<1> HIDE DEF c
<1>4. /\ proc' \in Runtime /\ ValidTrust(proc'.cfg) /\ PipeTrust(proc') /\ Agree(proc')
      /\ proc'.pipe.logo = proc'.cfg.logo /\ proc'.cfg.admin = c.admin
      /\ ~c.admin => proc'.cfg = c
      /\ c.admin /\ overrides # Absent /\ validateSafeConfig(overrides) =>
           Carries(proc'.cfg, overrides) /\ CarriesLogo(proc'.cfg, overrides)
  BY <1>1, <1>2, <1>3, BootedIs
<1>5. proc' # Absent
  BY AbsentIsNoValue, <1>4
<1>6. \A h \in Saver : job[h] = NoJob
  BY <1>1 DEF ConfigInv, Trusted
<1>7. Typed'
  BY <1>1, <1>4 DEF ConfigInv, Typed
<1>8. Trusted'
  <2>1. \A h \in Saver : job'[h] = NoJob /\ ~Holds(job'[h])
    BY <1>1, <1>6, IdlePc DEF Holds
  <2> QED BY <1>4, <2>1 DEF Trusted, Holds, PipeTrust, ValidTrust
<1>9. Following'
  <2>1. Agree(proc)'
    BY <1>4 DEF Agree, Kept, liveSettings
  <2> QED BY <1>4, <2>1 DEF Following
<1>10. Rooted'
  BY <1>1, <1>3, <1>4 DEF Rooted
<1>11. Remembered'
  <2> SUFFICES ASSUME clean'
               PROVE  Remembered'
    BY DEF Remembered
  <2>1. last # Absent /\ validateSafeConfig(last) /\ overrides = last
    BY <1>1, <1>6 DEF ConfigInv, Remembered, Quiet
  <2>2. \A h \in Saver : job'[h] = NoJob
    BY <1>1, <1>6
  <2>3. (last # Absent /\ validateSafeConfig(last))'
    BY <1>1, <2>1 DEF validateSafeConfig
  <2>4. proc'.cfg.admin => Carries(proc'.cfg, last') /\ CarriesLogo(proc'.cfg, last')
    BY <1>1, <1>4, <2>1
  <2>5. (proc # Absent /\ proc.cfg.admin =>
           Carries(proc.cfg, last) /\ (CarriesLogo(proc.cfg, last) \/ \E k \in Saver : job[k].pc = "replace"))'
    BY <2>4 DEF Carries, CarriesLogo, CorazaLive, MLLive
  <2>6. (Quiet => overrides = last)'
    BY <1>1, <2>1
  <2> QED BY <2>2, <2>3, <2>5, <2>6 DEF Remembered
<1> QED BY <1>7, <1>8, <1>9, <1>10, <1>11 DEF ConfigInv

\* A crash at any point of any handler preserves the invariant.
LEMMA CrashStep ==
    ASSUME ConfigInv, Crash
    PROVE  ConfigInv'
<1>1. /\ proc' = Absent /\ job' = [h \in Saver |-> NoJob]
      /\ clean' = (clean /\ \A h \in Saver : job[h] = NoJob)
      /\ inputs' = inputs /\ overrides' = overrides /\ last' = last /\ lost' = lost
  BY DEF Crash
<1>2. \A h \in Saver : job'[h] = NoJob
  BY <1>1
<1>3. Typed'
  BY <1>1, IdlePc DEF ConfigInv, Typed
<1>4. Trusted'
  <2>1. \A h \in Saver : ~Holds(job'[h])
    BY <1>2, IdlePc DEF Holds
  <2> QED BY <1>1, <1>2, <2>1 DEF Trusted, Holds
<1>5. Following' /\ Rooted'
  BY <1>1 DEF Following, Rooted
<1>6. Remembered'
  <2> SUFFICES ASSUME clean'
               PROVE  Remembered'
    BY DEF Remembered
  <2>1. last # Absent /\ validateSafeConfig(last) /\ overrides = last
    BY <1>1 DEF ConfigInv, Remembered, Quiet
  <2>2. (last # Absent /\ validateSafeConfig(last))' /\ (Quiet => overrides = last)'
    BY <1>1, <2>1 DEF validateSafeConfig
  <2> QED BY <1>1, <1>2, <2>2 DEF Remembered
<1> QED BY <1>3, <1>4, <1>5, <1>6 DEF ConfigInv

\* Editing the file while the edge is down preserves the invariant.
LEMMA EditStep ==
    ASSUME ConfigInv, EditFile
    PROVE  ConfigInv'
<1>1. /\ proc = Absent /\ inputs' \in Files /\ proc' = proc /\ overrides' = overrides /\ job' = job
      /\ last' = last /\ clean' = clean /\ lost' = lost
  BY DEF EditFile
<1>2. \A h \in Saver : job[h] = NoJob
  BY <1>1 DEF ConfigInv, Trusted
<1>3. Typed'
  BY <1>1 DEF ConfigInv, Typed
<1>4. Trusted'
  <2>1. \A h \in Saver : job'[h] = NoJob /\ ~Holds(job'[h])
    BY <1>1, <1>2, IdlePc DEF Holds
  <2> QED BY <1>1, <2>1 DEF Trusted, Holds
<1>5. Following' /\ Rooted'
  BY <1>1 DEF Following, Rooted
<1>6. Remembered'
  <2> SUFFICES ASSUME clean'
               PROVE  Remembered'
    BY DEF Remembered
  <2>1. last # Absent /\ validateSafeConfig(last) /\ overrides = last
    BY <1>1, <1>2 DEF ConfigInv, Remembered, Quiet
  <2>2. (last # Absent /\ validateSafeConfig(last))' /\ (Quiet => overrides = last)'
    BY <1>1, <2>1 DEF validateSafeConfig
  <2> QED BY <1>1, <1>2, <2>2 DEF Remembered
<1> QED BY <1>3, <1>4, <1>5, <1>6 DEF ConfigInv

\* The first start establishes the invariant.
LEMMA ConfigInitInv ==
    ASSUME ConfigInit
    PROVE  ConfigInv
<1> DEFINE c == LoadWithFlagsMode(inputs)
<1>1. /\ inputs \in Files /\ Bootable(inputs) /\ proc = Booted(inputs, Absent) /\ overrides = Absent
      /\ job = [h \in Saver |-> NoJob] /\ last = Absent /\ clean = FALSE /\ lost = FALSE
  BY DEF ConfigInit
<1>2. Absent \in {Absent} \cup SafeConfig /\ c = LoadWithFlagsMode(inputs)
  OBVIOUS
<1> HIDE DEF c
<1>3. /\ proc \in Runtime /\ ValidTrust(proc.cfg) /\ PipeTrust(proc) /\ Agree(proc)
      /\ proc.pipe.logo = proc.cfg.logo /\ proc.cfg.admin = c.admin /\ (~c.admin => proc.cfg = c)
  BY <1>1, <1>2, BootedIs
<1>4. Typed
  BY <1>1, <1>3, IdlePc DEF Typed
<1>5. Trusted
  <2>1. \A h \in Saver : job[h] = NoJob /\ ~Holds(job[h])
    BY <1>1, IdlePc DEF Holds
  <2> QED BY <1>3, <2>1 DEF Trusted
<1>6. Following /\ Rooted /\ Remembered
  BY <1>1, <1>2, <1>3 DEF Following, Rooted, Remembered
<1> QED BY <1>4, <1>5, <1>6 DEF ConfigInv

\* The first use of the challenge manager preserves the invariant.
LEMMA FirstUseStep ==
    ASSUME ConfigInv, FirstUse
    PROVE  ConfigInv'
<1> DEFINE m == [diff |-> proc.mgr.diff, live |-> proc.mgr.diff]
<1>1. /\ proc # Absent /\ proc.mgr # Absent /\ proc.mgr.live = Absent /\ proc' = [proc EXCEPT !.mgr = m]
      /\ inputs' = inputs /\ overrides' = overrides /\ job' = job /\ last' = last /\ clean' = clean /\ lost' = lost
  BY DEF FirstUse
<1>2. proc \in Runtime /\ proc.mgr \in Manager
  BY <1>1, RuntimeFields DEF ConfigInv, Typed
<1>3. m \in Manager /\ liveSettings(m) = liveSettings(proc.mgr)
  <2>1. proc.mgr.diff \in 0..2
    BY <1>2 DEF Manager
  <2> QED BY <1>1, <2>1, AbsentIsNoValue DEF Manager, liveSettings
<1> HIDE DEF m
<1>4. /\ proc' \in Runtime /\ proc'.mgr = m /\ proc'.cfg = proc.cfg /\ proc'.pipe = proc.pipe
      /\ proc'.engines = proc.engines /\ proc'.flag = proc.flag /\ proc'.nets = proc.nets
      /\ proc'.feeds = proc.feeds /\ proc'.limiter = proc.limiter /\ proc'.guard = proc.guard
  BY <1>1, <1>2, <1>3 DEF Runtime
<1>5. proc' # Absent
  BY <1>4, AbsentIsNoValue
<1>6. Typed'
  BY <1>1, <1>4 DEF ConfigInv, Typed
<1>7. Trusted'
  BY <1>1, <1>4, <1>5 DEF ConfigInv, Trusted, Holds, ValidTrust, PipeTrust
<1>8. Following'
  <2> SUFFICES ASSUME ~lost
               PROVE  Following'
    BY <1>1 DEF Following
  <2>1. Agree(proc)
    BY <1>1 DEF ConfigInv, Following
  <2>2. Agree(proc)'
    BY <1>1, <1>3, <1>4, <2>1 DEF Agree, Kept, liveSettings
  <2>3. (proc.pipe.logo = proc.cfg.logo \/ \E h \in Saver : job[h].pc \in {"flag", "apply"})'
    BY <1>1, <1>4 DEF ConfigInv, Following
  <2> QED BY <2>2, <2>3 DEF Following
<1>9. Rooted'
  BY <1>1, <1>4 DEF ConfigInv, Rooted
<1>10. Remembered'
  <2>1. Quiet' = Quiet /\ \A h \in Saver : Pending(job[h])' = Pending(job[h])
    BY <1>1, <1>4 DEF Quiet, Pending, MergeAndEncode, DecodeSafeConfig, Blank, setNonEmpty
  <2>2. /\ Carries(proc.cfg, last)' = Carries(proc.cfg, last) /\ CarriesLogo(proc.cfg, last)' = CarriesLogo(proc.cfg, last)
        /\ validateSafeConfig(last)' = validateSafeConfig(last)
    BY <1>1, <1>4 DEF Carries, CarriesLogo, CorazaLive, MLLive, validateSafeConfig
  <2> QED BY <1>1, <1>4, <2>1, <2>2 DEF ConfigInv, Remembered
<1> QED BY <1>6, <1>7, <1>8, <1>9, <1>10 DEF ConfigInv

\* So does a step of nothing.
LEMMA StutterInv ==
    ASSUME ConfigInv, UNCHANGED configVars
    PROVE  ConfigInv'
<1> USE DEF configVars
<1>1. Typed' /\ Rooted'
  BY DEF ConfigInv, Typed, Rooted
<1>2. Trusted'
  BY DEF ConfigInv, Trusted, Holds, ValidTrust, PipeTrust
<1>3. Following'
  BY DEF ConfigInv, Following, Agree, Kept, liveSettings
<1>4. Remembered'
  <2>1. Quiet' = Quiet /\ \A h \in Saver : Pending(job[h])' = Pending(job[h])
    BY DEF Quiet, Pending, MergeAndEncode, DecodeSafeConfig, Blank, setNonEmpty
  <2>2. Carries(proc.cfg, last)' = Carries(proc.cfg, last) /\ CarriesLogo(proc.cfg, last)' = CarriesLogo(proc.cfg, last)
        /\ validateSafeConfig(last)' = validateSafeConfig(last)
    BY DEF Carries, CarriesLogo, CorazaLive, MLLive, validateSafeConfig
  <2> QED BY <2>1, <2>2 DEF ConfigInv, Remembered
<1> QED BY <1>1, <1>2, <1>3, <1>4 DEF ConfigInv

(* The inductive invariant of the live configuration, its handlers and the
   stored blob.                                                             *)
THEOREM ConfigInvariance ==
    ConfigSpec => []ConfigInv
<1>1. ConfigInit => ConfigInv
  BY ConfigInitInv
<1>2. ConfigInv /\ [ConfigNext]_configVars => ConfigInv'
  <2> SUFFICES ASSUME ConfigInv, [ConfigNext]_configVars
               PROVE  ConfigInv'
    OBVIOUS
  <2>1. CASE runEdge
    BY <2>1, BootStep
  <2>2. CASE Crash
    BY <2>2, CrashStep
  <2>3. CASE EditFile
    BY <2>3, EditStep
  <2>4. ASSUME NEW h \in Saver, NEW s \in Bodies, handleConfig(h, s)
        PROVE  ConfigInv'
    BY <2>4, ConfigStep
  <2>5. ASSUME NEW h \in Saver, NEW q \in Feeds, handleQFeeds(h, q)
        PROVE  ConfigInv'
    BY <2>5, QFeedsStep
  <2>6. ASSUME NEW h \in Saver, NEW on \in BOOLEAN, handleThreatIntelConfig(h, on)
        PROVE  ConfigInv'
    BY <2>6, IntelBeginStep
  <2>7. ASSUME NEW h \in Saver, handleAppearanceAssets(h)
        PROVE  ConfigInv'
    BY <2>7, AssetsStep
  <2>8. ASSUME NEW h \in Saver, ThreatIntelReplace(h)
        PROVE  ConfigInv'
    BY <2>8, IntelStep
  <2>9. ASSUME NEW h \in Saver, QFeedsGet(h)
        PROVE  ConfigInv'
    BY <2>9, QFeedsGetStep
  <2>10. ASSUME NEW h \in Saver, AppearanceReplace(h)
         PROVE  ConfigInv'
    BY <2>10, ReplaceStep
  <2>11. ASSUME NEW h \in Saver, AppearanceApply(h)
         PROVE  ConfigInv'
    BY <2>11, ApplyStep
  <2>12. ASSUME NEW h \in Saver, persistAppearanceURL(h)
         PROVE  ConfigInv'
    BY <2>12, PersistStep
  <2>13. ASSUME NEW h \in Saver, SetConfigOverrides(h)
         PROVE  ConfigInv'
    BY <2>13, OverridesStep
  <2>14. ASSUME NEW h \in Saver, SetFleetDefaults(h)
         PROVE  ConfigInv'
    BY <2>14, FleetStep
  <2>15. CASE UNCHANGED configVars
    BY <2>15, StutterInv
  <2>16. CASE FirstUse
    BY <2>16, FirstUseStep
  <2>17. ASSUME NEW h \in Saver, ReplaceFlag(h)
         PROVE  ConfigInv'
    BY <2>17, FlagStep
  <2> QED BY <2>1, <2>2, <2>3, <2>4, <2>5, <2>6, <2>7, <2>8, <2>9, <2>10, <2>11, <2>12, <2>13, <2>14, <2>15,
             <2>16, <2>17
             DEF ConfigNext
<1> QED BY <1>1, <1>2, PTL DEF ConfigSpec

(* Whatever was loaded, saved, uploaded and applied again at a start, and
   however the handlers of the admin API interleave, a running edge behind a
   proxy was given proxies, and believes the networks they name unless they
   do not parse (validateSafeConfig, applyTrustSafe, Handler.ApplyConfig).  *)
THEOREM BehindKnowsProxies ==
    ConfigSpec => []TrustComplete
<1>1. ConfigInv => TrustComplete
  <2> SUFFICES ASSUME ConfigInv, proc # Absent
               PROVE  TrustComplete
    BY DEF TrustComplete
  <2>1. ValidTrust(proc.cfg) /\ PipeTrust(proc) /\ proc \in Runtime
    BY DEF ConfigInv, Trusted, Typed
  <2>2. proc.pipe.proxies \in {"none", "nets", "bad"}
    BY <2>1, RuntimeFields, ConfigFields
  <2> QED BY <2>1, <2>2 DEF TrustComplete, PipeTrust, ValidTrust
<1> QED BY <1>1, ConfigInvariance, PTL

\* A configuration all of whose fields are kept is the same one.
LEMMA KeptIs ==
    ASSUME NEW c \in Config, NEW d, Kept(c, d, {})
    PROVE  d = c
<1>1. \A f \in Fields : d[f] = c[f]
  BY DEF Kept
<1>2. d \in Config
  BY DEF Kept
<1> QED BY <1>1, <1>2 DEF Config, Fields

\* The invariant implies EnginesFollow.
LEMMA FollowsFromInv ==
    ASSUME ConfigInv
    PROVE  EnginesFollow
<1> SUFFICES ASSUME proc # Absent, ~lost, \A h \in Saver : job[h].pc \notin {"flag", "apply"}
             PROVE  EnginesFollow
  BY DEF EnginesFollow
<1>1. proc \in Runtime /\ Agree(proc) /\ proc.pipe.logo = proc.cfg.logo
  BY DEF ConfigInv, Typed, Following
<1>2. proc.cfg \in Config /\ proc.pipe \in Config
  BY <1>1, RuntimeFields
<1> DEFINE e == [proc.pipe EXCEPT !.qf = proc.cfg.qf, !.token = proc.cfg.token, !.intel = proc.cfg.intel]
<1>3. e = proc.cfg
  <2>1. proc.cfg.qf \in BOOLEAN /\ proc.cfg.token \in BOOLEAN /\ proc.cfg.intel \in BOOLEAN
    BY <1>2, ConfigFields
  <2>2. Kept(proc.pipe, e, {"qf", "token", "intel"})
    BY <1>2, <2>1 DEF Kept, Fields, Config
  <2>3. e.qf = proc.cfg.qf /\ e.token = proc.cfg.token /\ e.intel = proc.cfg.intel
    BY <1>2 DEF Config
  <2>4. Kept(proc.cfg, proc.pipe, {"qf", "token", "intel", "logo"})
    BY <1>1 DEF Agree
  <2> HIDE DEF e
  <2>5. Kept(proc.cfg, e, {})
    <3>1. Kept(proc.cfg, e, {"qf", "token", "intel", "logo"})
      BY <2>2, <2>4 DEF Kept
    <3>2. e.logo = proc.cfg.logo
      BY <1>1, <2>2 DEF Kept, Fields
    <3> QED BY <2>3, <3>1, <3>2 DEF Kept, Fields
  <2> QED BY <1>2, <2>5, KeptIs
<1> QED BY <1>1, <1>3 DEF EnginesFollow, Agree

(* For any number of handlers, bodies and files: guard, engines, pipeline
   and feed cache run with the configuration that the admin API shows,
   unless a handler has put back one it had read before another save; the
   challenge manager follows a positive difficulty, the networks a list that
   parses (ApplySafeConfig, ReplaceConfig, ApplyLive).                      *)
THEOREM WhatRunsFollows ==
    ConfigSpec => []EnginesFollow
  BY ConfigInvariance, FollowsFromInv, PTL

\* Two configurations that carry a body agree on every setting it names.
LEMMA CarriedAgree ==
    ASSUME NEW c \in Config, NEW d \in Config, NEW s \in SafeConfig, Carries(c, s), CarriesLogo(c, s),
           Carries(d, s), CarriesLogo(d, s), NEW f \in Named(s)
    PROVE  c[f] = d[f]
<1>1. s.qf # Absent => s.qf.token \in BOOLEAN
  BY SafeFields
<1>2. c.token \in BOOLEAN /\ d.token \in BOOLEAN
  BY ConfigFields
<1>3. CASE f \in {"prot", "limit", "chal", "diff", "coraza"}
  BY <1>3 DEF Carries
<1>4. CASE f \in {"rate", "low", "high", "logo"} /\ s[f] # 0
  BY <1>4 DEF Carries, CarriesLogo
<1>5. CASE s.trust # "" /\ f \in {"trust", "proxies"}
  BY <1>5 DEF Carries
<1>6. CASE s.ids # Absent /\ f = "ids"
  BY <1>6 DEF Carries
<1>7. CASE s.ml # "" /\ f = "ml"
  BY <1>7 DEF Carries
<1>8. CASE s.qf # Absent /\ f = "qf"
  BY <1>8 DEF Carries
<1>9. CASE s.qf # Absent /\ f = "token" /\ s.qf.token
  BY <1>9, <1>2 DEF Carries
<1> QED BY <1>3, <1>4, <1>5, <1>6, <1>7, <1>8, <1>9 DEF Named

\* The invariant implies RestartKeeps.
LEMMA KeepsFromInv ==
    ASSUME ConfigInv
    PROVE  RestartKeeps
<1> DEFINE p == Booted(inputs, overrides)
<1> SUFFICES ASSUME proc # Absent, Quiet, clean, Bootable(inputs), NEW f \in Named(last)
             PROVE  p.cfg[f] = proc.cfg[f]
  BY DEF RestartKeeps
<1>1. inputs \in Files /\ proc \in Runtime /\ last \in {Absent} \cup SafeConfig /\ overrides \in {Absent} \cup SafeConfig
  BY DEF ConfigInv, Typed
<1>2. last # Absent /\ validateSafeConfig(last) /\ overrides = last
  BY DEF ConfigInv, Remembered
<1>3. \A h \in Saver : job[h].pc # "replace"
  BY IdlePc DEF Quiet
<1>4. proc.cfg.admin => Carries(proc.cfg, last) /\ CarriesLogo(proc.cfg, last)
  BY <1>3 DEF ConfigInv, Remembered
<1>5. /\ proc.cfg.admin = LoadWithFlagsMode(inputs).admin
      /\ ~proc.cfg.admin => proc.cfg = LoadWithFlagsMode(inputs)
  BY DEF ConfigInv, Rooted
<1>6. p = Booted(inputs, overrides)
  OBVIOUS
<1> HIDE DEF p
<1> DEFINE c == LoadWithFlagsMode(inputs)
<1>7. /\ p \in Runtime /\ p.cfg.admin = c.admin /\ (~c.admin => p.cfg = c)
      /\ c.admin /\ overrides # Absent /\ validateSafeConfig(overrides) =>
           Carries(p.cfg, overrides) /\ CarriesLogo(p.cfg, overrides)
  <2>1. c = LoadWithFlagsMode(inputs)
    OBVIOUS
  <2> HIDE DEF c
  <2> QED BY <1>1, <1>6, <2>1, BootedIs
<1>8. p.cfg \in Config /\ proc.cfg \in Config
  BY <1>1, <1>7, RuntimeFields
<1>9. CASE c.admin
  <2>1. Carries(p.cfg, last) /\ CarriesLogo(p.cfg, last) /\ Carries(proc.cfg, last) /\ CarriesLogo(proc.cfg, last)
    BY <1>2, <1>4, <1>5, <1>7, <1>9
  <2> QED BY <1>1, <1>2, <1>8, <2>1, CarriedAgree
<1>10. CASE ~c.admin
  BY <1>5, <1>7, <1>10
<1> QED BY <1>9, <1>10

(* Saves that neither overlapped nor failed survive a crash and a restart,
   even from an edited file: each setting their latest words name comes up as
   it was live; a token that only an earlier save named is not among them
   (MergeAndEncode, ApplyOverrides).                                        *)
THEOREM SavesSurvive ==
    ConfigSpec => []RestartKeeps
  BY ConfigInvariance, KeepsFromInv, PTL
=============================================================================
