------------------------------ MODULE AuthFlow ------------------------------
(***************************************************************************)
(* Accounts of the API (api/routes/auth.py): invitations, registration,    *)
(* login, second factor, backup codes and password recovery.  FastAPI runs *)
(* the handlers in threads, each with its own transaction on PostgreSQL    *)
(* (READ COMMITTED), so a request is split where it reads and where it     *)
(* commits.                                                                *)
(*                                                                         *)
(* A password is its generation, the number of times it was changed.  A    *)
(* request that carries a wrong secret or an expired token changes nothing *)
(* and is left out, but for the attempts at a recovery code; any request   *)
(* may fail before its commit.  The clock counts ticks, some of which make *)
(* a second: a token records the second, the database the tick.            *)
(***************************************************************************)
EXTENDS Naturals, Sequences, FiniteSets

CONSTANTS
  Users,          \* user names
  MaxRequests,    \* bound on requests
  MaxOpen,        \* bound on requests in progress
  MaxTime,        \* bound on the clock
  TicksPerSecond, \* resolution of the database's clock
  SecondsPerStep, \* of a TOTP code, 30 in the code
  CodesPerBatch,  \* backup codes made at once, 10 in the code
  MaxAttempts     \* at a recovery code, 5 in the code

ASSUME AuthAssumption ==
  /\ MaxRequests \in Nat /\ MaxOpen \in Nat /\ MaxTime \in Nat \ {0} /\ MaxAttempts \in Nat
  /\ TicksPerSecond \in Nat \ {0} /\ SecondsPerStep \in Nat \ {0} /\ CodesPerBatch \in Nat

VARIABLES
  users,       \* table user, by name
  invitations, \* table invitation_token
  codes,       \* table totp_backup_code
  tokens,      \* JWTs that were issued
  req,         \* the requests, in the order they arrive
  now,
  history      \* for the properties only

vars == <<users, invitations, codes, tokens, req, now, history>>
tables == <<users, invitations, codes>>

Requests == 1..MaxRequests
Time == 0..MaxTime
Scopes == {"pending_totp", "full_access", "password_reset"}

\* changed, lastUsed: 0 is NULL or long ago.  enrolled: totp_enabled and totp_enrolled_at, which
\* are always set together.  recovery: recovery_code_hash, if recovery_code_used is not set.
User == [gen : Nat, changed : Time, secret : BOOLEAN, enrolled : BOOLEAN, lastUsed : Time,
         attempts : Nat, recovery : BOOLEAN]
NewUser == [gen |-> 0, changed |-> 0, secret |-> TRUE, enrolled |-> FALSE, lastUsed |-> 0,
            attempts |-> 0, recovery |-> TRUE]
\* The administrator of seed.py, as of before the second factor.
SeededUser == [NewUser EXCEPT !.secret = FALSE, !.recovery = FALSE]

Invitation == [used : BOOLEAN, expired : BOOLEAN]
NewInvitation == [used |-> FALSE, expired |-> FALSE]
BackupCode == [user : Users, used : BOOLEAN]

\* gen: the password it was granted for; crossed: granted while that password was changed.
Token == [user : Users, scope : Scopes, iat : Time, gen : Nat, crossed : BOOLEAN]

\* user, gen, crossed: for whom, as in the token presented; row: the user as it was
\* loaded; pick: the invitation, the backup code or the last code marked, 0 for none; stamp:
\* of the enrolment or of the new password.
Steps == {"new", "login", "invitation", "username", "insert", "enroll", "enrolling", "totp",
          "locked", "backup", "consume", "invite", "regenerate", "marked", "recovery", "reset",
          "stamped", "changed", "done"}
Request == [pc : Steps, user : Users, gen : Nat, crossed : BOOLEAN, row : User, pick : Nat,
            stamp : Time]

Over(u) == [pc |-> "done", user |-> u, gen |-> 0, crossed |-> FALSE, row |-> NewUser, pick |-> 0,
            stamp |-> 0]
OldToken(u, scope) == [user |-> u, scope |-> scope, iat |-> 0, gen |-> 0, crossed |-> FALSE]

\* A new installation; the seeded one; a user who has still to enrol; one with a session,
\* after the request that granted it.
Init ==
  /\ \/ /\ users = <<>> /\ tokens = {}
        /\ invitations = <<>> /\ codes = <<>> /\ req = <<>>
     \/ /\ \E u \in Users : users = [v \in {u} |-> SeededUser]
        /\ tokens = {} /\ invitations = <<>> /\ codes = <<>> /\ req = <<>>
     \/ /\ \E u \in Users :
             users = [v \in {u} |-> NewUser] /\ tokens = {OldToken(u, "pending_totp")}
        /\ invitations = <<>> /\ codes = <<>> /\ req = <<>>
     \/ \E u \in Users :
          /\ users = [v \in {u} |-> [NewUser EXCEPT !.enrolled = TRUE]]
          /\ tokens = {OldToken(u, scope) : scope \in {"full_access", "pending_totp"}}
          /\ invitations = <<NewInvitation>>
          /\ codes = [k \in 1..CodesPerBatch |-> [user |-> u, used |-> FALSE]]
          /\ req = <<Over(u)>>
  /\ now = 1
  /\ history = [together |-> {}, used |-> {}, resets |-> {}]

-----------------------------------------------------------------------------
At(r, pc) == r \in DOMAIN req /\ req[r].pc = pc
Open == {r \in DOMAIN req : req[r].pc # "done"}
StepOf(t) == t \div (TicksPerSecond * SecondsPerStep)
Reads == now < MaxTime /\ now' = now + 1 \* two readings of the clock differ

\* get_current_user: a token issued before the password was changed is refused; iat has
\* no fraction of a second.
Accepted(t) == ~(t.iat * TicksPerSecond < users[t.user].changed)

\* A request arrives and its first step leads to pc.
Start(pc, u, gen, crossed, row, pick) ==
  /\ Len(req) < MaxRequests /\ Cardinality(Open) < MaxOpen
  /\ req' = Append(req, [pc |-> pc, user |-> u, gen |-> gen, crossed |-> crossed, row |-> row,
                         pick |-> pick, stamp |-> 0])
  /\ history' = [together |-> history.together \cup {{r, Len(req) + 1} : r \in Open},
                 used |-> history.used,
                 resets |-> history.resets \cup (IF pc = "reset" THEN {Len(req) + 1} ELSE {})]

RequestIs(r, request) == req' = [req EXCEPT ![r] = request]
UserIs(u, user) == users' = [users EXCEPT ![u] = user]
Goto(r, pc) == RequestIs(r, [req[r] EXCEPT !.pc = pc])
Done(r) == RequestIs(r, Over(req[r].user))
Served(r, what) ==
  history' = [history EXCEPT !.used = history.used \cup {[what |-> what, by |-> r]}]
Crossed(r) == req[r].crossed \/ \E q \in history.resets :
                                  {q, r} \in history.together /\ req[q].user = req[r].user
\* create_token
Issue(r, scope, gen) ==
  tokens' = tokens \cup {[user |-> req[r].user, scope |-> scope, iat |-> now \div TicksPerSecond,
                          gen |-> gen, crossed |-> Crossed(r)]}
\* A transaction that writes a row waits for the one that has locked it.
UserFree(u) == \A r \in Open : ~(At(r, "locked") /\ req[r].user = u)
CodeFree(k) ==
  \A r \in Open : ~(At(r, "marked") /\ req[r].user = codes[k].user /\ k <= req[r].pick)
InvitationFree(i) == \A r \in Open : ~(req[r].pc \in {"username", "insert"} /\ req[r].pick = i)

\* Errors and early answers: the session is closed, its locks are released.
Fail(r) ==
  /\ r \in Open /\ req[r].pc # "changed"
  /\ Done(r)
  /\ UNCHANGED <<tables, tokens, now, history>>

-----------------------------------------------------------------------------
\* register: only the first user needs no invitation; i is 0 for a request without one.
RegisterCount(u, i) ==
  /\ i = 0 => DOMAIN users = {}
  /\ Start(IF i = 0 THEN "username" ELSE "invitation", u, 0, FALSE, NewUser, i)
  /\ UNCHANGED <<tables, tokens, now>>

\* Mutation: the row is read without FOR UPDATE.
RegisterInvitationUnlocked(r) ==
  /\ At(r, "invitation")
  /\ ~invitations[req[r].pick].used /\ ~invitations[req[r].pick].expired
  /\ Goto(r, "username")
  /\ UNCHANGED <<tables, tokens, now, history>>

\* SELECT ... FOR UPDATE: locks the invitation and reads it as last committed.
RegisterInvitation(r) ==
  /\ At(r, "invitation") /\ InvitationFree(req[r].pick)
  /\ ~invitations[req[r].pick].used /\ ~invitations[req[r].pick].expired
  /\ Goto(r, "username")
  /\ UNCHANGED <<tables, tokens, now, history>>

RegisterUsername(r) ==
  /\ At(r, "username") /\ req[r].user \notin DOMAIN users
  /\ Goto(r, "insert")
  /\ UNCHANGED <<tables, tokens, now, history>>

\* The name is unique: a second INSERT fails, which is Fail.
RegisterCommit(r) ==
  LET u == req[r].user
      i == req[r].pick
  IN /\ At(r, "insert") /\ u \notin DOMAIN users /\ Reads
     /\ users' = [v \in DOMAIN users \cup {u} |-> IF v = u THEN NewUser ELSE users[v]]
     /\ invitations' = IF i = 0 THEN invitations
                       ELSE [invitations EXCEPT ![i] = [invitations[i] EXCEPT !.used = TRUE]]
     /\ Issue(r, "pending_totp", 0) /\ Done(r)
     /\ Served(r, IF i = 0 THEN <<"first user">> ELSE <<"invitation", i>>)
     /\ UNCHANGED codes

\* The password was right for the row that was read; what the answer grants depends on
\* the state of the second factor in it.
LoginLoad(u) ==
  /\ u \in DOMAIN users
  /\ Start("login", u, users[u].gen, FALSE, users[u], 0)
  /\ UNCHANGED <<tables, tokens, now>>

LoginAnswer(r) ==
  /\ At(r, "login") /\ Reads
  /\ Issue(r, IF req[r].row.enrolled \/ req[r].row.secret THEN "pending_totp" ELSE "full_access",
           req[r].gen)
  /\ Done(r)
  /\ UNCHANGED <<tables, history>>

-----------------------------------------------------------------------------
\* get_current_user_pending_totp and get_current_user_totp_verified.
Authenticate(t, pc) ==
  /\ t.scope = (IF pc \in {"enroll", "totp", "backup"} THEN "pending_totp" ELSE "full_access")
  /\ Accepted(t)
  /\ Start(pc, t.user, t.gen, t.crossed, users[t.user], 0)
  /\ UNCHANGED <<tables, tokens, now>>

NewCodes(u) == [k \in 1..CodesPerBatch |-> [user |-> u, used |-> FALSE]]

\* totp_enroll_verify: the first code is right, and the clock is read ...
EnrollStamp(r) ==
  /\ At(r, "enroll") /\ ~req[r].row.enrolled /\ req[r].row.secret /\ Reads
  /\ RequestIs(r, [req[r] EXCEPT !.pc = "enrolling", !.stamp = now])
  /\ UNCHANGED <<tables, tokens, history>>

\* ... before the backup codes are hashed: what is committed may be an older time than
\* that of a use committed meanwhile.
EnrollCommit(r) ==
  LET u == req[r].user
  IN /\ At(r, "enrolling") /\ UserFree(u)
     /\ UserIs(u, [users[u] EXCEPT !.enrolled = TRUE, !.lastUsed = req[r].stamp])
     /\ codes' = codes \o NewCodes(u)
     /\ Served(r, <<"enrolment", u>>) /\ Done(r)
     /\ UNCHANGED <<invitations, tokens, now>>

\* totp_verify: SELECT ... FOR UPDATE locks the row, but the session keeps the values of
\* the object that get_current_user has loaded.
TotpLock(r) ==
  /\ At(r, "totp") /\ req[r].row.enrolled /\ UserFree(req[r].user)
  /\ Goto(r, "locked")
  /\ UNCHANGED <<tables, tokens, now, history>>

\* Mutation: the time step of the last use is not compared.
TotpCommitReplay(r) ==
  LET u == req[r].user
  IN /\ At(r, "locked") /\ Reads
     /\ UserIs(u, [users[u] EXCEPT !.lastUsed = now])
     /\ Issue(r, "full_access", req[r].gen) /\ Done(r)
     /\ Served(r, <<"step", u, StepOf(now)>>)
     /\ UNCHANGED <<invitations, codes>>

\* verify_totp_code: a code was used in this time step if the loaded row says so.
TotpCommit(r) ==
  LET u == req[r].user
  IN /\ At(r, "locked") /\ Reads
     /\ req[r].row.lastUsed = 0 \/ StepOf(req[r].row.lastUsed) # StepOf(now)
     /\ UserIs(u, [users[u] EXCEPT !.lastUsed = now])
     /\ Issue(r, "full_access", req[r].gen) /\ Done(r)
     /\ Served(r, <<"step", u, StepOf(now)>>)
     /\ UNCHANGED <<invitations, codes>>

\* totp_verify_backup: reads the unused codes without a lock.
BackupMatch(r, k) ==
  /\ At(r, "backup") /\ codes[k].user = req[r].user /\ ~codes[k].used
  /\ RequestIs(r, [req[r] EXCEPT !.pc = "consume", !.pick = k])
  /\ UNCHANGED <<tables, tokens, now, history>>

BackupCommit(r) ==
  /\ At(r, "consume") /\ CodeFree(req[r].pick) /\ Reads
  /\ codes' = [codes EXCEPT ![req[r].pick] = [codes[req[r].pick] EXCEPT !.used = TRUE]]
  /\ Issue(r, "full_access", req[r].gen) /\ Done(r)
  /\ Served(r, <<"backup code", req[r].pick>>)
  /\ UNCHANGED <<users, invitations>>

\* regenerate_backup_codes: the UPDATE finds and locks the codes that are left ...
RegenerateMark(r) ==
  /\ At(r, "regenerate")
  /\ RequestIs(r, [req[r] EXCEPT !.pc = "marked", !.pick = Len(codes)])
  /\ UNCHANGED <<tables, tokens, now, history>>

\* ... which are used up when the new batch is committed; its foreign key waits for a lock
\* of the user's row.  Of two overlapping requests the one that waits for the codes of the
\* other does not see its new ones, whichever is first: both batches remain.
RegenerateCommit(r) ==
  LET u == req[r].user
      Old(k) == codes[k].user = u /\ k <= req[r].pick
  IN /\ At(r, "marked") /\ UserFree(u)
     /\ codes' = [k \in DOMAIN codes |-> [user |-> codes[k].user, used |-> codes[k].used \/ Old(k)]]
                   \o NewCodes(u)
     /\ Done(r)
     /\ UNCHANGED <<users, invitations, tokens, now, history>>

\* create_invitation
InviteCommit(r) ==
  /\ At(r, "invite")
  /\ invitations' = Append(invitations, NewInvitation)
  /\ Done(r)
  /\ UNCHANGED <<users, codes, tokens, now, history>>

-----------------------------------------------------------------------------
\* recovery_verify_code: not more than the allowed attempts, and only once.
RecoveryLoad(u) ==
  /\ u \in DOMAIN users /\ users[u].recovery /\ users[u].attempts < MaxAttempts
  /\ Start("recovery", u, users[u].gen, FALSE, users[u], 0)
  /\ UNCHANGED <<tables, tokens, now>>

\* The attempt is counted from the value loaded.
RecoveryWrong(r) ==
  /\ At(r, "recovery") /\ UserFree(req[r].user)
  /\ UserIs(req[r].user, [users[req[r].user] EXCEPT !.attempts = req[r].row.attempts + 1])
  /\ Done(r)
  /\ UNCHANGED <<invitations, codes, tokens, now, history>>

RecoveryRight(r) ==
  /\ At(r, "recovery") /\ Reads
  /\ Issue(r, "password_reset", req[r].gen) /\ Done(r)
  /\ UNCHANGED <<tables, history>>

\* recovery_reset_password: the scope is all that verify_token_scope asks for.
ResetLoad(t) ==
  /\ t.scope = "password_reset"
  /\ Start("reset", t.user, t.gen, FALSE, users[t.user], 0)
  /\ UNCHANGED <<tables, tokens, now>>

\* The new hash is made, then password_changed_at is read from the clock.
ResetStamp(r) ==
  /\ At(r, "reset") /\ Reads
  /\ RequestIs(r, [req[r] EXCEPT !.pc = "stamped", !.stamp = now])
  /\ UNCHANGED <<tables, tokens, history>>

\* Mutation: password_changed_at is not set.
ResetCommitUnstamped(r) ==
  LET u == req[r].user
      gen == users[u].gen + 1
  IN /\ At(r, "stamped") /\ UserFree(u)
     /\ UserIs(u, [users[u] EXCEPT !.gen = gen, !.recovery = FALSE])
     /\ RequestIs(r, [req[r] EXCEPT !.pc = "changed", !.gen = gen])
     /\ UNCHANGED <<invitations, codes, tokens, now, history>>

\* The attempts are set to 0 by the UPDATE only if they were not 0 when loaded.
ResetCommit(r) ==
  LET u == req[r].user
      gen == users[u].gen + 1
  IN /\ At(r, "stamped") /\ UserFree(u)
     /\ UserIs(u, [users[u] EXCEPT !.gen = gen, !.changed = req[r].stamp, !.recovery = FALSE,
                     !.attempts = IF req[r].row.attempts = 0 THEN users[u].attempts ELSE 0])
     /\ RequestIs(r, [req[r] EXCEPT !.pc = "changed", !.gen = gen])
     /\ UNCHANGED <<invitations, codes, tokens, now, history>>

\* After the commit the session reads the user again.
ResetAnswer(r) ==
  /\ At(r, "changed") /\ Reads
  /\ Issue(r, IF users[req[r].user].enrolled THEN "full_access" ELSE "pending_totp", req[r].gen)
  /\ Done(r)
  /\ UNCHANGED <<tables, history>>

-----------------------------------------------------------------------------
Tick == Reads /\ UNCHANGED <<tables, tokens, req, history>>

\* expires_at, 24 hours after the invitation was made.
InvitationExpires(i) ==
  /\ ~invitations[i].expired
  /\ invitations' = [invitations EXCEPT ![i] = [invitations[i] EXCEPT !.expired = TRUE]]
  /\ UNCHANGED <<users, codes, tokens, req, now, history>>

Protected == {"enroll", "totp", "backup", "invite", "regenerate"}

Next ==
  \/ \E u \in Users : LoginLoad(u) \/ RecoveryLoad(u)
  \/ \E u \in Users, i \in 0..Len(invitations) : RegisterCount(u, i)
  \/ \E t \in tokens, pc \in Protected : Authenticate(t, pc)
  \/ \E t \in tokens : ResetLoad(t)
  \/ \E r \in Open :
       \/ RegisterInvitation(r) \/ RegisterUsername(r) \/ RegisterCommit(r)
       \/ LoginAnswer(r) \/ EnrollStamp(r) \/ EnrollCommit(r) \/ TotpLock(r) \/ TotpCommit(r)
       \/ BackupCommit(r) \/ RegenerateMark(r) \/ RegenerateCommit(r) \/ InviteCommit(r)
       \/ RecoveryWrong(r) \/ RecoveryRight(r)
       \/ ResetStamp(r) \/ ResetCommit(r) \/ ResetAnswer(r) \/ Fail(r)
  \/ \E r \in Open : \E k \in DOMAIN codes : BackupMatch(r, k)
  \/ Tick
  \/ \E i \in DOMAIN invitations : InvitationExpires(i)

Spec == Init /\ [][Next]_vars

-----------------------------------------------------------------------------
\* Things that serve once; by: the request they served.
Things ==
  {<<"first user">>} \cup {"invitation", "backup code"} \X Nat
    \cup {"enrolment"} \X Users \cup {"step"} \X Users \X Nat
Use == [what : Things, by : Nat]

TypeOK ==
  /\ DOMAIN users \subseteq Users /\ users \in [DOMAIN users -> User]
  /\ invitations \in Seq(Invitation) /\ codes \in Seq(BackupCode)
  /\ tokens \subseteq Token /\ \A t \in tokens : t.user \in DOMAIN users
  /\ req \in Seq(Request)
  /\ now \in Time
  /\ history \in [together : SUBSET SUBSET Nat, used : SUBSET Use, resets : SUBSET DOMAIN req]

\* An invitation makes one user, whoever else presents it at the same time (the lock on
\* its row), and is used up by nothing else.
Invited(i) == {x \in history.used : x.what = <<"invitation", i>>}
InvitationMakesOneUser ==
  \A i \in DOMAIN invitations :
    /\ \A x, y \in Invited(i) : x.by = y.by
    /\ invitations[i].used <=> Invited(i) # {}

\* A backup code, the time step of a TOTP code, the enrolment of a user and the
\* registration without an invitation serve one request; two only if they overlapped or,
\* for a time step, if the user's enrolment was still being repeated during one of them.
Reenrolled(what, r) ==
  \E e \in history.used : /\ what[1] = "step" /\ e.what = <<"enrolment", what[2]>>
                          /\ {e.by, r} \in history.together
UsedOnceUnlessOverlap ==
  \A x, y \in history.used :
    x.what = y.what /\ x.by # y.by =>
      \/ {x.by, y.by} \in history.together
      \/ Reenrolled(x.what, x.by) \/ Reenrolled(y.what, y.by)

\* A changed password ends the sessions of the old one: of those only the ones that were
\* opened by a request that overlapped the change, or by its descendants, are accepted
\* (get_current_user; the WebSocket endpoint does not look at password_changed_at).
OldSessionsEnd ==
  \A t \in tokens :
    t.scope # "password_reset" /\ t.gen < users[t.user].gen /\ Accepted(t) => t.crossed

\* "A new token issued after the change of password must work": a session of the
\* current password is accepted.
NewTokenAccepted ==
  \A t \in tokens :
    t.scope # "password_reset" /\ t.gen = users[t.user].gen => Accepted(t)

=============================================================================
