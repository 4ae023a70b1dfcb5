-------------------------- MODULE AuthFlow_proofs --------------------------
(***************************************************************************)
(* Proofs about AuthFlow: types; that an invitation makes one user, and    *)
(* the other things that serve once serve overlapping requests only, or,   *)
(* for a time step, requests around a repeated enrolment; that a changed   *)
(* password ends the sessions of the old one but for those of overlapping  *)
(* requests.  For any users, numbers of requests in progress and clocks.   *)
(* Each has an invariant of its own: AuthInv, UseInv and SessionInv.       *)
(***************************************************************************)
EXTENDS AuthFlow, TLAPS

Registering == {"invitation", "username", "insert"}

\* A registration presents an invitation of the table, or none once that has been
\* decided; every other request is that of a user.
PickInv ==
  \A r \in DOMAIN req :
    /\ req[r].pc \in Registering =>
         IF req[r].pick = 0 THEN req[r].pc # "invitation" ELSE req[r].pick \in DOMAIN invitations
    /\ req[r].pc \notin Registering \cup {"done"} => req[r].user \in DOMAIN users

\* The lock: who is past it holds an unused invitation that nobody else holds.
Holds(r, i) == req[r].pc \in {"username", "insert"} /\ req[r].pick = i
LockInv ==
  \A r \in DOMAIN req, i \in DOMAIN invitations :
    Holds(r, i) => /\ ~invitations[i].used
                   /\ \A q \in DOMAIN req : Holds(q, i) => q = r

UsedInv == \A i : Invited(i) # {} => i \in DOMAIN invitations

AuthInv == TypeOK /\ PickInv /\ LockInv /\ UsedInv /\ InvitationMakesOneUser

\* The second of a tick is not later than the tick.
LEMMA DivType ==
  ASSUME NEW n \in Nat, NEW d \in Nat \ {0}
  PROVE  n \div d \in 0..n
OBVIOUS

\* Users as they are made.
LEMMA UserTypes ==
  /\ 0 \in Time /\ NewUser \in User /\ SeededUser \in User
  /\ [NewUser EXCEPT !.enrolled = TRUE] \in User
<1>1. 0 \in Time
  BY AuthAssumption DEF Time
<1>2. NewUser \in User
  BY <1>1 DEF NewUser, User
<1>3. \A u \in User : /\ [u EXCEPT !.secret = FALSE, !.recovery = FALSE] \in User
                      /\ [u EXCEPT !.enrolled = TRUE] \in User
  BY DEF User
<1>. QED
  BY <1>1, <1>2, <1>3 DEF SeededUser

\* A batch of backup codes.
LEMMA NewCodesType ==
  ASSUME NEW u \in Users
  PROVE  NewCodes(u) \in Seq(BackupCode)
<1>1. [user |-> u, used |-> FALSE] \in BackupCode
  BY DEF BackupCode
<1>2. CodesPerBatch \in Nat
  BY AuthAssumption
<1>. QED
  BY <1>1, <1>2 DEF NewCodes

\* The record of a request that is over.
LEMMA OverFacts ==
  ASSUME NEW u \in Users
  PROVE  /\ Over(u) \in Request /\ Over(u).pc = "done" /\ Over(u).user = u
         /\ Over(u).row = NewUser /\ Over(u).stamp = 0
BY UserTypes DEF Over, Request, Steps

\* A user as found when the API starts.
FreshUsers == {NewUser, SeededUser, [NewUser EXCEPT !.enrolled = TRUE]}

LEMMA FreshFacts ==
  \A w \in FreshUsers : w \in User /\ w.gen = 0 /\ w.lastUsed = 0
<1>1. NewUser \in User /\ NewUser.gen = 0 /\ NewUser.lastUsed = 0
  BY UserTypes DEF NewUser
<1>2. \A w \in User :
        /\ [w EXCEPT !.secret = FALSE, !.recovery = FALSE].gen = w.gen
        /\ [w EXCEPT !.secret = FALSE, !.recovery = FALSE].lastUsed = w.lastUsed
        /\ [w EXCEPT !.enrolled = TRUE].gen = w.gen
        /\ [w EXCEPT !.enrolled = TRUE].lastUsed = w.lastUsed
  BY DEF User
<1>3. SeededUser.gen = 0 /\ SeededUser.lastUsed = 0
  BY <1>1, <1>2 DEF SeededUser
<1>. DEFINE w == [NewUser EXCEPT !.enrolled = TRUE]
<1>4. w \in User /\ w.gen = 0 /\ w.lastUsed = 0
  BY <1>1, <1>2, UserTypes
<1>5. FreshUsers = {NewUser, SeededUser, w}
  BY DEF FreshUsers
<1>. HIDE DEF w
<1>. QED
  BY <1>1, <1>3, <1>4, <1>5, UserTypes

\* The states the database can be in when the API starts.
LEMMA InitStates ==
  ASSUME Init
  PROVE  /\ \/ users = <<>> /\ tokens = {}
            \/ \E u \in Users, w \in FreshUsers, scopes \in SUBSET Scopes :
                 /\ users = [v \in {u} |-> w]
                 /\ tokens = {OldToken(u, scope) : scope \in scopes}
         /\ req = <<>> \/ \E u \in Users : req = <<Over(u)>>
         /\ codes = <<>> \/ \E u \in Users : codes = NewCodes(u)
         /\ invitations = <<>> \/ invitations = <<NewInvitation>>
         /\ now = 1 /\ history = [together |-> {}, used |-> {}, resets |-> {}]
<1>. DEFINE Some(u, w, scopes) == /\ users = [v \in {u} |-> w]
                                  /\ tokens = {OldToken(u, scope) : scope \in scopes}
<1>1. {} \in SUBSET Scopes /\ {"pending_totp"} \in SUBSET Scopes
      /\ {"full_access", "pending_totp"} \in SUBSET Scopes
  BY DEF Scopes
<1>2. \/ users = <<>> /\ tokens = {}
      \/ \E u \in Users, w \in FreshUsers, scopes \in SUBSET Scopes : Some(u, w, scopes)
  <2>1. CASE users = <<>> /\ tokens = {}
    BY <2>1
  <2>2. ASSUME NEW u \in Users, users = [v \in {u} |-> SeededUser], tokens = {}
        PROVE  Some(u, SeededUser, {})
    BY <2>2
  <2>3. ASSUME NEW u \in Users, users = [v \in {u} |-> NewUser], tokens = {OldToken(u, "pending_totp")}
        PROVE  Some(u, NewUser, {"pending_totp"})
    BY <2>3
  <2>4. ASSUME NEW u \in Users, users = [v \in {u} |-> [NewUser EXCEPT !.enrolled = TRUE]],
               tokens = {OldToken(u, scope) : scope \in {"full_access", "pending_totp"}}
        PROVE  Some(u, [NewUser EXCEPT !.enrolled = TRUE], {"full_access", "pending_totp"})
    BY <2>4
  <2>5. /\ NewUser \in FreshUsers /\ SeededUser \in FreshUsers
        /\ [NewUser EXCEPT !.enrolled = TRUE] \in FreshUsers
    BY DEF FreshUsers
  <2>. HIDE DEF Some
  <2>. QED
    BY <1>1, <2>1, <2>2, <2>3, <2>4, <2>5 DEF Init
<1>3. /\ req = <<>> \/ \E u \in Users : req = <<Over(u)>>
      /\ codes = <<>> \/ \E u \in Users : codes = NewCodes(u)
      /\ invitations = <<>> \/ invitations = <<NewInvitation>>
      /\ now = 1 /\ history = [together |-> {}, used |-> {}, resets |-> {}]
  BY DEF Init, NewCodes
<1>. QED
  BY <1>2, <1>3

\* What they have in common.
LEMMA InitFacts ==
  ASSUME Init
  PROVE  /\ DOMAIN users \subseteq Users /\ users \in [DOMAIN users -> User]
         /\ \A u \in DOMAIN users : users[u].gen = 0 /\ users[u].lastUsed = 0
         /\ tokens \subseteq Token
         /\ \A t \in tokens : t.user \in DOMAIN users /\ t.gen = 0 /\ t.iat = 0
         /\ req \in Seq(Request)
         /\ \A r \in DOMAIN req : req[r].pc = "done" /\ req[r].row = NewUser /\ req[r].stamp = 0
<1>1. /\ req \in Seq(Request)
      /\ \A r \in DOMAIN req : req[r].pc = "done" /\ req[r].row = NewUser /\ req[r].stamp = 0
  <2>1. CASE req = <<>>
    BY <2>1
  <2>2. ASSUME NEW u \in Users, req = <<Over(u)>>
        PROVE  /\ req \in Seq(Request)
               /\ \A r \in DOMAIN req :
                    req[r].pc = "done" /\ req[r].row = NewUser /\ req[r].stamp = 0
    <3>. DEFINE q == Over(u)
    <3>1. q \in Request /\ q.pc = "done" /\ q.row = NewUser /\ q.stamp = 0 /\ req = <<q>>
      BY <2>2, OverFacts
    <3>. HIDE DEF q
    <3>. QED
      BY <3>1
  <2>. QED
    BY <2>1, <2>2, InitStates
<1>2. CASE users = <<>> /\ tokens = {}
  BY <1>1, <1>2
<1>3. ASSUME NEW u \in Users, NEW w \in FreshUsers, NEW scopes \in SUBSET Scopes,
             users = [v \in {u} |-> w], tokens = {OldToken(u, scope) : scope \in scopes}
      PROVE  /\ DOMAIN users \subseteq Users /\ users \in [DOMAIN users -> User]
             /\ \A v \in DOMAIN users : users[v].gen = 0 /\ users[v].lastUsed = 0
             /\ tokens \subseteq Token
             /\ \A t \in tokens : t.user \in DOMAIN users /\ t.gen = 0 /\ t.iat = 0
  <2>1. w \in User /\ w.gen = 0 /\ w.lastUsed = 0
    BY FreshFacts
  <2>2. DOMAIN users = {u} /\ users[u] = w
    BY <1>3
  <2>3. ASSUME NEW t \in tokens
        PROVE  t \in Token /\ t.user = u /\ t.gen = 0 /\ t.iat = 0
    <3>1. PICK scope \in scopes : t = OldToken(u, scope)
      BY <1>3
    <3>2. 0 \in Time /\ scope \in Scopes
      BY UserTypes
    <3>. QED
      BY <3>1, <3>2 DEF OldToken, Token
  <2>. QED
    BY <1>3, <2>1, <2>2, <2>3
<1>. QED
  BY <1>1, <1>2, <1>3, InitStates

\* The invariant holds at first.
LEMMA InitAuthInv == Init => AuthInv
<1>. SUFFICES ASSUME Init PROVE AuthInv
  OBVIOUS
<1>1. now = 1 /\ history = [together |-> {}, used |-> {}, resets |-> {}] /\ history.used = {}
  BY InitStates
<1>2. codes \in Seq(BackupCode)
  <2>1. CASE codes = <<>>
    BY <2>1
  <2>2. CASE \E u \in Users : codes = NewCodes(u)
    BY <2>2, NewCodesType
  <2>. QED
    BY <2>1, <2>2, InitStates
<1>3. invitations \in Seq(Invitation) /\ \A i \in DOMAIN invitations : ~invitations[i].used
  <2>1. CASE invitations = <<>>
    BY <2>1
  <2>2. CASE invitations = <<NewInvitation>>
    <3>1. NewInvitation \in Invitation /\ ~NewInvitation.used
      BY DEF NewInvitation, Invitation
    <3>. QED
      BY <2>2, <3>1
  <2>. QED
    BY <2>1, <2>2, InitStates
<1>4. TypeOK
  <2>1. 1 \in Time
    BY AuthAssumption DEF Time
  <2>. QED
    BY <1>1, <1>2, <1>3, <2>1, InitFacts DEF TypeOK
<1>5. \A i : Invited(i) = {}
  BY <1>1 DEF Invited
<1>6. PickInv /\ LockInv
  BY InitFacts DEF PickInv, LockInv, Holds, Registering
<1>. QED
  BY <1>3, <1>4, <1>5, <1>6 DEF AuthInv, UsedInv, InvitationMakesOneUser

-----------------------------------------------------------------------------
\* A step of one request leaves the others alone.
LEMMA RequestFacts ==
  ASSUME TypeOK, NEW r \in DOMAIN req, NEW request \in Request, RequestIs(r, request)
  PROVE  /\ req' \in Seq(Request) /\ DOMAIN req' = DOMAIN req /\ req'[r] = request
         /\ \A q \in DOMAIN req \ {r} : req'[q] = req[q]
BY DEF TypeOK, RequestIs

\* A change of one user.
LEMMA UserFacts ==
  ASSUME TypeOK, NEW u, NEW user, UserIs(u, user), u \in DOMAIN users => user \in User
  PROVE  DOMAIN users' = DOMAIN users /\ users' \in [DOMAIN users' -> User]
BY DEF TypeOK, UserIs

\* A token is made for a user of the table, in the present second.
LEMMA IssueFacts ==
  ASSUME TypeOK, NEW r \in DOMAIN req, NEW scope \in Scopes, NEW gen \in Nat, Issue(r, scope, gen),
         req[r].user \in DOMAIN users', DOMAIN users \subseteq DOMAIN users'
  PROVE  tokens' \subseteq Token /\ \A t \in tokens' : t.user \in DOMAIN users'
<1>. DEFINE t == [user |-> req[r].user, scope |-> scope, iat |-> now \div TicksPerSecond,
                  gen |-> gen, crossed |-> Crossed(r)]
<1>1. now \div TicksPerSecond \in Time
  <2>1. now \in Nat /\ now <= MaxTime /\ MaxTime \in Nat /\ TicksPerSecond \in Nat \ {0}
    BY AuthAssumption DEF TypeOK, Time
  <2>. DEFINE second == now \div TicksPerSecond
  <2>2. second \in 0..now
    BY <2>1, DivType
  <2>. HIDE DEF second
  <2>3. second \in 0..MaxTime
    BY <2>1, <2>2
  <2>. QED
    BY <2>3 DEF second, Time
<1>2. Crossed(r) \in BOOLEAN
  <2>1. req[r].crossed \in BOOLEAN
    <3>1. req[r] \in Request
      BY DEF TypeOK
    <3>. QED
      BY <3>1 DEF Request
  <2>. QED
    BY <2>1 DEF Crossed
<1>3. req[r].user \in Users
  <2>1. req[r] \in Request
    BY DEF TypeOK
  <2>. QED
    BY <2>1 DEF Request
<1>4. t \in Token /\ t.user = req[r].user
  BY <1>1, <1>2, <1>3 DEF Token
<1>5. tokens' = tokens \cup {t}
  BY DEF Issue
<1>. HIDE DEF t
<1>. QED
  BY <1>4, <1>5 DEF TypeOK

\* A use is recorded.
LEMMA ServedFacts ==
  ASSUME TypeOK, NEW r \in DOMAIN req, NEW what \in Things, Served(r, what)
  PROVE  /\ history'.together = history.together /\ history'.resets = history.resets
         /\ history'.used = history.used \cup {[what |-> what, by |-> r]}
         /\ history'.used \subseteq Use /\ DOMAIN req' = DOMAIN req =>
              history' \in [together : SUBSET SUBSET Nat, used : SUBSET Use,
                            resets : SUBSET DOMAIN req']
         /\ history'.used \subseteq Use
<1>. DEFINE h == [together : SUBSET SUBSET Nat, used : SUBSET Use, resets : SUBSET DOMAIN req]
            use == [what |-> what, by |-> r]
            more == history.used \cup {use}
<1>1. history \in h /\ r \in Nat
  BY DEF TypeOK
<1>2. use \in Use
  BY <1>1 DEF Use
<1>3. more \subseteq Use
  BY <1>1, <1>2
<1>4. history' = [history EXCEPT !.used = more]
  BY DEF Served
<1>. HIDE DEF more
<1>5. /\ history'.together = history.together /\ history'.resets = history.resets
      /\ history'.used = more /\ history' \in h
  BY <1>1, <1>3, <1>4
<1>. QED
  BY <1>3, <1>5 DEF more

\* The clock goes on.
LEMMA ReadsFacts == ASSUME TypeOK, Reads PROVE now' \in Time
BY AuthAssumption DEF TypeOK, Reads, Time

-----------------------------------------------------------------------------
\* A request arrives; one that presents an invitation presents one of the table.
LEMMA StartStep ==
  ASSUME AuthInv, NEW pc \in Steps \ {"insert"}, NEW u \in Users, NEW gen \in Nat,
         NEW crossed \in BOOLEAN, NEW row \in User, NEW pick \in Nat,
         Start(pc, u, gen, crossed, row, pick), UNCHANGED <<tables, tokens, now>>,
         pc = "username" => pick = 0,
         pc = "invitation" => pick \in DOMAIN invitations,
         pc \notin {"username", "invitation"} => u \in DOMAIN users
  PROVE  AuthInv'
<1>. DEFINE new == [pc |-> pc, user |-> u, gen |-> gen, crossed |-> crossed, row |-> row,
                    pick |-> pick, stamp |-> 0]
            last == Len(req) + 1
<1>1. /\ TypeOK /\ req \in Seq(Request) /\ Len(req) \in Nat /\ req' = Append(req, new)
      /\ UNCHANGED <<users, invitations, codes, tokens, now>>
      /\ history' = [together |-> history.together \cup {{r, last} : r \in Open},
                     used |-> history.used,
                     resets |-> history.resets \cup (IF pc = "reset" THEN {last} ELSE {})]
  BY DEF AuthInv, TypeOK, Start, tables
<1>2. new \in Request /\ new.pc = pc /\ new.user = u /\ new.pick = pick
  BY UserTypes DEF Request
<1>. HIDE DEF new
<1>3. /\ req' \in Seq(Request) /\ DOMAIN req' = DOMAIN req \cup {last} /\ last \notin DOMAIN req
      /\ req'[last] = new /\ \A r \in DOMAIN req : req'[r] = req[r]
      /\ DOMAIN req \subseteq Nat /\ last \in Nat
  BY <1>1, <1>2
<1>. HIDE DEF last
<1>4. TypeOK'
  <2>1. /\ history.together \in SUBSET SUBSET Nat /\ history.used \in SUBSET Use
        /\ history.resets \in SUBSET DOMAIN req
    BY <1>1 DEF TypeOK
  <2>2. history.together \cup {{r, last} : r \in Open} \in SUBSET SUBSET Nat
    BY <1>3, <2>1 DEF Open
  <2>3. history.resets \cup (IF pc = "reset" THEN {last} ELSE {}) \in SUBSET DOMAIN req'
    BY <1>3, <2>1
  <2>4. history' \in [together : SUBSET SUBSET Nat, used : SUBSET Use, resets : SUBSET DOMAIN req']
    BY <1>1, <2>1, <2>2, <2>3
  <2>. QED
    BY <1>1, <1>3, <2>4 DEF TypeOK
<1>4b. 0 \notin DOMAIN invitations
  BY <1>1 DEF TypeOK
<1>5. PickInv'
  <2>1. ASSUME NEW r \in DOMAIN req
        PROVE  /\ req'[r].pc \in Registering =>
                    IF req'[r].pick = 0 THEN req'[r].pc # "invitation"
                    ELSE req'[r].pick \in DOMAIN invitations'
               /\ req'[r].pc \notin Registering \cup {"done"} => req'[r].user \in DOMAIN users'
    BY <1>1, <1>3 DEF AuthInv, PickInv
  <2>2. /\ pc \in Registering =>
              IF pick = 0 THEN pc # "invitation" ELSE pick \in DOMAIN invitations'
        /\ pc \notin Registering \cup {"done"} => u \in DOMAIN users'
    BY <1>1, <1>4b DEF Registering
  <2>. QED
    BY <1>2, <1>3, <2>1, <2>2 DEF PickInv
<1>6. LockInv'
  <2>1. \A i \in DOMAIN invitations : i # 0
    BY <1>4b
  <2>2. \A r \in DOMAIN req' : \A i \in DOMAIN invitations : Holds(r, i)' <=> r \in DOMAIN req /\ Holds(r, i)
    BY <1>2, <1>3, <2>1 DEF Holds
  <2>. QED
    BY <1>1, <2>2 DEF AuthInv, LockInv
<1>7. history'.used = history.used
  BY <1>1
<1>8. UsedInv' /\ InvitationMakesOneUser'
  BY <1>1, <1>7 DEF AuthInv, UsedInv, InvitationMakesOneUser, Invited
<1>. QED
  BY <1>4, <1>5, <1>6, <1>8 DEF AuthInv

\* A request that is no registration, or gives up, goes on; it uses no invitation, but
\* may make one.
LEMMA OtherStep ==
  ASSUME AuthInv, NEW r \in DOMAIN req, NEW request \in Request, RequestIs(r, request),
         request.pc \notin Registering,
         request.pc # "done" => request.user \in DOMAIN users,
         DOMAIN users' = DOMAIN users, users' \in [DOMAIN users' -> User],
         codes' \in Seq(BackupCode),
         tokens' \subseteq Token, \A t \in tokens' : t.user \in DOMAIN users',
         now' \in Time,
         UNCHANGED invitations \/ invitations' = Append(invitations, NewInvitation),
         \/ UNCHANGED history
         \/ \E what \in Things : Served(r, what) /\ \A i : what # <<"invitation", i>>
  PROVE  AuthInv'
<1>1. /\ TypeOK /\ req' \in Seq(Request) /\ DOMAIN req' = DOMAIN req /\ req'[r] = request
      /\ \A q \in DOMAIN req \ {r} : req'[q] = req[q]
  BY RequestFacts DEF AuthInv
<1>2. history' \in [together : SUBSET SUBSET Nat, used : SUBSET Use, resets : SUBSET DOMAIN req']
  BY <1>1, ServedFacts DEF TypeOK
<1>3. \A i : Invited(i)' = Invited(i)
  <2>1. CASE UNCHANGED history
    BY <2>1 DEF Invited
  <2>2. CASE \E what \in Things : Served(r, what) /\ \A i : what # <<"invitation", i>>
    <3>1. PICK what \in Things : Served(r, what) /\ \A i : what # <<"invitation", i>>
      BY <2>2
    <3>2. history'.used = history.used \cup {[what |-> what, by |-> r]}
      BY <1>1, <3>1, ServedFacts
    <3>3. ASSUME NEW i PROVE Invited(i)' = Invited(i)
      <4>. DEFINE use == [what |-> what, by |-> r]
      <4>1. use.what # <<"invitation", i>> /\ history'.used = history.used \cup {use}
        BY <3>1, <3>2
      <4>. HIDE DEF use
      <4>. QED
        BY <4>1 DEF Invited
    <3>. QED
      BY <3>3
  <2>. QED
    BY <2>1, <2>2
<1>4. /\ invitations' \in Seq(Invitation) /\ DOMAIN invitations \subseteq DOMAIN invitations'
      /\ \A i \in DOMAIN invitations : invitations'[i] = invitations[i]
      /\ \A i \in DOMAIN invitations' \ DOMAIN invitations : ~invitations'[i].used
      /\ \A i \in DOMAIN invitations' : i # 0
  <2>1. invitations \in Seq(Invitation) /\ NewInvitation \in Invitation /\ ~NewInvitation.used
    BY <1>1 DEF TypeOK, NewInvitation, Invitation
  <2>2. CASE UNCHANGED invitations
    BY <2>1, <2>2
  <2>3. CASE invitations' = Append(invitations, NewInvitation)
    BY <2>1, <2>3
  <2>. QED
    BY <2>2, <2>3
<1>5. TypeOK'
  BY <1>1, <1>2, <1>4 DEF TypeOK
<1>6. PickInv'
  BY <1>1, <1>4 DEF AuthInv, PickInv, Registering
<1>7. LockInv'
  <2>1. \A q \in DOMAIN req, i \in DOMAIN invitations' :
          Holds(q, i)' => q # r /\ Holds(q, i) /\ i \in DOMAIN invitations
    BY <1>1, <1>4 DEF Holds, Registering, AuthInv, PickInv
  <2>. QED
    BY <1>1, <1>4, <2>1 DEF AuthInv, LockInv
<1>8. UsedInv' /\ InvitationMakesOneUser'
  BY <1>3, <1>4 DEF AuthInv, UsedInv, InvitationMakesOneUser
<1>. QED
  BY <1>5, <1>6, <1>7, <1>8 DEF AuthInv

\* A registration goes on: only one whose invitation nobody holds gets past the lock.
LEMMA RegisterStep ==
  ASSUME AuthInv, NEW r \in DOMAIN req, RegisterInvitation(r) \/ RegisterUsername(r)
  PROVE  AuthInv'
<1>. DEFINE pc == IF RegisterInvitation(r) THEN "username" ELSE "insert"
            request == [req[r] EXCEPT !.pc = pc]
<1>1. TypeOK /\ req[r] \in Request /\ UNCHANGED <<users, invitations, codes, tokens, now, history>>
  BY DEF AuthInv, TypeOK, RegisterInvitation, RegisterUsername, tables
<1>2. pc \in {"username", "insert"} /\ RequestIs(r, request)
  BY DEF RegisterInvitation, RegisterUsername, Goto, At
<1>3. request \in Request /\ request.pc = pc /\ request.pick = req[r].pick /\ request.user = req[r].user
  BY <1>1 DEF Request, Steps
<1>. HIDE DEF pc
<1>. HIDE DEF request
<1>4. /\ req' \in Seq(Request) /\ DOMAIN req' = DOMAIN req /\ req'[r] = request
      /\ \A q \in DOMAIN req \ {r} : req'[q] = req[q]
  BY <1>1, <1>2, <1>3, RequestFacts
<1>5. req[r].pc \in {"invitation", "username"}
  BY DEF RegisterInvitation, RegisterUsername, At
<1>6. TypeOK'
  BY <1>1, <1>4 DEF TypeOK
<1>7. PickInv'
  BY <1>1, <1>2, <1>3, <1>4, <1>5 DEF AuthInv, PickInv, Registering
<1>8. LockInv'
  <2>1. \A q \in DOMAIN req \ {r} : \A i : Holds(q, i)' <=> Holds(q, i)
    BY <1>4 DEF Holds
  <2>2. \A i : Holds(r, i)' => req[r].pick = i
    BY <1>3, <1>4 DEF Holds
  <2>3. CASE RegisterInvitation(r)
    <3>1. /\ ~invitations[req[r].pick].used
          /\ \A q \in DOMAIN req : ~Holds(q, req[r].pick)
      <4>1. InvitationFree(req[r].pick) /\ ~invitations[req[r].pick].used
        BY <2>3 DEF RegisterInvitation
      <4>. QED
        BY <4>1 DEF InvitationFree, Open, Holds
    <3>. QED
      BY <1>1, <1>4, <2>1, <2>2, <3>1 DEF AuthInv, LockInv
  <2>4. CASE RegisterUsername(r)
    <3>1. \A i : Holds(r, i)' => Holds(r, i)
      BY <2>2, <2>4 DEF Holds, RegisterUsername, At
    <3>. QED
      BY <1>1, <1>4, <2>1, <3>1 DEF AuthInv, LockInv
  <2>. QED
    BY <2>3, <2>4
<1>9. UsedInv' /\ InvitationMakesOneUser'
  BY <1>1 DEF AuthInv, UsedInv, InvitationMakesOneUser, Invited
<1>. QED
  BY <1>6, <1>7, <1>8, <1>9 DEF AuthInv

\* The holder of an invitation commits: it is the only use of it.
LEMMA RegisterCommitStep ==
  ASSUME AuthInv, NEW r \in DOMAIN req, RegisterCommit(r),
         NEW u, u = req[r].user, NEW i, i = req[r].pick
  PROVE  AuthInv'
<1>. DEFINE what == IF i = 0 THEN <<"first user">> ELSE <<"invitation", i>>
            done == Over(req[r].user)
<1>1. /\ TypeOK /\ req[r] \in Request /\ req[r].pc = "insert" /\ u \in Users /\ i \in Nat
      /\ users' = [v \in DOMAIN users \cup {u} |-> IF v = u THEN NewUser ELSE users[v]]
      /\ invitations' = IF i = 0 THEN invitations
                        ELSE [invitations EXCEPT ![i] = [invitations[i] EXCEPT !.used = TRUE]]
      /\ Issue(r, "pending_totp", 0) /\ RequestIs(r, done) /\ Served(r, what)
      /\ UNCHANGED codes /\ now' \in Time
  <2>1. TypeOK /\ req[r] \in Request
    BY DEF AuthInv, TypeOK
  <2>2. u \in Users /\ i \in Nat
    BY <2>1 DEF Request
  <2>3. now' \in Time
    BY <2>1, ReadsFacts DEF RegisterCommit
  <2>. QED
    BY <2>1, <2>2, <2>3 DEF RegisterCommit, At, Done
<1>2. done \in Request /\ done.pc = "done" /\ what \in Things
  BY <1>1, OverFacts DEF Things
<1>3. i = 0 \/ i \in DOMAIN invitations
  BY <1>1 DEF AuthInv, PickInv, Registering
<1>. HIDE DEF done
<1>4. /\ req' \in Seq(Request) /\ DOMAIN req' = DOMAIN req /\ req'[r].pc = "done"
      /\ \A q \in DOMAIN req \ {r} : req'[q] = req[q]
  BY <1>1, <1>2, RequestFacts
<1>5. /\ DOMAIN users' = DOMAIN users \cup {u} /\ DOMAIN users' \subseteq Users
      /\ users' \in [DOMAIN users' -> User]
  BY <1>1, UserTypes DEF TypeOK
<1>6. tokens' \subseteq Token /\ \A t \in tokens' : t.user \in DOMAIN users'
  BY <1>1, <1>5, IssueFacts DEF Scopes
<1>7. /\ history' \in [together : SUBSET SUBSET Nat, used : SUBSET Use, resets : SUBSET DOMAIN req']
      /\ history'.used = history.used \cup {[what |-> what, by |-> r]}
  BY <1>1, <1>2, <1>4, ServedFacts
<1>8. /\ invitations' \in Seq(Invitation) /\ DOMAIN invitations' = DOMAIN invitations
      /\ \A j \in DOMAIN invitations \ {i} : invitations'[j] = invitations[j]
      /\ i # 0 => invitations'[i].used
      /\ 0 \notin DOMAIN invitations
  <2>1. invitations \in Seq(Invitation)
    BY <1>1 DEF TypeOK
  <2>1a. 0 \notin DOMAIN invitations
    BY <2>1
  <2>2. CASE i = 0
    BY <1>1, <2>1, <2>1a, <2>2
  <2>3. CASE i # 0
    <3>. DEFINE after == [invitations[i] EXCEPT !.used = TRUE]
    <3>1. \A inv \in Invitation : /\ [inv EXCEPT !.used = TRUE] \in Invitation
                                  /\ [inv EXCEPT !.used = TRUE].used
      BY DEF Invitation
    <3>2. i \in DOMAIN invitations /\ invitations[i] \in Invitation
      BY <1>3, <2>1, <2>3
    <3>3. after \in Invitation /\ after.used
      BY <3>1, <3>2
    <3>4. invitations' = [invitations EXCEPT ![i] = after]
      BY <1>1, <2>3
    <3>. HIDE DEF after
    <3>. QED
      BY <2>1, <2>1a, <3>2, <3>3, <3>4
  <2>. QED
    BY <2>2, <2>3
<1>9. TypeOK'
  BY <1>1, <1>4, <1>5, <1>6, <1>7, <1>8 DEF TypeOK
<1>10. PickInv'
  BY <1>4, <1>5, <1>8 DEF AuthInv, PickInv, Registering
<1>11. LockInv'
  <2>1. \A q \in DOMAIN req : \A j : Holds(q, j)' => q # r /\ Holds(q, j)
    BY <1>4 DEF Holds
  <2>2. i # 0 => \A q \in DOMAIN req : Holds(q, i) => q = r
    BY <1>1, <1>3 DEF AuthInv, LockInv, Holds
  <2>. QED
    BY <1>3, <1>4, <1>8, <2>1, <2>2 DEF AuthInv, LockInv
<1>12. UsedInv' /\ InvitationMakesOneUser'
  <2>1. \A j : j # i \/ i = 0 => Invited(j)' = Invited(j)
    <3>1. ASSUME NEW j, j # i \/ i = 0 PROVE Invited(j)' = Invited(j)
      <4>. DEFINE use == [what |-> what, by |-> r]
      <4>1. what # <<"invitation", j>>
        BY <3>1
      <4>2. use.what # <<"invitation", j>> /\ history'.used = history.used \cup {use}
        BY <1>7, <4>1
      <4>. HIDE DEF use
      <4>. QED
        BY <4>2 DEF Invited
    <3>. QED
      BY <3>1
  <2>2. CASE i = 0
    BY <1>8, <2>1, <2>2 DEF AuthInv, UsedInv, InvitationMakesOneUser
  <2>3. CASE i # 0
    <3>1. Invited(i) = {}
      BY <1>1, <1>3, <2>3 DEF AuthInv, LockInv, InvitationMakesOneUser, Holds
    <3>2. Invited(i)' = {[what |-> what, by |-> r]}
      <4>1. what = <<"invitation", i>>
        BY <2>3
      <4>. DEFINE use == [what |-> what, by |-> r]
      <4>2. use.what = <<"invitation", i>> /\ history'.used = history.used \cup {use}
        BY <1>7, <4>1
      <4>3. \A x \in history.used : x.what # <<"invitation", i>>
        BY <3>1 DEF Invited
      <4>4. Invited(i)' = {x \in history'.used : x.what = <<"invitation", i>>}
        BY DEF Invited
      <4>. HIDE DEF use, what
      <4>5. {x \in history'.used : x.what = <<"invitation", i>>} = {use}
        BY <4>2, <4>3
      <4>. QED
        BY <4>4, <4>5 DEF use
    <3>3. i \in DOMAIN invitations' /\ invitations'[i].used
      BY <1>3, <1>8, <2>3
    <3>4. /\ \A x, y \in Invited(i)' : x.by = y.by
          /\ Invited(i)' # {}
      BY <3>2
    <3>. QED
      BY <1>8, <2>1, <2>3, <3>3, <3>4 DEF AuthInv, UsedInv, InvitationMakesOneUser
  <2>. QED
    BY <2>2, <2>3
<1>. QED
  BY <1>9, <1>10, <1>11, <1>12 DEF AuthInv

-----------------------------------------------------------------------------
\* A request that is done.
LEMMA DoneStep ==
  ASSUME AuthInv, NEW r \in DOMAIN req, Done(r),
         DOMAIN users' = DOMAIN users, users' \in [DOMAIN users' -> User],
         codes' \in Seq(BackupCode),
         tokens' \subseteq Token, \A t \in tokens' : t.user \in DOMAIN users',
         now' \in Time,
         UNCHANGED invitations \/ invitations' = Append(invitations, NewInvitation),
         \/ UNCHANGED history
         \/ \E what \in Things : Served(r, what) /\ \A i : what # <<"invitation", i>>
  PROVE  AuthInv'
<1>. DEFINE done == Over(req[r].user)
<1>1. req[r] \in Request
  BY DEF AuthInv, TypeOK
<1>2. req[r].user \in Users
  BY <1>1 DEF Request
<1>3. done \in Request /\ done.pc = "done"
  BY <1>2, OverFacts
<1>4. RequestIs(r, done)
  BY DEF Done
<1>. HIDE DEF done
<1>5. done.pc \notin Registering
  BY <1>3 DEF Registering
<1>. QED
  BY <1>3, <1>4, <1>5, OtherStep

\* What the invariant says of a request, and of what a step leaves alone.
LEMMA Known ==
  ASSUME AuthInv, NEW r \in DOMAIN req
  PROVE  /\ TypeOK /\ req[r] \in Request /\ req[r].user \in Users /\ req[r].gen \in Nat
         /\ req[r].row.attempts \in Nat /\ req[r].stamp \in Time
         /\ req[r].pc \notin Registering \cup {"done"} => req[r].user \in DOMAIN users
         /\ UNCHANGED users => /\ DOMAIN users' = DOMAIN users
                               /\ users' \in [DOMAIN users' -> User]
         /\ UNCHANGED codes => codes' \in Seq(BackupCode)
         /\ DOMAIN users' = DOMAIN users /\ UNCHANGED tokens =>
              tokens' \subseteq Token /\ \A t \in tokens' : t.user \in DOMAIN users'
         /\ UNCHANGED now => now' \in Time
<1>1. TypeOK /\ PickInv /\ req[r] \in Request
  BY DEF AuthInv, TypeOK
<1>2. req[r].row \in User /\ req[r].user \in Users /\ req[r].gen \in Nat /\ req[r].stamp \in Time
  BY <1>1 DEF Request
<1>3. req[r].row.attempts \in Nat
  BY <1>2 DEF User
<1>. QED
  BY <1>1, <1>2, <1>3 DEF TypeOK, PickInv

\* A request fails, or answers with a token and changes no table.
LEMMA AnswerStep ==
  ASSUME AuthInv, NEW r \in DOMAIN req,
         Fail(r) \/ LoginAnswer(r) \/ RecoveryRight(r) \/ ResetAnswer(r)
  PROVE  AuthInv'
<1>1. /\ UNCHANGED <<users, invitations, codes, history>> /\ Done(r)
  BY DEF Fail, LoginAnswer, RecoveryRight, ResetAnswer, tables
<1>2. CASE Fail(r)
  BY <1>1, <1>2, Known, DoneStep DEF Fail
<1>3. CASE LoginAnswer(r) \/ RecoveryRight(r) \/ ResetAnswer(r)
  <2>1. Reads /\ req[r].pc \notin Registering \cup {"done"}
    BY <1>3 DEF LoginAnswer, RecoveryRight, ResetAnswer, At, Registering
  <2>2. \E scope \in Scopes : Issue(r, scope, req[r].gen)
    BY <1>3 DEF LoginAnswer, RecoveryRight, ResetAnswer, Scopes
  <2>3. tokens' \subseteq Token /\ \A t \in tokens' : t.user \in DOMAIN users'
    BY <1>1, <2>1, <2>2, Known, IssueFacts
  <2>4. now' \in Time
    BY <2>1, Known, ReadsFacts
  <2>. QED
    BY <1>1, <2>3, <2>4, Known, DoneStep
<1>. QED
  BY <1>2, <1>3

\* The second factor: a session for a TOTP code or for a backup code, and its enrolment.
LEMMA FactorStep ==
  ASSUME AuthInv, NEW r \in DOMAIN req, EnrollCommit(r) \/ TotpCommit(r) \/ BackupCommit(r)
  PROVE  AuthInv'
<1>1. /\ Done(r) /\ UNCHANGED invitations /\ req[r].pc \notin Registering \cup {"done"}
      /\ UNCHANGED now \/ Reads
  BY DEF EnrollCommit, TotpCommit, BackupCommit, At, Registering
<1>2. /\ TypeOK /\ req[r].user \in DOMAIN users /\ req[r].user \in Users /\ req[r].gen \in Nat
      /\ now' \in Time /\ req[r].stamp \in Time
  BY <1>1, Known, ReadsFacts
<1>3. users[req[r].user] \in User /\ now \in Time /\ codes \in Seq(BackupCode)
  BY <1>2 DEF TypeOK
<1>4. CASE EnrollCommit(r)
  <2>. DEFINE user == [users[req[r].user] EXCEPT !.enrolled = TRUE, !.lastUsed = req[r].stamp]
              what == <<"enrolment", req[r].user>>
  <2>1. UserIs(req[r].user, user) /\ Served(r, what) /\ UNCHANGED tokens
    BY <1>4 DEF EnrollCommit
  <2>2. \A w \in User, t \in Time : [w EXCEPT !.enrolled = TRUE, !.lastUsed = t] \in User
    BY DEF User
  <2>3. user \in User
    BY <1>2, <1>3, <2>2
  <2>4. what \in Things /\ \A i : what # <<"invitation", i>>
    BY <1>2 DEF Things
  <2>5. codes' \in Seq(BackupCode)
    BY <1>2, <1>3, <1>4, NewCodesType DEF EnrollCommit
  <2>. HIDE DEF user, what
  <2>6. DOMAIN users' = DOMAIN users /\ users' \in [DOMAIN users' -> User]
    BY <1>2, <2>1, <2>3, UserFacts
  <2>7. \E w \in Things : Served(r, w) /\ \A i : w # <<"invitation", i>>
    BY <2>1, <2>4
  <2>8. tokens' \subseteq Token /\ \A t \in tokens' : t.user \in DOMAIN users'
    BY <2>1, <2>6, Known
  <2>. QED
    BY <1>1, <1>2, <2>5, <2>6, <2>7, <2>8, DoneStep
<1>5. CASE TotpCommit(r) \/ BackupCommit(r)
  <2>1. DOMAIN users' = DOMAIN users /\ users' \in [DOMAIN users' -> User]
    <3>1. CASE TotpCommit(r)
      <4>1. \A w \in User : [w EXCEPT !.lastUsed = now] \in User
        BY <1>3 DEF User
      <4>2. [users[req[r].user] EXCEPT !.lastUsed = now] \in User
        BY <1>3, <4>1
      <4>3. UserIs(req[r].user, [users[req[r].user] EXCEPT !.lastUsed = now])
        BY <3>1 DEF TotpCommit
      <4>. QED
        BY <1>2, <4>2, <4>3, UserFacts
    <3>2. CASE BackupCommit(r)
      BY <3>2, Known DEF BackupCommit
    <3>. QED
      BY <1>5, <3>1, <3>2
  <2>2. codes' \in Seq(BackupCode)
    <3>1. CASE TotpCommit(r)
      BY <3>1, Known DEF TotpCommit
    <3>2. CASE BackupCommit(r)
      <4>. DEFINE k == req[r].pick
                  after == [codes[k] EXCEPT !.used = TRUE]
      <4>1. codes' = [codes EXCEPT ![k] = after]
        BY <3>2 DEF BackupCommit
      <4>2. \A c \in BackupCode : [c EXCEPT !.used = TRUE] \in BackupCode
        BY DEF BackupCode
      <4>3. k \in DOMAIN codes => after \in BackupCode
        BY <1>3, <4>2
      <4>. HIDE DEF after, k
      <4>4. Len(codes) \in Nat /\ DOMAIN codes = 1..Len(codes)
        BY <1>3
      <4>5. codes' = [c \in DOMAIN codes |-> IF c = k THEN after ELSE codes[c]]
        BY <1>3, <4>1
      <4>6. \A c \in DOMAIN codes : (IF c = k THEN after ELSE codes[c]) \in BackupCode
        BY <1>3, <4>3
      <4>7. codes' \in [1..Len(codes) -> BackupCode]
        BY <4>4, <4>5, <4>6
      <4>. QED
        BY <4>4, <4>7
    <3>. QED
      BY <1>5, <3>1, <3>2
  <2>3. Issue(r, "full_access", req[r].gen)
    BY <1>5 DEF TotpCommit, BackupCommit
  <2>4. tokens' \subseteq Token /\ \A t \in tokens' : t.user \in DOMAIN users'
    BY <1>2, <2>1, <2>3, IssueFacts DEF Scopes
  <2>5. \E w \in Things : Served(r, w) /\ \A i : w # <<"invitation", i>>
    <3>1. CASE TotpCommit(r)
      <4>. DEFINE what == <<"step", req[r].user, StepOf(now)>>
      <4>1. StepOf(now) \in Nat
        <5>1. TicksPerSecond * SecondsPerStep \in Nat \ {0} /\ now \in Nat
          <6>1. \A m, n \in Nat \ {0} : m * n \in Nat \ {0}
            OBVIOUS
          <6>2. TicksPerSecond \in Nat \ {0} /\ SecondsPerStep \in Nat \ {0} /\ now \in Nat
            BY <1>3, AuthAssumption DEF Time
          <6>. QED
            BY <6>1, <6>2
        <5>. DEFINE d == TicksPerSecond * SecondsPerStep
        <5>2. d \in Nat \ {0}
          BY <5>1
        <5>. HIDE DEF d
        <5>3. now \div d \in 0..now
          BY <5>1, <5>2, DivType
        <5>4. now \div d \in Nat
          BY <5>1, <5>3
        <5>. QED
          BY <5>4 DEF StepOf, d
      <4>2. what \in Things /\ \A i : what # <<"invitation", i>>
        BY <1>2, <4>1 DEF Things
      <4>3. Served(r, what)
        BY <3>1 DEF TotpCommit
      <4>. QED
        BY <4>2, <4>3
    <3>2. CASE BackupCommit(r)
      <4>. DEFINE what == <<"backup code", req[r].pick>>
      <4>1. req[r].pick \in Nat
        BY Known DEF Request
      <4>2. what \in Things /\ \A i : what # <<"invitation", i>>
        BY <4>1 DEF Things
      <4>3. Served(r, what)
        BY <3>2 DEF BackupCommit
      <4>. QED
        BY <4>2, <4>3
    <3>. QED
      BY <1>5, <3>1, <3>2
  <2>. QED
    BY <1>1, <1>2, <2>1, <2>2, <2>4, <2>5, DoneStep
<1>. QED
  BY <1>4, <1>5

\* q after a step: only where it is, its password, its pick and its stamp can differ.
Same(q, after, pc, gen, pick, stamp) ==
  /\ after \in Request /\ after.pc = pc /\ after.gen = gen /\ after.pick = pick /\ after.stamp = stamp
  /\ after.user = q.user /\ after.row = q.row /\ after.crossed = q.crossed

\* The ways a request is rewritten.
LEMMA RequestShapes ==
  ASSUME NEW q \in Request
  PROVE  /\ \A pc \in {"username", "insert", "locked"} :
              Same(q, [q EXCEPT !.pc = pc], pc, q.gen, q.pick, q.stamp)
         /\ \A pc \in {"consume", "marked"}, k \in Nat :
              Same(q, [q EXCEPT !.pc = pc, !.pick = k], pc, q.gen, k, q.stamp)
         /\ \A pc \in {"enrolling", "stamped"}, t \in Time :
              Same(q, [q EXCEPT !.pc = pc, !.stamp = t], pc, q.gen, q.pick, t)
         /\ \A g \in Nat :
              Same(q, [q EXCEPT !.pc = "changed", !.gen = g], "changed", g, q.pick, q.stamp)
<1>1. \A pc \in {"username", "insert", "locked"} :
        Same(q, [q EXCEPT !.pc = pc], pc, q.gen, q.pick, q.stamp)
  BY DEF Request, Steps, Same
<1>2. \A pc \in {"consume", "marked"}, k \in Nat :
        Same(q, [q EXCEPT !.pc = pc, !.pick = k], pc, q.gen, k, q.stamp)
  BY DEF Request, Steps, Same
<1>3. \A pc \in {"enrolling", "stamped"}, t \in Time :
        Same(q, [q EXCEPT !.pc = pc, !.stamp = t], pc, q.gen, q.pick, t)
  BY DEF Request, Steps, Same
<1>4. \A g \in Nat :
        Same(q, [q EXCEPT !.pc = "changed", !.gen = g], "changed", g, q.pick, q.stamp)
  BY DEF Request, Steps, Same
<1>. QED
  BY <1>1, <1>2, <1>3, <1>4

\* Steps that only look, lock or read the clock.
LEMMA GoOnStep ==
  ASSUME AuthInv, NEW r \in DOMAIN req,
         \/ TotpLock(r) \/ EnrollStamp(r) \/ ResetStamp(r) \/ RegenerateMark(r)
         \/ \E k \in DOMAIN codes : BackupMatch(r, k)
  PROVE  AuthInv'
<1>1. /\ UNCHANGED <<users, invitations, codes, tokens, history>>
      /\ req[r].pc \notin Registering \cup {"done"}
  BY DEF TotpLock, EnrollStamp, ResetStamp, RegenerateMark, BackupMatch, tables, At, Registering
<1>2. now' \in Time
  BY Known, ReadsFacts DEF TotpLock, EnrollStamp, ResetStamp, RegenerateMark, BackupMatch
<1>3. now \in Time /\ DOMAIN codes \subseteq Nat /\ Len(codes) \in Nat /\ req[r] \in Request
  BY Known DEF TypeOK
<1>4. ASSUME NEW request, NEW pc \in {"locked", "consume", "marked", "enrolling", "stamped"},
             NEW pick, NEW stamp,
             RequestIs(r, request), Same(req[r], request, pc, req[r].gen, pick, stamp)
      PROVE  AuthInv'
  <2>1. request \in Request /\ request.user = req[r].user /\ request.pc \notin Registering
    BY <1>4 DEF Same, Registering
  <2>. QED
    BY <1>1, <1>2, <1>4, <2>1, Known, OtherStep
<1>5. CASE TotpLock(r)
  <2>1. RequestIs(r, [req[r] EXCEPT !.pc = "locked"])
    BY <1>5 DEF TotpLock, Goto
  <2>. QED
    BY <1>3, <1>4, <2>1, RequestShapes
<1>6. CASE EnrollStamp(r)
  <2>1. RequestIs(r, [req[r] EXCEPT !.pc = "enrolling", !.stamp = now])
    BY <1>6 DEF EnrollStamp
  <2>. QED
    BY <1>3, <1>4, <2>1, RequestShapes
<1>7. CASE ResetStamp(r)
  <2>1. RequestIs(r, [req[r] EXCEPT !.pc = "stamped", !.stamp = now])
    BY <1>7 DEF ResetStamp
  <2>. QED
    BY <1>3, <1>4, <2>1, RequestShapes
<1>8. CASE RegenerateMark(r)
  <2>1. RequestIs(r, [req[r] EXCEPT !.pc = "marked", !.pick = Len(codes)])
    BY <1>8 DEF RegenerateMark
  <2>. QED
    BY <1>3, <1>4, <2>1, RequestShapes
<1>9. ASSUME NEW k \in DOMAIN codes, BackupMatch(r, k) PROVE AuthInv'
  <2>1. RequestIs(r, [req[r] EXCEPT !.pc = "consume", !.pick = k])
    BY <1>9 DEF BackupMatch
  <2>. QED
    BY <1>3, <1>4, <2>1, RequestShapes
<1>. QED
  BY <1>5, <1>6, <1>7, <1>8, <1>9

\* A wrong recovery code, new backup codes, a new invitation.
LEMMA TableStep ==
  ASSUME AuthInv, NEW r \in DOMAIN req,
         RecoveryWrong(r) \/ RegenerateCommit(r) \/ InviteCommit(r)
  PROVE  AuthInv'
<1>1. /\ UNCHANGED <<tokens, now, history>> /\ Done(r)
      /\ UNCHANGED invitations \/ invitations' = Append(invitations, NewInvitation)
  BY DEF RecoveryWrong, RegenerateCommit, InviteCommit
<1>2. DOMAIN users' = DOMAIN users /\ users' \in [DOMAIN users' -> User]
  <2>1. CASE RecoveryWrong(r)
    <3>1. \A w \in User, n \in Nat : [w EXCEPT !.attempts = n] \in User
      BY DEF User
    <3>2. req[r].row.attempts + 1 \in Nat
      BY Known
    <3>3. req[r].user \in DOMAIN users => users[req[r].user] \in User
      BY Known DEF TypeOK
    <3>. DEFINE user == [users[req[r].user] EXCEPT !.attempts = req[r].row.attempts + 1]
    <3>4. req[r].user \in DOMAIN users => user \in User
      BY <3>1, <3>2, <3>3
    <3>5. UserIs(req[r].user, user)
      BY <2>1 DEF RecoveryWrong
    <3>. HIDE DEF user
    <3>. QED
      BY <3>4, <3>5, Known, UserFacts
  <2>2. CASE RegenerateCommit(r) \/ InviteCommit(r)
    BY <2>2, Known DEF RegenerateCommit, InviteCommit
  <2>. QED
    BY <2>1, <2>2
<1>3. codes' \in Seq(BackupCode)
  <2>1. CASE RecoveryWrong(r) \/ InviteCommit(r)
    BY <2>1, Known DEF RecoveryWrong, InviteCommit
  <2>2. CASE RegenerateCommit(r)
    <3>. DEFINE u == req[r].user
                Marked(k) == codes[k].user = u /\ k <= req[r].pick
                left == [k \in DOMAIN codes |->
                          [user |-> codes[k].user, used |-> codes[k].used \/ Marked(k)]]
    <3>1. codes \in Seq(BackupCode)
      BY Known DEF TypeOK
    <3>2. \A k \in DOMAIN codes :
            [user |-> codes[k].user, used |-> codes[k].used \/ Marked(k)] \in BackupCode
      <4>1. \A k \in DOMAIN codes : codes[k] \in BackupCode
        BY <3>1
      <4>2. \A k \in DOMAIN codes : codes[k].user \in Users
        BY <4>1 DEF BackupCode
      <4>3. \A k \in DOMAIN codes : (codes[k].used \/ Marked(k)) \in BOOLEAN
        OBVIOUS
      <4>. QED
        BY <4>2, <4>3 DEF BackupCode
    <3>3. Len(codes) \in Nat /\ DOMAIN codes = 1..Len(codes)
      BY <3>1
    <3>4. left \in [1..Len(codes) -> BackupCode]
      BY <3>2, <3>3
    <3>5. left \in Seq(BackupCode)
      <4>. HIDE DEF left
      <4>. QED
        BY <3>3, <3>4
    <3>6. NewCodes(u) \in Seq(BackupCode)
      BY Known, NewCodesType
    <3>7. codes' = left \o NewCodes(u)
      BY <2>2 DEF RegenerateCommit
    <3>. HIDE DEF left
    <3>. QED
      BY <3>5, <3>6, <3>7
  <2>. QED
    BY <2>1, <2>2
<1>4. tokens' \subseteq Token /\ \A t \in tokens' : t.user \in DOMAIN users'
  BY <1>1, <1>2, Known
<1>. QED
  BY <1>1, <1>2, <1>3, <1>4, Known, DoneStep

\* A password is changed.
LEMMA ResetStep == ASSUME AuthInv, NEW r \in DOMAIN req, ResetCommit(r) PROVE AuthInv'
<1>. DEFINE u == req[r].user
            gen == users[u].gen + 1
            attempts == IF req[r].row.attempts = 0 THEN users[u].attempts ELSE 0
            user == [users[u] EXCEPT !.gen = gen, !.changed = req[r].stamp, !.recovery = FALSE,
                                     !.attempts = attempts]
            request == [req[r] EXCEPT !.pc = "changed", !.gen = gen]
<1>1. /\ UserIs(u, user) /\ RequestIs(r, request) /\ UNCHANGED <<invitations, codes, tokens, now, history>>
      /\ req[r].pc \notin Registering \cup {"done"}
  BY DEF ResetCommit, At, Registering
<1>2. /\ TypeOK /\ req[r] \in Request /\ u \in DOMAIN users /\ req[r].stamp \in Time
      /\ users[u] \in User
  BY <1>1, Known DEF TypeOK
<1>3. gen \in Nat /\ attempts \in Nat
  BY <1>2 DEF User
<1>4. \A w \in User, g, a \in Nat, t \in Time :
        [w EXCEPT !.gen = g, !.changed = t, !.recovery = FALSE, !.attempts = a] \in User
  BY DEF User
<1>5. \A q \in Request, g \in Nat : /\ [q EXCEPT !.pc = "changed", !.gen = g] \in Request
                                    /\ [q EXCEPT !.pc = "changed", !.gen = g].pc = "changed"
                                    /\ [q EXCEPT !.pc = "changed", !.gen = g].user = q.user
  BY DEF Request, Steps
<1>. HIDE DEF gen, attempts
<1>6. user \in User
  BY <1>2, <1>3, <1>4
<1>7. request \in Request /\ request.pc = "changed" /\ request.user = u
  BY <1>2, <1>3, <1>5
<1>. HIDE DEF user, request
<1>8. DOMAIN users' = DOMAIN users /\ users' \in [DOMAIN users' -> User]
  BY <1>1, <1>2, <1>6, UserFacts
<1>9. tokens' \subseteq Token /\ \A t \in tokens' : t.user \in DOMAIN users'
  BY <1>1, <1>8, Known
<1>10. request.pc \notin Registering /\ request.user \in DOMAIN users
  BY <1>2, <1>7 DEF Registering
<1>. QED
  BY <1>1, <1>7, <1>8, <1>9, <1>10, Known, OtherStep

\* Each request that arrives.
LEMMA Arrival ==
  ASSUME AuthInv,
         \/ \E u \in Users : LoginLoad(u) \/ RecoveryLoad(u)
         \/ \E u \in Users, i \in 0..Len(invitations) : RegisterCount(u, i)
         \/ \E t \in tokens, pc \in Protected : Authenticate(t, pc)
         \/ \E t \in tokens : ResetLoad(t)
  PROVE  AuthInv'
<1>1. TypeOK
  BY DEF AuthInv
<1>2. \A u \in DOMAIN users : u \in Users /\ users[u] \in User
  BY <1>1 DEF TypeOK
<1>3. \A u \in DOMAIN users : users[u].gen \in Nat
  BY <1>2 DEF User
<1>4. ASSUME NEW t \in tokens
      PROVE  t.user \in DOMAIN users /\ t.gen \in Nat /\ t.crossed \in BOOLEAN
  <2>1. t \in Token /\ t.user \in DOMAIN users
    BY <1>1 DEF TypeOK
  <2>. QED
    BY <2>1 DEF Token
<1>5. ASSUME NEW u \in Users, LoginLoad(u) PROVE AuthInv'
  <2>1. u \in DOMAIN users /\ Start("login", u, users[u].gen, FALSE, users[u], 0)
        /\ UNCHANGED <<tables, tokens, now>>
    BY <1>5 DEF LoginLoad
  <2>. QED
    BY <1>2, <1>3, <2>1, StartStep DEF Steps
<1>6. ASSUME NEW u \in Users, RecoveryLoad(u) PROVE AuthInv'
  <2>1. u \in DOMAIN users /\ Start("recovery", u, users[u].gen, FALSE, users[u], 0)
        /\ UNCHANGED <<tables, tokens, now>>
    BY <1>6 DEF RecoveryLoad
  <2>. QED
    BY <1>2, <1>3, <2>1, StartStep DEF Steps
<1>7. ASSUME NEW u \in Users, NEW i \in 0..Len(invitations), RegisterCount(u, i) PROVE AuthInv'
  <2>. DEFINE pc == IF i = 0 THEN "username" ELSE "invitation"
  <2>1. Start(pc, u, 0, FALSE, NewUser, i) /\ UNCHANGED <<tables, tokens, now>>
    BY <1>7 DEF RegisterCount
  <2>2. i \in Nat /\ (i # 0 => i \in DOMAIN invitations)
    <3>1. invitations \in Seq(Invitation)
      BY <1>1 DEF TypeOK
    <3>. QED
      BY <3>1
  <2>3. /\ pc \in Steps \ {"insert"} /\ pc \in {"username", "invitation"}
        /\ pc = "username" => i = 0
        /\ pc = "invitation" => i # 0
    BY DEF Steps
  <2>. HIDE DEF pc
  <2>. QED
    BY <2>1, <2>2, <2>3, UserTypes, StartStep
<1>8. ASSUME NEW t \in tokens, NEW pc \in Protected, Authenticate(t, pc) PROVE AuthInv'
  <2>1. Start(pc, t.user, t.gen, t.crossed, users[t.user], 0) /\ UNCHANGED <<tables, tokens, now>>
    BY <1>8 DEF Authenticate
  <2>2. pc \in Steps \ {"insert"} /\ pc \notin {"username", "invitation"}
    BY DEF Protected, Steps
  <2>. QED
    BY <1>2, <1>4, <2>1, <2>2, StartStep
<1>9. ASSUME NEW t \in tokens, ResetLoad(t) PROVE AuthInv'
  <2>1. Start("reset", t.user, t.gen, FALSE, users[t.user], 0) /\ UNCHANGED <<tables, tokens, now>>
    BY <1>9 DEF ResetLoad
  <2>. QED
    BY <1>2, <1>4, <2>1, StartStep DEF Steps
<1>. QED
  BY <1>5, <1>6, <1>7, <1>8, <1>9

\* Time passes.
LEMMA TimeStep ==
  ASSUME AuthInv, Tick \/ \E i \in DOMAIN invitations : InvitationExpires(i)
  PROVE  AuthInv'
<1>1. TypeOK /\ UNCHANGED <<users, codes, tokens, req, history>>
  BY DEF AuthInv, Tick, InvitationExpires, tables
<1>2. now' \in Time
  BY <1>1, ReadsFacts DEF Tick, InvitationExpires, TypeOK
<1>3. /\ invitations' \in Seq(Invitation) /\ DOMAIN invitations' = DOMAIN invitations
      /\ \A i \in DOMAIN invitations : invitations'[i].used = invitations[i].used
  <2>1. invitations \in Seq(Invitation)
    BY <1>1 DEF TypeOK
  <2>2. CASE Tick
    BY <2>1, <2>2 DEF Tick, tables
  <2>3. ASSUME NEW i \in DOMAIN invitations, InvitationExpires(i)
        PROVE  /\ invitations' \in Seq(Invitation) /\ DOMAIN invitations' = DOMAIN invitations
               /\ \A j \in DOMAIN invitations : invitations'[j].used = invitations[j].used
    <3>. DEFINE after == [invitations[i] EXCEPT !.expired = TRUE]
    <3>1. \A inv \in Invitation : /\ [inv EXCEPT !.expired = TRUE] \in Invitation
                                  /\ [inv EXCEPT !.expired = TRUE].used = inv.used
      BY DEF Invitation
    <3>2. after \in Invitation /\ after.used = invitations[i].used
      BY <2>1, <3>1
    <3>3. invitations' = [invitations EXCEPT ![i] = after]
      BY <2>3 DEF InvitationExpires
    <3>. HIDE DEF after
    <3>. QED
      BY <2>1, <3>2, <3>3
  <2>. QED
    BY <2>2, <2>3
<1>4. TypeOK'
  BY <1>1, <1>2, <1>3 DEF TypeOK
<1>5. PickInv' /\ LockInv'
  BY <1>1, <1>3 DEF AuthInv, PickInv, LockInv, Holds
<1>6. UsedInv' /\ InvitationMakesOneUser'
  BY <1>1, <1>3 DEF AuthInv, UsedInv, InvitationMakesOneUser, Invited
<1>. QED
  BY <1>4, <1>5, <1>6 DEF AuthInv

\* Every step keeps the locks and the uses of invitations.
LEMMA NextAuthInv == AuthInv /\ [Next]_vars => AuthInv'
<1>. SUFFICES ASSUME AuthInv, [Next]_vars PROVE AuthInv'
  OBVIOUS
<1>1. ASSUME NEW r \in Open,
             \/ RegisterInvitation(r) \/ RegisterUsername(r) \/ RegisterCommit(r)
             \/ LoginAnswer(r) \/ EnrollStamp(r) \/ EnrollCommit(r) \/ TotpLock(r) \/ TotpCommit(r)
             \/ BackupCommit(r) \/ RegenerateMark(r) \/ RegenerateCommit(r) \/ InviteCommit(r)
             \/ RecoveryWrong(r) \/ RecoveryRight(r)
             \/ ResetStamp(r) \/ ResetCommit(r) \/ ResetAnswer(r) \/ Fail(r)
             \/ \E k \in DOMAIN codes : BackupMatch(r, k)
      PROVE  AuthInv'
  <2>1. r \in DOMAIN req
    BY DEF Open
  <2>2. CASE RegisterInvitation(r) \/ RegisterUsername(r)
    BY <2>1, <2>2, RegisterStep
  <2>3. CASE RegisterCommit(r)
    BY <2>1, <2>3, RegisterCommitStep
  <2>4. CASE Fail(r) \/ LoginAnswer(r) \/ RecoveryRight(r) \/ ResetAnswer(r)
    BY <2>1, <2>4, AnswerStep
  <2>5. CASE EnrollCommit(r) \/ TotpCommit(r) \/ BackupCommit(r)
    BY <2>1, <2>5, FactorStep
  <2>6. CASE \/ TotpLock(r) \/ EnrollStamp(r) \/ ResetStamp(r) \/ RegenerateMark(r)
             \/ \E k \in DOMAIN codes : BackupMatch(r, k)
    BY <2>1, <2>6, GoOnStep
  <2>7. CASE RecoveryWrong(r) \/ RegenerateCommit(r) \/ InviteCommit(r)
    BY <2>1, <2>7, TableStep
  <2>8. CASE ResetCommit(r)
    BY <2>1, <2>8, ResetStep
  <2>. QED
    BY <1>1, <2>2, <2>3, <2>4, <2>5, <2>6, <2>7, <2>8
<1>2. CASE UNCHANGED vars
  <2>1. UNCHANGED <<users, invitations, codes, tokens, req, now, history>>
    BY <1>2 DEF vars
  <2>2. TypeOK'
    BY <2>1 DEF AuthInv, TypeOK
  <2>3. PickInv' /\ LockInv'
    BY <2>1 DEF AuthInv, PickInv, LockInv, Holds
  <2>4. UsedInv' /\ InvitationMakesOneUser'
    BY <2>1 DEF AuthInv, UsedInv, InvitationMakesOneUser, Invited
  <2>. QED
    BY <2>2, <2>3, <2>4 DEF AuthInv
<1>. QED
  BY <1>1, <1>2, Arrival, TimeStep DEF Next

-----------------------------------------------------------------------------
\* The inductive invariant of the accounts: who registers with an invitation holds its
\* row, and a used invitation has exactly one use (registration_utils.py).
THEOREM AuthInvariant == Spec => []AuthInv
<1>. QED
  BY InitAuthInv, NextAuthInv, PTL DEF Spec

\* The tables, requests and tokens keep their types (models.py).
THEOREM TypeCorrect == Spec => []TypeOK
<1>1. AuthInv => TypeOK
  BY DEF AuthInv
<1>. QED
  BY <1>1, AuthInvariant, PTL

\* However many registrations present an invitation at the same time, it makes one user,
\* and it is marked as used exactly when it has made one (FOR UPDATE on its row).
THEOREM InvitationOneUser == Spec => []InvitationMakesOneUser
<1>1. AuthInv => InvitationMakesOneUser
  BY DEF AuthInv
<1>. QED
  BY <1>1, AuthInvariant, PTL

-----------------------------------------------------------------------------
(***************************************************************************)
(* What the steps are, as far as overlaps, uses and sessions depend on     *)
(* them: a request arrives, a request goes on, or time passes.             *)
(***************************************************************************)
Arrives ==
  \/ \E u \in Users : LoginLoad(u) \/ RecoveryLoad(u)
  \/ \E u \in Users, i \in 0..Len(invitations) : RegisterCount(u, i)
  \/ \E t \in tokens, pc \in Protected : Authenticate(t, pc)
  \/ \E t \in tokens : ResetLoad(t)

GoesOn(r) ==
  \/ RegisterInvitation(r) \/ RegisterUsername(r) \/ RegisterCommit(r)
  \/ LoginAnswer(r) \/ EnrollStamp(r) \/ EnrollCommit(r) \/ TotpLock(r) \/ TotpCommit(r)
  \/ BackupCommit(r) \/ RegenerateMark(r) \/ RegenerateCommit(r) \/ InviteCommit(r)
  \/ RecoveryWrong(r) \/ RecoveryRight(r)
  \/ ResetStamp(r) \/ ResetCommit(r) \/ ResetAnswer(r) \/ Fail(r)
  \/ \E k \in DOMAIN codes : BackupMatch(r, k)

Passes == Tick \/ \E i \in DOMAIN invitations : InvitationExpires(i)

\* Every step is of one of the three kinds.
LEMMA NextKinds == Next => Arrives \/ (\E r \in Open : GoesOn(r)) \/ Passes
BY DEF Next, Arrives, GoesOn, Passes

\* A request that arrives, by the step it is at first.
Granted(q) == \E t \in tokens :
                /\ t.user = q.user /\ t.gen = q.gen /\ t.crossed = q.crossed
                /\ t.scope # "password_reset" /\ Accepted(t)
Fits(q) ==
  \/ q.pc = "username" /\ q.pick = 0 /\ DOMAIN users = {} /\ q.row = NewUser
  \/ q.pc = "invitation" /\ q.pick # 0 /\ q.row = NewUser
  \/ /\ q.pc \in {"login", "recovery", "reset"} \cup Protected
     /\ q.user \in DOMAIN users /\ q.row = users[q.user]
     /\ q.pc = "reset" \/ q.gen = users[q.user].gen \/ Granted(q)

\* The request that Start appends.
Arrived(pc, u, gen, crossed, row, pick) ==
  [pc |-> pc, user |-> u, gen |-> gen, crossed |-> crossed, row |-> row, pick |-> pick, stamp |-> 0]

\* The request q arrives.
Enters(q) ==
  /\ q \in Request /\ q.stamp = 0 /\ Len(req) + 1 \notin DOMAIN req /\ Len(req) + 1 \in Nat
  /\ DOMAIN req' = DOMAIN req \cup {Len(req) + 1} /\ req'[Len(req) + 1] = q
  /\ \A r \in DOMAIN req : req'[r] = req[r]
  /\ history'.used = history.used
  /\ history'.together = history.together \cup {{r, Len(req) + 1} : r \in Open}
  /\ history'.resets = history.resets \cup (IF q.pc = "reset" THEN {Len(req) + 1} ELSE {})

\* What Start does is that a request enters.
LEMMA StartFacts ==
  ASSUME TypeOK, NEW pc \in Steps, NEW u \in Users, NEW gen \in Nat,
         NEW crossed \in BOOLEAN, NEW row \in User, NEW pick \in Nat,
         Start(pc, u, gen, crossed, row, pick)
  PROVE  Enters(Arrived(pc, u, gen, crossed, row, pick))
<1>. DEFINE q == Arrived(pc, u, gen, crossed, row, pick)
<1>1. q \in Request /\ q.pc = pc /\ q.stamp = 0
  BY UserTypes DEF Request, Arrived
<1>2. req \in Seq(Request) /\ req' = Append(req, q)
  BY DEF TypeOK, Start, Arrived
<1>3. /\ history'.used = history.used
      /\ history'.together = history.together \cup {{r, Len(req) + 1} : r \in Open}
      /\ history'.resets = history.resets \cup (IF pc = "reset" THEN {Len(req) + 1} ELSE {})
  BY DEF Start
<1>. HIDE DEF q
<1>4. /\ Len(req) + 1 \notin DOMAIN req /\ Len(req) + 1 \in Nat
      /\ DOMAIN req' = DOMAIN req \cup {Len(req) + 1} /\ req'[Len(req) + 1] = q
      /\ \A r \in DOMAIN req : req'[r] = req[r]
  BY <1>1, <1>2
<1>5. Enters(q)
  BY <1>1, <1>3, <1>4 DEF Enters
<1>. QED
  BY <1>5 DEF q

\* Each request that arrives holds the row as it is, or a token that is accepted, and
\* changes no table.
LEMMA ArrivalFacts ==
  ASSUME AuthInv, Arrives
  PROVE  \E q : Enters(q) /\ Fits(q) /\ UNCHANGED <<users, invitations, codes, tokens, now>>
<1>1. TypeOK
  BY DEF AuthInv
<1>2. \A u \in DOMAIN users : u \in Users /\ users[u] \in User
  BY <1>1 DEF TypeOK
<1>3. \A u \in DOMAIN users : users[u].gen \in Nat
  BY <1>2 DEF User
<1>4. \A t \in tokens : t.user \in DOMAIN users /\ t.gen \in Nat /\ t.crossed \in BOOLEAN
  BY <1>1 DEF TypeOK, Token
<1>5. ASSUME NEW pc \in Steps, NEW u \in Users, NEW gen \in Nat,
             NEW crossed \in BOOLEAN, NEW row \in User, NEW pick \in Nat,
             Start(pc, u, gen, crossed, row, pick),
             Fits(Arrived(pc, u, gen, crossed, row, pick)),
             UNCHANGED <<users, invitations, codes, tokens, now>>
      PROVE  \E q : Enters(q) /\ Fits(q) /\ UNCHANGED <<users, invitations, codes, tokens, now>>
  BY <1>1, <1>5, StartFacts
<1>7. CASE \E u \in Users : LoginLoad(u) \/ RecoveryLoad(u)
  <2>1. PICK u \in Users, pc \in {"login", "recovery"} :
          /\ u \in DOMAIN users /\ Start(pc, u, users[u].gen, FALSE, users[u], 0)
          /\ UNCHANGED <<tables, tokens, now>>
    BY <1>7 DEF LoginLoad, RecoveryLoad
  <2>2. pc \in Steps /\ users[u].gen \in Nat /\ users[u] \in User
    BY <1>2, <1>3, <2>1 DEF Steps
  <2>3. Fits(Arrived(pc, u, users[u].gen, FALSE, users[u], 0))
    BY <2>1 DEF Fits, Arrived
  <2>4. UNCHANGED <<users, invitations, codes, tokens, now>>
    BY <2>1 DEF tables
  <2>. QED
    BY <1>5, <2>1, <2>2, <2>3, <2>4
<1>8. CASE \E u \in Users, i \in 0..Len(invitations) : RegisterCount(u, i)
  <2>1. PICK u \in Users, i \in 0..Len(invitations) : RegisterCount(u, i)
    BY <1>8
  <2>. DEFINE pc == IF i = 0 THEN "username" ELSE "invitation"
  <2>2. /\ Start(pc, u, 0, FALSE, NewUser, i) /\ UNCHANGED <<users, invitations, codes, tokens, now>>
        /\ i = 0 => DOMAIN users = {}
    BY <2>1 DEF RegisterCount, tables
  <2>3. pc \in Steps /\ i \in Nat /\ (IF i = 0 THEN pc = "username" ELSE pc = "invitation")
    BY <1>1 DEF Steps, TypeOK
  <2>. HIDE DEF pc
  <2>4. Fits(Arrived(pc, u, 0, FALSE, NewUser, i))
    BY <2>2, <2>3 DEF Fits, Arrived
  <2>5. 0 \in Nat /\ FALSE \in BOOLEAN /\ NewUser \in User
    BY UserTypes
  <2>. QED
    BY <1>5, <2>2, <2>3, <2>4, <2>5
<1>9. CASE \E t \in tokens, pc \in Protected : Authenticate(t, pc)
  <2>1. PICK t \in tokens, pc \in Protected : Authenticate(t, pc)
    BY <1>9
  <2>2. /\ Start(pc, t.user, t.gen, t.crossed, users[t.user], 0) /\ Accepted(t)
        /\ UNCHANGED <<users, invitations, codes, tokens, now>> /\ t.scope # "password_reset"
    BY <2>1 DEF Authenticate, tables
  <2>. DEFINE q == Arrived(pc, t.user, t.gen, t.crossed, users[t.user], 0)
  <2>3. q.pc = pc /\ q.user = t.user /\ q.gen = t.gen /\ q.crossed = t.crossed /\ q.row = users[t.user]
    BY DEF Arrived
  <2>4. Fits(q)
    <3>. HIDE DEF q
    <3>. QED
      BY <1>4, <2>2, <2>3 DEF Fits, Granted
  <2>5. pc \in Steps /\ t.user \in Users /\ users[t.user] \in User /\ t.gen \in Nat /\ t.crossed \in BOOLEAN
    BY <1>2, <1>4 DEF Protected, Steps
  <2>. QED
    BY <1>5, <2>2, <2>4, <2>5
<1>10. CASE \E t \in tokens : ResetLoad(t)
  <2>1. PICK t \in tokens : ResetLoad(t)
    BY <1>10
  <2>2. /\ Start("reset", t.user, t.gen, FALSE, users[t.user], 0)
        /\ UNCHANGED <<users, invitations, codes, tokens, now>>
    BY <2>1 DEF ResetLoad, tables
  <2>3. Fits(Arrived("reset", t.user, t.gen, FALSE, users[t.user], 0))
    BY <1>4 DEF Fits, Arrived
  <2>4. "reset" \in Steps /\ t.user \in Users /\ users[t.user] \in User /\ t.gen \in Nat
    BY <1>2, <1>4 DEF Steps
  <2>. QED
    BY <1>5, <2>2, <2>3, <2>4
<1>. QED
  BY <1>7, <1>8, <1>9, <1>10 DEF Arrives

\* Where a request goes: q is what it becomes.
Becomes(r, q) ==
  /\ q.stamp \in {0, req[r].stamp, now}
  /\ \/ q.pc = "done" /\ q.row = NewUser
     \/ /\ q.row = req[r].row /\ q.gen = req[r].gen /\ q.crossed = req[r].crossed
        /\ \/ q.pc \in {"username", "insert"} /\ req[r].pc \in Registering /\ q.pick = req[r].pick
           \/ q.pc = "locked" /\ req[r].pc = "totp" /\ req[r].row.enrolled
           \/ /\ q.pc = "consume" /\ req[r].pc = "backup"
              /\ q.pick \in DOMAIN codes /\ ~codes[q.pick].used
           \/ q.pc = "marked" /\ req[r].pc = "regenerate"
           \/ q.pc = "enrolling" /\ req[r].pc = "enroll" /\ ~req[r].row.enrolled
           \/ q.pc = "stamped" /\ req[r].pc = "reset" /\ q.stamp = now
     \/ /\ q.pc = "changed" /\ req[r].pc = "stamped" /\ ResetCommit(r)
        /\ q.row = req[r].row /\ q.gen = users[req[r].user].gen + 1

\* A step of r moves r as said, and no other request.
LEMMA ProgressFacts ==
  ASSUME AuthInv, NEW r \in Open, GoesOn(r)
  PROVE  /\ r \in DOMAIN req /\ r \in Nat /\ DOMAIN req' = DOMAIN req /\ req'[r] \in Request
         /\ \A q \in DOMAIN req \ {r} : req'[q] = req[q]
         /\ req'[r].user = req[r].user /\ Becomes(r, req'[r])
<1>1. TypeOK /\ r \in DOMAIN req
  BY DEF AuthInv, Open
<1>2. req[r] \in Request /\ r \in Nat
  BY <1>1 DEF TypeOK
<1>3. ASSUME NEW q \in Request, RequestIs(r, q), q.user = req[r].user, Becomes(r, q)
      PROVE  /\ DOMAIN req' = DOMAIN req /\ req'[r] \in Request
             /\ \A p \in DOMAIN req \ {r} : req'[p] = req[p]
             /\ req'[r].user = req[r].user /\ Becomes(r, req'[r])
  BY <1>1, <1>3, RequestFacts
<1>4. CASE Done(r)
  <2>. DEFINE q == Over(req[r].user)
  <2>1. RequestIs(r, q) /\ req[r].user \in Users
    BY <1>2, <1>4 DEF Done, Request
  <2>2. q \in Request
    BY <2>1, OverFacts
  <2>3. q.user = req[r].user /\ q.pc = "done" /\ q.row = NewUser /\ q.stamp = 0
    BY <2>1, OverFacts
  <2>. HIDE DEF q
  <2>. QED
    BY <1>1, <1>2, <1>3, <2>1, <2>2, <2>3 DEF Becomes
<1>5. CASE RegisterInvitation(r) \/ RegisterUsername(r) \/ TotpLock(r)
  <2>1. PICK pc \in {"username", "insert", "locked"} :
          /\ Goto(r, pc)
          /\ IF pc = "locked" THEN req[r].pc = "totp" /\ req[r].row.enrolled
             ELSE req[r].pc \in Registering
    BY <1>5 DEF RegisterInvitation, RegisterUsername, TotpLock, At, Registering
  <2>. DEFINE q == [req[r] EXCEPT !.pc = pc]
  <2>2. pc \in {"username", "insert", "locked"}
    OBVIOUS
  <2>6. Same(req[r], q, pc, req[r].gen, req[r].pick, req[r].stamp)
    BY <1>2, <2>2, RequestShapes
  <2>3. /\ q \in Request /\ q.pc = pc /\ q.user = req[r].user /\ q.row = req[r].row
        /\ q.gen = req[r].gen /\ q.crossed = req[r].crossed /\ q.pick = req[r].pick
        /\ q.stamp = req[r].stamp
    BY <2>6 DEF Same
  <2>4. RequestIs(r, q)
    BY <2>1 DEF Goto
  <2>. HIDE DEF q
  <2>5. Becomes(r, q)
    BY <2>1, <2>3 DEF Becomes
  <2>. QED
    BY <1>1, <1>2, <1>3, <2>3, <2>4, <2>5
<1>6. CASE \E k \in DOMAIN codes : BackupMatch(r, k)
  <2>1. PICK k \in DOMAIN codes : BackupMatch(r, k)
    BY <1>6
  <2>. DEFINE q == [req[r] EXCEPT !.pc = "consume", !.pick = k]
  <2>2. k \in Nat
    BY <1>1 DEF TypeOK
  <2>6. Same(req[r], q, "consume", req[r].gen, k, req[r].stamp)
    BY <1>2, <2>2, RequestShapes
  <2>3. /\ q \in Request /\ q.pc = "consume" /\ q.user = req[r].user /\ q.row = req[r].row
        /\ q.gen = req[r].gen /\ q.crossed = req[r].crossed /\ q.pick = k /\ q.stamp = req[r].stamp
    BY <2>6 DEF Same
  <2>4. RequestIs(r, q) /\ ~codes[k].used /\ req[r].pc = "backup"
    BY <2>1 DEF BackupMatch, At
  <2>. HIDE DEF q
  <2>5. Becomes(r, q)
    BY <2>3, <2>4 DEF Becomes
  <2>. QED
    BY <1>1, <1>2, <1>3, <2>3, <2>4, <2>5
<1>6a. CASE RegenerateMark(r)
  <2>. DEFINE q == [req[r] EXCEPT !.pc = "marked", !.pick = Len(codes)]
  <2>1. Len(codes) \in Nat
    BY <1>1 DEF TypeOK
  <2>2. Same(req[r], q, "marked", req[r].gen, Len(codes), req[r].stamp)
    BY <1>2, <2>1, RequestShapes
  <2>3. /\ q \in Request /\ q.pc = "marked" /\ q.user = req[r].user /\ q.row = req[r].row
        /\ q.gen = req[r].gen /\ q.crossed = req[r].crossed /\ q.stamp = req[r].stamp
    BY <2>2 DEF Same
  <2>4. RequestIs(r, q) /\ req[r].pc = "regenerate"
    BY <1>6a DEF RegenerateMark, At
  <2>. HIDE DEF q
  <2>5. Becomes(r, q)
    BY <2>3, <2>4 DEF Becomes
  <2>. QED
    BY <1>1, <1>2, <1>3, <2>3, <2>4, <2>5
<1>7. CASE EnrollStamp(r) \/ ResetStamp(r)
  <2>1. PICK pc \in {"enrolling", "stamped"} :
          /\ RequestIs(r, [req[r] EXCEPT !.pc = pc, !.stamp = now])
          /\ IF pc = "enrolling" THEN req[r].pc = "enroll" /\ ~req[r].row.enrolled
             ELSE req[r].pc = "reset"
    BY <1>7 DEF EnrollStamp, ResetStamp, At
  <2>. DEFINE q == [req[r] EXCEPT !.pc = pc, !.stamp = now]
  <2>2. now \in Time
    BY <1>1 DEF TypeOK
  <2>3. Same(req[r], q, pc, req[r].gen, req[r].pick, now)
    BY <1>2, <2>2, RequestShapes
  <2>4. /\ q \in Request /\ q.pc = pc /\ q.user = req[r].user /\ q.row = req[r].row
        /\ q.gen = req[r].gen /\ q.crossed = req[r].crossed /\ q.stamp = now /\ RequestIs(r, q)
    BY <2>1, <2>3 DEF Same
  <2>. HIDE DEF q
  <2>5. Becomes(r, q)
    BY <2>1, <2>4 DEF Becomes
  <2>. QED
    BY <1>1, <1>2, <1>3, <2>4, <2>5
<1>8. CASE ResetCommit(r)
  <2>. DEFINE g == users[req[r].user].gen + 1
              q == [req[r] EXCEPT !.pc = "changed", !.gen = g]
  <2>1. RequestIs(r, q) /\ req[r].pc = "stamped"
    BY <1>8 DEF ResetCommit, At
  <2>2. g \in Nat
    <3>1. req[r].user \in DOMAIN users
      BY <1>1, <2>1 DEF AuthInv, PickInv, Registering
    <3>2. users[req[r].user] \in User
      BY <1>1, <3>1 DEF TypeOK
    <3>. QED
      BY <3>2 DEF User
  <2>. HIDE DEF g
  <2>6. Same(req[r], q, "changed", g, req[r].pick, req[r].stamp)
    BY <1>2, <2>2, RequestShapes
  <2>3. /\ q \in Request /\ q.pc = "changed" /\ q.user = req[r].user /\ q.row = req[r].row
        /\ q.gen = g /\ q.stamp = req[r].stamp
    BY <2>6 DEF Same
  <2>. HIDE DEF q
  <2>5. Becomes(r, q)
    BY <1>8, <2>1, <2>3 DEF Becomes, g
  <2>. QED
    BY <1>1, <1>2, <1>3, <2>1, <2>3, <2>5
<1>9. GoesOn(r) => \/ Done(r) \/ RegisterInvitation(r) \/ RegisterUsername(r) \/ TotpLock(r)
                   \/ EnrollStamp(r) \/ RegenerateMark(r)
                   \/ ResetStamp(r) \/ ResetCommit(r) \/ \E k \in DOMAIN codes : BackupMatch(r, k)
  BY DEF GoesOn, RegisterCommit, LoginAnswer, EnrollCommit, TotpCommit, BackupCommit,
         RegenerateCommit, InviteCommit, RecoveryWrong, RecoveryRight, ResetAnswer, Fail
<1>. QED
  BY <1>1, <1>2, <1>4, <1>5, <1>6, <1>6a, <1>7, <1>8, <1>9

-----------------------------------------------------------------------------
(***************************************************************************)
(* What a request that goes on does to the tables, the tokens, the clock   *)
(* and the overlaps.                                                       *)
(***************************************************************************)
\* A user after a step that changes one: how it may differ.
Changes(w, after, gen, changed, lastUsed) ==
  /\ after \in User /\ after.gen = gen /\ after.changed = changed /\ after.lastUsed = lastUsed
  /\ w.enrolled => after.enrolled

\* The ways a row of the table user is rewritten.
LEMMA UserShapes ==
  ASSUME NEW w \in User
  PROVE  /\ \A t \in Time : /\ Changes(w, [w EXCEPT !.enrolled = TRUE, !.lastUsed = t], w.gen, w.changed, t)
                            /\ [w EXCEPT !.enrolled = TRUE, !.lastUsed = t].enrolled
                            /\ Changes(w, [w EXCEPT !.lastUsed = t], w.gen, w.changed, t)
         /\ \A n \in Nat : Changes(w, [w EXCEPT !.attempts = n], w.gen, w.changed, w.lastUsed)
         /\ \A g, a \in Nat, t \in Time :
              Changes(w, [w EXCEPT !.gen = g, !.changed = t, !.recovery = FALSE, !.attempts = a],
                      g, t, w.lastUsed)
BY DEF User, Changes

\* The row of u in the table users after the step of r.
Kept(u) == users'[u].gen = users[u].gen /\ users'[u].changed = users[u].changed
Reset(r, u) ==
  /\ ResetCommit(r) /\ u = req[r].user
  /\ users'[u].gen = users[u].gen + 1 /\ users'[u].changed = req[r].stamp
RowAfter(r, u) ==
  /\ users'[u] \in User
  /\ users[u].enrolled => users'[u].enrolled
  /\ \/ users'[u].lastUsed = users[u].lastUsed \/ users'[u].lastUsed = now
     \/ EnrollCommit(r) /\ u = req[r].user /\ users'[u].lastUsed = req[r].stamp
  /\ Kept(u) \/ Reset(r, u)

\* Users stay, second factors stay enrolled, a password changes only by its reset.
LEMMA UserChanges ==
  ASSUME AuthInv, NEW r \in Open, GoesOn(r)
  PROVE  /\ DOMAIN users \subseteq DOMAIN users'
         /\ \A u \in DOMAIN users : RowAfter(r, u)
         /\ \A u \in DOMAIN users' \ DOMAIN users :
              users'[u] = NewUser /\ u = req[r].user /\ RegisterCommit(r)
         /\ ~RegisterCommit(r) => DOMAIN users' = DOMAIN users
         /\ RegisterCommit(r) => req[r].user \in DOMAIN users' \ DOMAIN users
         /\ EnrollCommit(r) => req[r].user \in DOMAIN users /\ users'[req[r].user].enrolled
         /\ TotpCommit(r) => req[r].user \in DOMAIN users /\ users'[req[r].user].lastUsed = now
<1>1. /\ TypeOK /\ r \in DOMAIN req /\ req[r] \in Request /\ req[r].stamp \in Time
      /\ req[r].row.attempts \in Nat
      /\ req[r].pc \notin Registering \cup {"done"} => req[r].user \in DOMAIN users
  BY Known DEF Open
<1>2. now \in Time /\ \A u \in DOMAIN users : users[u] \in User
  BY <1>1 DEF TypeOK
<1>. DEFINE u == req[r].user
<1>3. ASSUME NEW w, NEW gen, NEW changed, NEW lastUsed, u \in DOMAIN users, UserIs(u, w),
             Changes(users[u], w, gen, changed, lastUsed),
             \/ lastUsed = users[u].lastUsed \/ lastUsed = now
             \/ EnrollCommit(r) /\ lastUsed = req[r].stamp,
             \/ gen = users[u].gen /\ changed = users[u].changed
             \/ ResetCommit(r) /\ gen = users[u].gen + 1 /\ changed = req[r].stamp
      PROVE  DOMAIN users' = DOMAIN users /\ (\A v \in DOMAIN users : RowAfter(r, v)) /\ users'[u] = w
  <2>1. DOMAIN users' = DOMAIN users /\ users'[u] = w /\ \A v \in DOMAIN users \ {u} : users'[v] = users[v]
    BY <1>1, <1>3 DEF UserIs, TypeOK
  <2>2. \A v \in DOMAIN users \ {u} : RowAfter(r, v)
    BY <1>2, <2>1 DEF RowAfter, Kept
  <2>3. RowAfter(r, u)
    BY <1>2, <1>3, <2>1 DEF RowAfter, Kept, Reset, Changes
  <2>. QED
    BY <2>1, <2>2, <2>3
<1>4. CASE RegisterCommit(r)
  <2>1. u \notin DOMAIN users /\ req[r].pc = "insert"
        /\ users' = [v \in DOMAIN users \cup {u} |-> IF v = u THEN NewUser ELSE users[v]]
    BY <1>4 DEF RegisterCommit, At
  <2>2. \A v \in DOMAIN users : RowAfter(r, v)
    BY <1>2, <2>1 DEF RowAfter, Kept
  <2>3. ~EnrollCommit(r) /\ ~TotpCommit(r)
    BY <2>1 DEF EnrollCommit, TotpCommit, At
  <2>. QED
    BY <1>4, <2>1, <2>2, <2>3
<1>5. CASE EnrollCommit(r)
  <2>. DEFINE w == [users[u] EXCEPT !.enrolled = TRUE, !.lastUsed = req[r].stamp]
  <2>1. UserIs(u, w) /\ u \in DOMAIN users /\ req[r].pc = "enrolling"
    BY <1>1, <1>5 DEF EnrollCommit, At, Registering
  <2>2. Changes(users[u], w, users[u].gen, users[u].changed, req[r].stamp) /\ w.enrolled
    BY <1>1, <1>2, <2>1, UserShapes
  <2>. HIDE DEF w
  <2>3. ~RegisterCommit(r) /\ ~TotpCommit(r)
    BY <2>1 DEF RegisterCommit, TotpCommit, At
  <2>4. DOMAIN users' = DOMAIN users /\ (\A v \in DOMAIN users : RowAfter(r, v)) /\ users'[u] = w
    BY <1>3, <1>5, <2>1, <2>2
  <2>. QED
    BY <2>1, <2>2, <2>3, <2>4
<1>6. CASE TotpCommit(r)
  <2>. DEFINE w == [users[u] EXCEPT !.lastUsed = now]
  <2>1. UserIs(u, w) /\ u \in DOMAIN users /\ req[r].pc = "locked"
    BY <1>1, <1>6 DEF TotpCommit, At, Registering
  <2>2. Changes(users[u], w, users[u].gen, users[u].changed, now)
    BY <1>2, <2>1, UserShapes
  <2>. HIDE DEF w
  <2>3. ~RegisterCommit(r) /\ ~EnrollCommit(r)
    BY <2>1 DEF RegisterCommit, EnrollCommit, At
  <2>4. DOMAIN users' = DOMAIN users /\ (\A v \in DOMAIN users : RowAfter(r, v)) /\ users'[u] = w
    BY <1>3, <2>1, <2>2
  <2>5. w.lastUsed = now
    BY <2>2 DEF Changes
  <2>. QED
    BY <2>1, <2>3, <2>4, <2>5
<1>7. CASE RecoveryWrong(r)
  <2>. DEFINE w == [users[u] EXCEPT !.attempts = req[r].row.attempts + 1]
  <2>1. UserIs(u, w) /\ u \in DOMAIN users /\ req[r].pc = "recovery"
    BY <1>1, <1>7 DEF RecoveryWrong, At, Registering
  <2>2. req[r].row.attempts + 1 \in Nat
    BY <1>1
  <2>3. Changes(users[u], w, users[u].gen, users[u].changed, users[u].lastUsed)
    BY <1>2, <2>1, <2>2, UserShapes
  <2>. HIDE DEF w
  <2>4. ~RegisterCommit(r) /\ ~EnrollCommit(r) /\ ~TotpCommit(r)
    BY <2>1 DEF RegisterCommit, EnrollCommit, TotpCommit, At
  <2>5. DOMAIN users' = DOMAIN users /\ \A v \in DOMAIN users : RowAfter(r, v)
    BY <1>3, <2>1, <2>3
  <2>. QED
    BY <2>4, <2>5
<1>8. CASE ResetCommit(r)
  <2>. DEFINE gen == users[u].gen + 1
              attempts == IF req[r].row.attempts = 0 THEN users[u].attempts ELSE 0
              w == [users[u] EXCEPT !.gen = gen, !.changed = req[r].stamp, !.recovery = FALSE,
                                    !.attempts = attempts]
  <2>1. UserIs(u, w) /\ u \in DOMAIN users /\ req[r].pc = "stamped"
    BY <1>1, <1>8 DEF ResetCommit, At, Registering
  <2>2. gen \in Nat /\ attempts \in Nat /\ gen = users[u].gen + 1
    BY <1>2, <2>1 DEF User
  <2>. HIDE DEF gen, attempts
  <2>3. Changes(users[u], w, gen, req[r].stamp, users[u].lastUsed)
    BY <1>1, <1>2, <2>1, <2>2, UserShapes
  <2>. HIDE DEF w
  <2>4. ~RegisterCommit(r) /\ ~EnrollCommit(r) /\ ~TotpCommit(r)
    BY <2>1 DEF RegisterCommit, EnrollCommit, TotpCommit, At
  <2>5. DOMAIN users' = DOMAIN users /\ \A v \in DOMAIN users : RowAfter(r, v)
    BY <1>3, <1>8, <2>1, <2>2, <2>3
  <2>. QED
    BY <2>4, <2>5
<1>9. CASE UNCHANGED users /\ ~RegisterCommit(r) /\ ~EnrollCommit(r) /\ ~TotpCommit(r)
  BY <1>2, <1>9 DEF RowAfter, Kept
<1>10. \/ RegisterCommit(r) \/ EnrollCommit(r) \/ TotpCommit(r) \/ RecoveryWrong(r) \/ ResetCommit(r)
       \/ UNCHANGED users
  BY DEF GoesOn, RegisterInvitation, RegisterUsername, LoginAnswer, TotpLock, BackupCommit,
         RegenerateCommit, InviteCommit, RecoveryRight, ResetStamp, ResetAnswer, Fail, BackupMatch,
         EnrollStamp, RegenerateMark, tables
<1>. QED
  BY <1>4, <1>5, <1>6, <1>7, <1>8, <1>9, <1>10

\* Backup codes stay, and used ones stay used; the commit of one uses it.
LEMMA CodeChanges ==
  ASSUME AuthInv, NEW r \in Open, GoesOn(r)
  PROVE  /\ DOMAIN codes \subseteq DOMAIN codes'
         /\ \A k \in DOMAIN codes : codes[k].used => codes'[k].used
         /\ BackupCommit(r) => \A k \in DOMAIN codes : k = req[r].pick => codes'[k].used
<1>1. /\ TypeOK /\ r \in DOMAIN req /\ req[r].user \in Users
  BY Known DEF Open
<1>2. codes \in Seq(BackupCode) /\ NewCodes(req[r].user) \in Seq(BackupCode)
  BY <1>1, NewCodesType DEF TypeOK
<1>3. CASE EnrollCommit(r)
  <2>1. codes' = codes \o NewCodes(req[r].user) /\ req[r].pc = "enrolling"
    BY <1>3 DEF EnrollCommit, At
  <2>2. ~BackupCommit(r)
    BY <2>1 DEF BackupCommit, At
  <2>. QED
    BY <1>2, <2>1, <2>2
<1>4. CASE BackupCommit(r)
  <2>. DEFINE n == req[r].pick
              after == [codes[n] EXCEPT !.used = TRUE]
  <2>1. codes' = [codes EXCEPT ![n] = after]
    BY <1>4 DEF BackupCommit
  <2>2. \A c \in BackupCode : [c EXCEPT !.used = TRUE].used
    BY DEF BackupCode
  <2>3. n \in DOMAIN codes => after.used
    BY <1>2, <2>2
  <2>. HIDE DEF after
  <2>. QED
    BY <1>2, <2>1, <2>3
<1>5. CASE RegenerateCommit(r)
  <2>. DEFINE u == req[r].user
              Marked(k) == codes[k].user = u /\ k <= req[r].pick
              left == [k \in DOMAIN codes |->
                         [user |-> codes[k].user, used |-> codes[k].used \/ Marked(k)]]
  <2>1. codes' = left \o NewCodes(u) /\ req[r].pc = "marked"
    BY <1>5 DEF RegenerateCommit, At
  <2>2. ~BackupCommit(r)
    BY <2>1 DEF BackupCommit, At
  <2>3. DOMAIN left = DOMAIN codes /\ \A k \in DOMAIN codes : codes[k].used => left[k].used
    OBVIOUS
  <2>4. left \in Seq(BackupCode)
    <3>1. \A k \in DOMAIN codes : left[k] \in BackupCode
      <4>1. \A k \in DOMAIN codes : codes[k] \in BackupCode
        BY <1>2
      <4>2. \A k \in DOMAIN codes : codes[k].user \in Users
        BY <4>1 DEF BackupCode
      <4>3. \A k \in DOMAIN codes : (codes[k].used \/ Marked(k)) \in BOOLEAN
        OBVIOUS
      <4>. QED
        BY <4>2, <4>3 DEF BackupCode
    <3>2. Len(codes) \in Nat /\ DOMAIN codes = 1..Len(codes)
      BY <1>2
    <3>3. left \in [1..Len(codes) -> BackupCode]
      BY <3>1, <3>2
    <3>. HIDE DEF left
    <3>. QED
      BY <3>2, <3>3
  <2>. HIDE DEF left
  <2>5. DOMAIN left \subseteq DOMAIN codes' /\ \A k \in DOMAIN left : codes'[k] = left[k]
    BY <1>2, <2>1, <2>4
  <2>. QED
    BY <2>2, <2>3, <2>5
<1>6. CASE UNCHANGED codes /\ ~BackupCommit(r)
  BY <1>6
<1>7. EnrollCommit(r) \/ BackupCommit(r) \/ RegenerateCommit(r) \/ UNCHANGED codes
  BY DEF GoesOn, RegisterInvitation, RegisterUsername, RegisterCommit, LoginAnswer, TotpLock, TotpCommit,
         InviteCommit, RecoveryWrong, RecoveryRight, ResetStamp, ResetCommit, ResetAnswer, Fail,
         BackupMatch, EnrollStamp, RegenerateMark, tables
<1>. QED
  BY <1>3, <1>4, <1>5, <1>6, <1>7

\* What is made once: distinct names for distinct things.
FirstUse == <<"first user">>
InvitationUse(i) == <<"invitation", i>>
BackupUse(k) == <<"backup code", k>>
EnrolUse(u) == <<"enrolment", u>>
StepUse(u, s) == <<"step", u, s>>

\* Different things have different names.
LEMMA Names ==
  /\ \A i, k, u, v, s, z :
       /\ FirstUse # InvitationUse(i) /\ FirstUse # BackupUse(k) /\ FirstUse # EnrolUse(u)
       /\ FirstUse # StepUse(u, s) /\ InvitationUse(i) # BackupUse(k)
       /\ InvitationUse(i) # EnrolUse(u) /\ InvitationUse(i) # StepUse(u, s)
       /\ BackupUse(k) # EnrolUse(u) /\ BackupUse(k) # StepUse(u, s) /\ EnrolUse(v) # StepUse(u, s)
       /\ BackupUse(i) = BackupUse(k) => i = k
       /\ EnrolUse(u) = EnrolUse(v) => u = v
       /\ StepUse(u, s) = StepUse(v, z) => u = v /\ s = z
BY DEF FirstUse, InvitationUse, BackupUse, EnrolUse, StepUse

\* A request that is done has used what it commits to; the others use nothing.
Uses(r, w) ==
  \/ RegisterCommit(r) /\ req[r].pick = 0 /\ w = FirstUse
  \/ RegisterCommit(r) /\ req[r].pick # 0 /\ w = InvitationUse(req[r].pick)
  \/ EnrollCommit(r) /\ w = EnrolUse(req[r].user)
  \/ TotpCommit(r) /\ w = StepUse(req[r].user, StepOf(now))
  \/ BackupCommit(r) /\ w = BackupUse(req[r].pick)

\* Overlaps are only added by arrivals; a use is recorded by the request that commits.
LEMMA HistoryChanges ==
  ASSUME AuthInv, NEW r \in Open, GoesOn(r)
  PROVE  /\ history'.together = history.together /\ history'.resets = history.resets
         /\ \/ history'.used = history.used
            \/ \E w : /\ Uses(r, w) /\ req'[r].pc = "done"
                      /\ history'.used = history.used \cup {[what |-> w, by |-> r]}
<1>1. TypeOK /\ r \in DOMAIN req /\ req[r] \in Request
  BY Known DEF Open
<1>2. CASE UNCHANGED history
  BY <1>2
<1>3. CASE RegisterCommit(r) \/ EnrollCommit(r) \/ TotpCommit(r) \/ BackupCommit(r)
  <2>1. Done(r)
    BY <1>3 DEF RegisterCommit, EnrollCommit, TotpCommit, BackupCommit
  <2>2. req'[r].pc = "done"
    BY <1>1, <2>1 DEF TypeOK, Done, Over, RequestIs
  <2>3. \E w : Uses(r, w) /\ Served(r, w)
    BY <1>3 DEF RegisterCommit, EnrollCommit, TotpCommit, BackupCommit, Uses,
                FirstUse, InvitationUse, EnrolUse, StepUse, BackupUse
  <2>4. PICK w : Uses(r, w) /\ Served(r, w)
    BY <2>3
  <2>5. history \in [together : SUBSET SUBSET Nat, used : SUBSET Use, resets : SUBSET DOMAIN req]
    BY <1>1 DEF TypeOK
  <2>. DEFINE more == history.used \cup {[what |-> w, by |-> r]}
  <2>6. history' = [history EXCEPT !.used = more]
    BY <2>4 DEF Served
  <2>. HIDE DEF more
  <2>7. history'.together = history.together /\ history'.resets = history.resets /\ history'.used = more
    BY <2>5, <2>6
  <2>. QED
    BY <2>2, <2>4, <2>7 DEF more
<1>4. \/ RegisterCommit(r) \/ EnrollCommit(r) \/ TotpCommit(r) \/ BackupCommit(r) \/ UNCHANGED history
  BY DEF GoesOn, RegisterInvitation, RegisterUsername, LoginAnswer, TotpLock, RegenerateCommit,
         InviteCommit, RecoveryWrong, RecoveryRight, ResetStamp, ResetCommit, ResetAnswer, Fail,
         BackupMatch, EnrollStamp, RegenerateMark
<1>. QED
  BY <1>2, <1>3, <1>4

\* The clock does not go back.
LEMMA ClockChanges ==
  ASSUME TypeOK, Next
  PROVE  now \in Nat /\ now' \in Nat /\ now <= now'
<1>1. now' = now \/ Reads
  BY DEF Next, LoginLoad, RecoveryLoad, RegisterCount, Authenticate, ResetLoad,
         RegisterInvitation, RegisterUsername, RegisterCommit, LoginAnswer, EnrollCommit, TotpLock,
         TotpCommit, BackupCommit, RegenerateCommit, InviteCommit, RecoveryWrong, RecoveryRight,
         ResetStamp, ResetCommit, ResetAnswer, Fail, BackupMatch, EnrollStamp, RegenerateMark,
         Tick, InvitationExpires
<1>2. now \in Nat
  BY DEF TypeOK, Time
<1>. QED
  BY <1>1, <1>2 DEF Reads

-----------------------------------------------------------------------------
\* Requests that are open at the same time overlap.
OverlapInv == \A q, r \in Open : q # r => {q, r} \in history.together

\* Whoever arrives overlaps all that are open.
LEMMA OverlapStep == AuthInv /\ OverlapInv /\ [Next]_vars => OverlapInv'
<1>. SUFFICES ASSUME AuthInv, OverlapInv, [Next]_vars PROVE OverlapInv'
  OBVIOUS
<1>1. ASSUME Arrives PROVE OverlapInv'
  <2>1. PICK q : Enters(q)
    BY <1>1, ArrivalFacts
  <2>. DEFINE n == Len(req) + 1
  <2>2. /\ DOMAIN req' = DOMAIN req \cup {n} /\ \A r \in DOMAIN req : req'[r] = req[r]
        /\ history'.together = history.together \cup {{r, n} : r \in Open}
    BY <2>1 DEF Enters
  <2>. HIDE DEF n
  <2>3. Open' \subseteq Open \cup {n}
    BY <2>2 DEF Open
  <2>4. \A r \in Open : {r, n} \in history'.together /\ {n, r} \in history'.together
    <3>1. \A r \in Open : {r, n} = {n, r}
      OBVIOUS
    <3>. QED
      BY <2>2, <3>1
  <2>. QED
    BY <2>2, <2>3, <2>4 DEF OverlapInv
<1>2. ASSUME NEW r \in Open, GoesOn(r) PROVE OverlapInv'
  <2>1. Open' \subseteq Open
    BY <1>2, ProgressFacts DEF Open
  <2>. QED
    BY <1>2, <2>1, HistoryChanges DEF OverlapInv
<1>3. ASSUME Passes \/ UNCHANGED vars PROVE OverlapInv'
  BY <1>3 DEF Passes, Tick, InvitationExpires, vars, OverlapInv, Open
<1>. QED
  BY <1>1, <1>2, <1>3, NextKinds

-----------------------------------------------------------------------------
(***************************************************************************)
(* Things that serve once.  A thing is spent when the tables say so; a     *)
(* request wants it as long as it has not noticed that.  A request that    *)
(* arrives wants nothing that is spent, so who still wants a thing that    *)
(* was used overlaps its use.  Only the commit of an enrolment makes a     *)
(* time step good again, if it read the clock before that step was used.   *)
(***************************************************************************)
Spent(w) ==
  \/ \E i : w = InvitationUse(i)
  \/ w = FirstUse /\ DOMAIN users # {}
  \/ \E k \in DOMAIN codes : w = BackupUse(k) /\ codes[k].used
  \/ \E u \in DOMAIN users : w = EnrolUse(u) /\ users[u].enrolled
  \/ \E u \in DOMAIN users, s \in Nat :
       /\ w = StepUse(u, s)
       /\ users[u].lastUsed # 0 /\ s <= StepOf(users[u].lastUsed)

\* The second factor of the user is being enrolled by q.
Enrols(q) == q.pc = "enrolling" \/ (q.pc = "enroll" /\ ~q.row.enrolled)

Wants(q, w) ==
  \/ q.pc \in Registering /\ q.pick = 0 /\ w = FirstUse
  \/ q.pc = "consume" /\ w = BackupUse(q.pick)
  \/ Enrols(q) /\ w = EnrolUse(q.user)
  \/ /\ q.pc \in {"totp", "locked"}
     /\ \E s \in Nat : /\ w = StepUse(q.user, s)
                       /\ q.row.lastUsed = 0 \/ StepOf(q.row.lastUsed) < s

\* The commit of an enrolment may set the last use back, to its stamp.
Unsettles(q, w) == Enrols(q) /\ \E s \in Nat : w = StepUse(q.user, s)

\* A last use of a second factor is in the past, and known codes are matched.
PastInv ==
  /\ now >= 1
  /\ \A u \in DOMAIN users : users[u].lastUsed <= now
  /\ \A r \in DOMAIN req :
       /\ req[r].row.lastUsed <= now /\ req[r].stamp <= now
       /\ req[r].pc = "consume" => req[r].pick \in DOMAIN codes
       /\ req[r].pc = "locked" => req[r].row.enrolled
       /\ req[r].row.enrolled => req[r].user \in DOMAIN users /\ users[req[r].user].enrolled

\* Who still wants what x used overlaps it, and so does who may yet set it back; once it
\* was set back, its request overlapped the enrolment that did so.
UseFacts(x) ==
  /\ x.by \in DOMAIN req /\ req[x.by].pc = "done"
  /\ Spent(x.what) \/ Reenrolled(x.what, x.by)
  /\ \A u, s : x.what = StepUse(u, s) => u \in DOMAIN users /\ users[u].enrolled
  /\ \A r \in DOMAIN req :
       /\ Wants(req[r], x.what) => {x.by, r} \in history.together \/ Reenrolled(x.what, x.by)
       /\ Unsettles(req[r], x.what) => {x.by, r} \in history.together

UseInv == PastInv /\ (\A x \in history.used : UseFacts(x)) /\ UsedOnceUnlessOverlap

\* Division by a divisor that is not 0.
LEMMA DivFloor ==
  ASSUME NEW n \in Nat, NEW d \in Nat \ {0}
  PROVE  n \div d \in Nat /\ (n \div d) * d <= n /\ n < (n \div d) * d + d
OBVIOUS

\* Later times are not in earlier steps.
LEMMA StepOfMonotone ==
  ASSUME NEW a \in Nat, NEW b \in Nat, a <= b
  PROVE  StepOf(a) \in Nat /\ StepOf(b) \in Nat /\ StepOf(a) <= StepOf(b)
<1>. DEFINE d == TicksPerSecond * SecondsPerStep
            x == a \div d
            y == b \div d
<1>1. d \in Nat \ {0}
  <2>1. \A m, n \in Nat \ {0} : m * n \in Nat \ {0}
    OBVIOUS
  <2>. QED
    BY <2>1, AuthAssumption
<1>. HIDE DEF d
<1>2. x \in Nat /\ y \in Nat /\ x * d <= a /\ b < y * d + d
  BY <1>1, DivFloor
<1>3. x = StepOf(a) /\ y = StepOf(b)
  BY DEF StepOf, d
<1>. HIDE DEF x, y
<1>4. x * d < (y + 1) * d
  BY <1>1, <1>2
<1>5. x < y + 1
  BY <1>1, <1>2, <1>4
<1>. QED
  BY <1>2, <1>3, <1>5

\* What the tables and the requests hold.
LEMMA RowTypes ==
  ASSUME TypeOK
  PROVE  /\ now \in Nat
         /\ \A u \in DOMAIN users : users[u] \in User /\ users[u].lastUsed \in Nat
         /\ \A r \in DOMAIN req :
              /\ req[r] \in Request /\ req[r].row \in User /\ req[r].row.lastUsed \in Nat
              /\ req[r].pick \in Nat /\ req[r].stamp \in Nat
<1>1. Time \subseteq Nat
  BY DEF Time
<1>2. \A w \in User : w.lastUsed \in Nat
  BY <1>1 DEF User
<1>3. \A q \in Request : q.row \in User /\ q.pick \in Nat /\ q.stamp \in Nat
  BY <1>1 DEF Request
<1>. QED
  BY <1>1, <1>2, <1>3 DEF TypeOK

\* A last use stays in the past.
LEMMA PastStep == AuthInv /\ PastInv /\ [Next]_vars => PastInv'
<1>. SUFFICES ASSUME AuthInv, PastInv, [Next]_vars PROVE PastInv'
  OBVIOUS
<1>1. TypeOK /\ TypeOK'
  BY NextAuthInv DEF AuthInv
<1>2. /\ now \in Nat /\ \A u \in DOMAIN users : users[u].lastUsed \in Nat
      /\ \A r \in DOMAIN req : req[r].row.lastUsed \in Nat /\ req[r].stamp \in Nat
  BY <1>1, RowTypes
<1>3. NewUser.lastUsed = 0 /\ ~NewUser.enrolled
  BY DEF NewUser
<1>4. ASSUME Arrives PROVE PastInv'
  <2>1. PICK q : Enters(q) /\ Fits(q) /\ UNCHANGED <<users, invitations, codes, tokens, now>>
    BY <1>4, ArrivalFacts
  <2>. DEFINE n == Len(req) + 1
  <2>2. /\ DOMAIN req' = DOMAIN req \cup {n} /\ req'[n] = q
        /\ \A r \in DOMAIN req : req'[r] = req[r]
    BY <2>1 DEF Enters
  <2>. HIDE DEF n
  <2>3. q.row.lastUsed <= now /\ q.pc \notin {"consume", "locked"}
    BY <1>2, <1>3, <2>1 DEF Fits, Protected, PastInv
  <2>4. q.stamp = 0
    BY <2>1 DEF Enters
  <2>5. q.row.enrolled => q.user \in DOMAIN users /\ users[q.user].enrolled
    BY <1>3, <2>1 DEF Fits
  <2>. QED
    BY <1>2, <2>1, <2>2, <2>3, <2>4, <2>5 DEF PastInv
<1>5. ASSUME NEW r \in Open, GoesOn(r) PROVE PastInv'
  <2>1. now' \in Nat /\ now <= now'
    BY <1>1, <1>5, ClockChanges DEF GoesOn, Next
  <2>2. /\ DOMAIN req' = DOMAIN req /\ (\A q \in DOMAIN req \ {r} : req'[q] = req[q])
        /\ Becomes(r, req'[r]) /\ r \in DOMAIN req /\ req'[r].user = req[r].user
    BY <1>5, ProgressFacts
  <2>3. DOMAIN codes \subseteq DOMAIN codes'
    BY <1>5, CodeChanges
  <2>4. \A u \in DOMAIN users' : users'[u].lastUsed <= now'
    <3>1. \A u \in DOMAIN users : users'[u].lastUsed \in {users[u].lastUsed, now, req[r].stamp}
      BY <1>5, UserChanges DEF RowAfter
    <3>2. \A u \in DOMAIN users' \ DOMAIN users : users'[u].lastUsed = 0
      BY <1>3, <1>5, UserChanges
    <3>. QED
      BY <1>2, <2>1, <2>2, <3>1, <3>2 DEF PastInv
  <2>5. req'[r].row.lastUsed <= now' /\ req'[r].stamp <= now'
    <3>1. req'[r].row = NewUser \/ req'[r].row = req[r].row
      BY <2>2 DEF Becomes
    <3>2. req'[r].stamp \in {0, req[r].stamp, now}
      BY <2>2 DEF Becomes
    <3>. QED
      BY <1>2, <1>3, <2>1, <2>2, <3>1, <3>2 DEF PastInv
  <2>6. /\ req'[r].pc = "consume" => req'[r].pick \in DOMAIN codes'
        /\ req'[r].pc = "locked" => req'[r].row.enrolled
    BY <2>2, <2>3 DEF Becomes
  <2>7. \A q \in DOMAIN req \ {r} : /\ req'[q].row.lastUsed <= now' /\ req'[q].stamp <= now'
                                    /\ req'[q].pc = "consume" => req'[q].pick \in DOMAIN codes'
                                    /\ req'[q].pc = "locked" => req'[q].row.enrolled
    BY <1>2, <2>1, <2>2, <2>3 DEF PastInv
  <2>8. now' >= 1
    BY <1>2, <2>1 DEF PastInv
  <2>9. \A q \in DOMAIN req : req'[q].row.enrolled =>
          req'[q].user \in DOMAIN users' /\ users'[req'[q].user].enrolled
    <3>1. \A u \in DOMAIN users : u \in DOMAIN users' /\ (users[u].enrolled => users'[u].enrolled)
      BY <1>5, UserChanges DEF RowAfter
    <3>2. \A q \in DOMAIN req : /\ req'[q].row = NewUser \/ req'[q].row = req[q].row
                                /\ req'[q].user = req[q].user
      BY <2>2 DEF Becomes
    <3>. QED
      BY <1>3, <3>1, <3>2 DEF PastInv
  <2>. QED
    BY <2>2, <2>4, <2>5, <2>6, <2>7, <2>8, <2>9 DEF PastInv
<1>6. ASSUME Passes \/ UNCHANGED vars PROVE PastInv'
  <2>1. UNCHANGED <<users, codes, req>> /\ (now' = now \/ now' = now + 1)
    BY <1>6 DEF Passes, Tick, InvitationExpires, Reads, tables, vars
  <2>. QED
    BY <1>2, <2>1 DEF PastInv
<1>. QED
  BY <1>4, <1>5, <1>6, NextKinds

\* What is spent stays spent, but for the time steps that an enrolment sets back.
SetsBack(r, w) == EnrollCommit(r) /\ \E s \in Nat : w = StepUse(req[r].user, s)

LEMMA SpentStays ==
  ASSUME AuthInv, PastInv, [Next]_vars, NEW w, Spent(w)
  PROVE  Spent(w)' \/ \E r \in Open : GoesOn(r) /\ SetsBack(r, w)
<1>1. TypeOK
  BY DEF AuthInv
<1>2. now \in Nat /\ \A u \in DOMAIN users : users[u].lastUsed \in Nat
  BY <1>1, RowTypes
<1>3. CASE UNCHANGED <<users, codes>>
  BY <1>3 DEF Spent
<1>4. ASSUME NEW r \in Open, GoesOn(r), ~SetsBack(r, w) PROVE Spent(w)'
  <2>1. /\ DOMAIN users \subseteq DOMAIN users' /\ \A u \in DOMAIN users : RowAfter(r, u)
        /\ DOMAIN codes \subseteq DOMAIN codes' /\ \A k \in DOMAIN codes : codes[k].used => codes'[k].used
    BY <1>4, UserChanges, CodeChanges
  <2>2. ASSUME NEW u \in DOMAIN users, NEW s \in Nat, w = StepUse(u, s),
               users[u].lastUsed # 0, s <= StepOf(users[u].lastUsed)
        PROVE  Spent(w)'
    <3>1. users'[u].lastUsed = users[u].lastUsed \/ users'[u].lastUsed = now
      BY <1>4, <2>1, <2>2 DEF RowAfter, SetsBack
    <3>2. StepOf(users[u].lastUsed) \in Nat /\ StepOf(now) \in Nat /\ StepOf(users[u].lastUsed) <= StepOf(now)
      BY <1>2, StepOfMonotone DEF PastInv
    <3>3. users'[u].lastUsed # 0
      BY <1>2, <2>2, <3>1 DEF PastInv
    <3>4. s <= StepOf(users'[u].lastUsed)
      BY <2>2, <3>1, <3>2
    <3>. QED
      BY <2>1, <2>2, <3>3, <3>4 DEF Spent, StepOf
  <2>3. ASSUME NEW u \in DOMAIN users, w = EnrolUse(u), users[u].enrolled PROVE Spent(w)'
    BY <2>1, <2>3 DEF Spent, RowAfter, EnrolUse
  <2>4. ASSUME NEW k \in DOMAIN codes, w = BackupUse(k), codes[k].used PROVE Spent(w)'
    BY <2>1, <2>4 DEF Spent, BackupUse
  <2>5. ASSUME w = FirstUse, DOMAIN users # {} PROVE Spent(w)'
    BY <2>1, <2>5 DEF Spent, FirstUse
  <2>6. ASSUME NEW i, w = InvitationUse(i) PROVE Spent(w)'
    BY <2>6 DEF Spent, InvitationUse
  <2>. QED
    BY <2>2, <2>3, <2>4, <2>5, <2>6 DEF Spent
<1>5. ASSUME Arrives \/ Passes \/ UNCHANGED vars PROVE UNCHANGED <<users, codes>>
  BY <1>5, ArrivalFacts DEF Passes, Tick, InvitationExpires, tables, vars
<1>. QED
  BY <1>3, <1>4, <1>5, NextKinds

\* A request that arrives wants nothing that is spent.
LEMMA ArrivalWants ==
  ASSUME TypeOK, NEW q, Fits(q), NEW w, Spent(w)
  PROVE  ~Wants(q, w)
<1>. SUFFICES ASSUME Wants(q, w) PROVE FALSE
  OBVIOUS
<1>1. q.pc \in {"username", "invitation", "login", "recovery", "reset"} \cup Protected
  BY DEF Fits
<1>2. CASE w = FirstUse
  <2>1. q.pc \in Registering /\ q.pick = 0
    BY <1>2, Names DEF Wants
  <2>2. DOMAIN users = {}
    BY <2>1 DEF Fits, Registering, Protected
  <2>. QED
    BY <1>2, <2>2, Names DEF Spent
<1>3. CASE Enrols(q) /\ w = EnrolUse(q.user)
  <2>1. q.pc = "enroll" /\ ~q.row.enrolled
    BY <1>1, <1>3 DEF Enrols, Protected
  <2>2. q.user \in DOMAIN users /\ q.row = users[q.user]
    BY <2>1 DEF Fits
  <2>3. users[q.user].enrolled
    BY <1>3, Names DEF Spent
  <2>. QED
    BY <2>1, <2>2, <2>3
<1>4. CASE q.pc \in {"totp", "locked"}
  <2>1. q.user \in DOMAIN users /\ q.row = users[q.user]
    BY <1>4 DEF Fits
  <2>2. PICK s \in Nat : /\ w = StepUse(q.user, s)
                         /\ q.row.lastUsed = 0 \/ StepOf(q.row.lastUsed) < s
    BY <1>4, Names DEF Wants, Registering, Enrols
  <2>3. q.row.lastUsed # 0 /\ s <= StepOf(q.row.lastUsed)
    BY <2>1, <2>2, Names DEF Spent
  <2>4. q.row.lastUsed \in Nat
    BY <2>1, RowTypes
  <2>5. StepOf(q.row.lastUsed) \in Nat
    BY <2>4, StepOfMonotone
  <2>. QED
    BY <2>2, <2>3, <2>5
<1>. QED
  BY <1>1, <1>2, <1>3, <1>4 DEF Wants, Protected

\* Nor does it enrol a user who is enrolled.
LEMMA ArrivalUnsettles ==
  ASSUME NEW q, Fits(q), NEW w,
         \A u, s : w = StepUse(u, s) => u \in DOMAIN users /\ users[u].enrolled
  PROVE  ~Unsettles(q, w)
<1>. SUFFICES ASSUME Unsettles(q, w) PROVE FALSE
  OBVIOUS
<1>1. q.pc = "enroll" /\ ~q.row.enrolled /\ users[q.user].enrolled
  BY DEF Fits, Unsettles, Enrols, Protected
<1>. QED
  BY <1>1 DEF Fits

\* A request that goes on wants of the spent things only what it wanted before.
LEMMA ProgressWants ==
  ASSUME NEW r, NEW q, q.user = req[r].user, Becomes(r, q), NEW w, Spent(w), Wants(q, w)
  PROVE  Wants(req[r], w)
<1>1. q.pc \notin {"done", "changed", "stamped", "marked"}
  BY DEF Wants, Enrols, Registering
<1>2. CASE q.pc \in {"username", "insert"}
  BY <1>2 DEF Becomes, Wants, Enrols, Registering
<1>3. CASE q.pc = "locked"
  BY <1>3 DEF Becomes, Wants, Enrols, Registering
<1>4. CASE q.pc = "consume"
  <2>1. w = BackupUse(q.pick)
    BY <1>4 DEF Wants, Enrols, Registering
  <2>2. q.pick \in DOMAIN codes /\ ~codes[q.pick].used
    BY <1>4 DEF Becomes
  <2>. QED
    BY <2>1, <2>2, Names DEF Spent
<1>5. CASE q.pc = "enrolling"
  BY <1>5 DEF Becomes, Wants, Enrols, Registering
<1>. QED
  BY <1>1, <1>2, <1>3, <1>4, <1>5 DEF Becomes

LEMMA ProgressUnsettles ==
  ASSUME NEW r, NEW q, q.user = req[r].user, Becomes(r, q), NEW w, Unsettles(q, w)
  PROVE  Unsettles(req[r], w)
BY DEF Becomes, Unsettles, Enrols, Registering

\* A request commits to what it wanted, or to the invitation it holds, and spends it.
LEMMA UsesWanted ==
  ASSUME AuthInv, PastInv, NEW r \in Open, GoesOn(r), NEW w, Uses(r, w)
  PROVE  /\ Wants(req[r], w) \/ \E i : w = InvitationUse(i)
         /\ Spent(w)'
         /\ \A u, s : w = StepUse(u, s) => u \in DOMAIN users' /\ users'[u].enrolled
<1>1. TypeOK /\ r \in DOMAIN req
  BY DEF AuthInv, Open
<1>2. CASE RegisterCommit(r)
  <2>1. req[r].pc = "insert"
    BY <1>2 DEF RegisterCommit, At
  <2>2. ~EnrollCommit(r) /\ ~TotpCommit(r) /\ ~BackupCommit(r)
    BY <2>1 DEF EnrollCommit, TotpCommit, BackupCommit, At
  <2>3. DOMAIN users' # {}
    BY <1>2, UserChanges
  <2>4. CASE req[r].pick = 0
    <3>1. w = FirstUse
      BY <2>2, <2>4 DEF Uses
    <3>. QED
      BY <2>1, <2>3, <2>4, <3>1, Names DEF Wants, Registering, Spent, FirstUse
  <2>5. CASE req[r].pick # 0
    <3>1. \E i : w = InvitationUse(i)
      BY <2>2, <2>5 DEF Uses
    <3>2. Spent(w)'
      BY <3>1 DEF Spent, InvitationUse
    <3>. QED
      BY <3>1, <3>2, Names
  <2>. QED
    BY <2>4, <2>5
<1>3. CASE EnrollCommit(r)
  <2>1. req[r].pc = "enrolling"
    BY <1>3 DEF EnrollCommit, At
  <2>2. w = EnrolUse(req[r].user)
    BY <2>1 DEF Uses, RegisterCommit, TotpCommit, BackupCommit, At
  <2>3. req[r].user \in DOMAIN users' /\ users'[req[r].user].enrolled
    BY <1>3, UserChanges
  <2>4. Wants(req[r], w) /\ Spent(w)'
    BY <2>1, <2>2, <2>3 DEF Wants, Enrols, Spent, EnrolUse
  <2>. QED
    BY <2>2, <2>4, Names
<1>4. CASE TotpCommit(r)
  <2>. DEFINE last == req[r].row.lastUsed
  <2>1. req[r].pc = "locked" /\ (last = 0 \/ StepOf(last) # StepOf(now))
    BY <1>4 DEF TotpCommit, At
  <2>2. w = StepUse(req[r].user, StepOf(now))
    BY <2>1 DEF Uses, RegisterCommit, EnrollCommit, BackupCommit, At
  <2>3. last \in Nat /\ now \in Nat /\ last <= now /\ now # 0
    BY <1>1, RowTypes DEF PastInv
  <2>. HIDE DEF last
  <2>4. StepOf(last) \in Nat /\ StepOf(now) \in Nat /\ StepOf(last) <= StepOf(now)
    BY <2>3, StepOfMonotone
  <2>5. last = 0 \/ StepOf(last) < StepOf(now)
    BY <2>1, <2>4
  <2>6. Wants(req[r], w)
    BY <2>1, <2>2, <2>4, <2>5 DEF Wants, last
  <2>7. req[r].user \in DOMAIN users' /\ users'[req[r].user].lastUsed = now
    BY <1>4, UserChanges
  <2>8. \E u \in DOMAIN users', s \in Nat :
          w = StepUse(u, s) /\ users'[u].lastUsed # 0 /\ s <= StepOf(users'[u].lastUsed)
    BY <2>2, <2>3, <2>4, <2>7
  <2>9. Spent(w)'
    BY <2>8 DEF Spent, StepUse, StepOf
  <2>10. users[req[r].user].enrolled /\ req[r].user \in DOMAIN users
    BY <1>1, <2>1 DEF PastInv
  <2>11. users'[req[r].user].enrolled
    BY <2>10, UserChanges DEF RowAfter
  <2>12. \A u, s : w = StepUse(u, s) => u = req[r].user
    BY <2>2 DEF StepUse
  <2>. QED
    BY <2>6, <2>7, <2>9, <2>11, <2>12
<1>5. CASE BackupCommit(r)
  <2>1. req[r].pc = "consume"
    BY <1>5 DEF BackupCommit, At
  <2>2. w = BackupUse(req[r].pick)
    BY <2>1 DEF Uses, RegisterCommit, EnrollCommit, TotpCommit, At
  <2>3. req[r].pick \in DOMAIN codes
    BY <1>1, <2>1 DEF PastInv
  <2>4. req[r].pick \in DOMAIN codes' /\ codes'[req[r].pick].used
    BY <1>5, <2>3, CodeChanges
  <2>5. Wants(req[r], w) /\ Spent(w)'
    BY <2>1, <2>2, <2>4 DEF Wants, Spent, BackupUse
  <2>. QED
    BY <2>2, <2>5, Names
<1>. QED
  BY <1>2, <1>3, <1>4, <1>5 DEF Uses

\* What was re-enrolled stays so.
LEMMA ReenrolledStays ==
  ASSUME history.used \subseteq history'.used, history.together \subseteq history'.together,
         NEW w, NEW r, Reenrolled(w, r)
  PROVE  Reenrolled(w, r)'
BY DEF Reenrolled

\* An enrolment that sets back a time step has overlapped who used it, and is on record.
LEMMA SetBack ==
  ASSUME AuthInv, NEW r \in Open, GoesOn(r), NEW x \in history.used, UseFacts(x), SetsBack(r, x.what)
  PROVE  Reenrolled(x.what, x.by)'
<1>. DEFINE w == x.what
            enrolment == [what |-> EnrolUse(req[r].user), by |-> r]
<1>1. /\ req[r].pc = "enrolling" /\ r \in DOMAIN req
      /\ \E s \in Nat : w = StepUse(req[r].user, s)
  BY DEF SetsBack, EnrollCommit, At
<1>2. {x.by, r} \in history.together
  BY <1>1 DEF UseFacts, Unsettles, Enrols
<1>3. /\ EnrollCommit(r) /\ Served(r, EnrolUse(req[r].user)) /\ TypeOK
  BY DEF SetsBack, EnrollCommit, EnrolUse, AuthInv
<1>4. history'.used = history.used \cup {enrolment} /\ history'.together = history.together
  <2>1. history \in [together : SUBSET SUBSET Nat, used : SUBSET Use, resets : SUBSET DOMAIN req]
    BY <1>3 DEF TypeOK
  <2>. DEFINE more == history.used \cup {enrolment}
  <2>2. history' = [history EXCEPT !.used = more]
    BY <1>3 DEF Served
  <2>. HIDE DEF more
  <2>3. history'.used = more /\ history'.together = history.together
    BY <2>1, <2>2
  <2>. QED
    BY <2>3 DEF more
<1>5. w[1] = "step" /\ w[2] = req[r].user
  BY <1>1 DEF StepUse
<1>6. enrolment.what = <<"enrolment", w[2]>> /\ enrolment.by = r
  BY <1>5 DEF EnrolUse
<1>. HIDE DEF enrolment
<1>7. {enrolment.by, x.by} \in history'.together
  <2>1. {enrolment.by, x.by} = {x.by, r}
    BY <1>6
  <2>. QED
    BY <1>2, <1>4, <2>1
<1>8. enrolment \in history'.used
  BY <1>4
<1>. QED
  BY <1>5, <1>6, <1>7, <1>8 DEF Reenrolled

\* The uses so far, when a request arrives or goes on.
LEMMA ArrivalUses ==
  ASSUME AuthInv, PastInv, Arrives, NEW x \in history.used, UseFacts(x)
  PROVE  UseFacts(x)'
<1>1. PICK q : Enters(q) /\ Fits(q) /\ UNCHANGED <<users, invitations, codes, tokens, now>>
  BY ArrivalFacts
<1>. DEFINE n == Len(req) + 1
<1>2. /\ DOMAIN req' = DOMAIN req \cup {n} /\ req'[n] = q
      /\ \A r \in DOMAIN req : req'[r] = req[r]
      /\ history'.used = history.used /\ history.together \subseteq history'.together
  BY <1>1 DEF Enters
<1>. HIDE DEF n
<1>3. (Spent(x.what)' <=> Spent(x.what)) /\ (Reenrolled(x.what, x.by) => Reenrolled(x.what, x.by)')
  <2>1. Spent(x.what)' <=> Spent(x.what)
    BY <1>1 DEF Spent
  <2>. QED
    BY <1>2, <2>1, ReenrolledStays
<1>4. Wants(q, x.what) => Reenrolled(x.what, x.by)
  BY <1>1, ArrivalWants DEF UseFacts, AuthInv
<1>5. ~Unsettles(q, x.what)
  BY <1>1, ArrivalUnsettles DEF UseFacts
<1>6. \A r \in DOMAIN req' :
        /\ Wants(req'[r], x.what) => {x.by, r} \in history'.together \/ Reenrolled(x.what, x.by)'
        /\ Unsettles(req'[r], x.what) => {x.by, r} \in history'.together
  BY <1>2, <1>3, <1>4, <1>5 DEF UseFacts
<1>7. /\ x.by \in DOMAIN req' /\ req'[x.by].pc = "done"
      /\ Spent(x.what)' \/ Reenrolled(x.what, x.by)'
      /\ \A u, s : x.what = StepUse(u, s) => u \in DOMAIN users' /\ users'[u].enrolled
  BY <1>1, <1>2, <1>3 DEF UseFacts
<1>. QED
  BY <1>6, <1>7 DEF UseFacts, Wants, Unsettles, Enrols, StepOf, FirstUse, BackupUse, EnrolUse, StepUse

LEMMA ProgressUses ==
  ASSUME AuthInv, PastInv, NEW r \in Open, GoesOn(r), NEW x \in history.used, UseFacts(x)
  PROVE  UseFacts(x)'
<1>1. /\ r \in DOMAIN req /\ DOMAIN req' = DOMAIN req /\ req[r].pc # "done"
      /\ \A q \in DOMAIN req \ {r} : req'[q] = req[q]
      /\ req'[r].user = req[r].user /\ Becomes(r, req'[r])
      /\ history'.together = history.together /\ history.used \subseteq history'.used
  BY ProgressFacts, HistoryChanges DEF Open
<1>2. Reenrolled(x.what, x.by) => Reenrolled(x.what, x.by)'
  BY <1>1, ReenrolledStays
<1>3. Spent(x.what) => Spent(x.what)' \/ Reenrolled(x.what, x.by)'
  <2>1. ASSUME Spent(x.what), ~Spent(x.what)' PROVE Reenrolled(x.what, x.by)'
    <3>1. PICK p \in Open : GoesOn(p) /\ SetsBack(p, x.what)
      <4>1. Next
        BY DEF GoesOn, Next
      <4>. QED
        BY <2>1, <4>1, SpentStays
    <3>. QED
      BY <3>1, SetBack
  <2>. QED
    BY <2>1
<1>4. \A q \in DOMAIN req' :
        /\ Wants(req'[q], x.what) => Wants(req[q], x.what) \/ Reenrolled(x.what, x.by)
        /\ Unsettles(req'[q], x.what) => Unsettles(req[q], x.what)
  BY <1>1, ProgressWants, ProgressUnsettles DEF UseFacts
<1>5. \A q \in DOMAIN req' :
        /\ Wants(req'[q], x.what) => {x.by, q} \in history'.together \/ Reenrolled(x.what, x.by)'
        /\ Unsettles(req'[q], x.what) => {x.by, q} \in history'.together
  BY <1>1, <1>2, <1>4 DEF UseFacts
<1>6. \A u \in DOMAIN users : u \in DOMAIN users' /\ (users[u].enrolled => users'[u].enrolled)
  BY UserChanges DEF RowAfter
<1>7. /\ x.by \in DOMAIN req' /\ req'[x.by].pc = "done"
      /\ Spent(x.what)' \/ Reenrolled(x.what, x.by)'
      /\ \A u, s : x.what = StepUse(u, s) => u \in DOMAIN users' /\ users'[u].enrolled
  BY <1>1, <1>2, <1>3, <1>6 DEF UseFacts
<1>. QED
  BY <1>5, <1>7 DEF UseFacts, Wants, Unsettles, Enrols, StepOf, FirstUse, BackupUse, EnrolUse, StepUse

\* The use that a step makes: all that are open overlap it.
LEMMA NewUse ==
  ASSUME AuthInv, PastInv, OverlapInv, NEW r \in Open, GoesOn(r), NEW w, Uses(r, w),
         req'[r].pc = "done", NEW x, x.what = w, x.by = r
  PROVE  UseFacts(x)'
<1>1. /\ r \in DOMAIN req /\ DOMAIN req' = DOMAIN req
      /\ \A q \in DOMAIN req \ {r} : req'[q] = req[q]
      /\ history'.together = history.together
  BY ProgressFacts, HistoryChanges
<1>2. /\ Spent(w)'
      /\ \A u, s : w = StepUse(u, s) => u \in DOMAIN users' /\ users'[u].enrolled
  BY UsesWanted
<1>3. ASSUME NEW q \in DOMAIN req', Wants(req'[q], w) \/ Unsettles(req'[q], w)
      PROVE  {r, q} \in history'.together
  <2>1. req'[q].pc # "done"
    BY <1>3 DEF Wants, Unsettles, Enrols, Registering
  <2>2. q # r /\ q \in Open
    BY <1>1, <2>1 DEF Open
  <2>. QED
    BY <1>1, <2>2 DEF OverlapInv
<1>. QED
  BY <1>1, <1>2, <1>3
     DEF UseFacts, Wants, Unsettles, Enrols, StepOf, FirstUse, BackupUse, EnrolUse, StepUse

\* Two uses of one thing, the second by r.
LEMMA SecondUse ==
  ASSUME AuthInv, AuthInv', PastInv, NEW r \in Open, GoesOn(r), NEW w, Uses(r, w),
         NEW use \in history'.used, use.what = w, use.by = r,
         NEW y \in history.used, y \in history'.used, UseFacts(y), y.what = w, y.by # r
  PROVE  {y.by, r} \in history.together \/ Reenrolled(w, y.by)
<1>1. r \in DOMAIN req
  BY DEF Open
<1>2. Wants(req[r], w) \/ \E i : w = InvitationUse(i)
  BY UsesWanted
<1>3. ASSUME NEW i, w = InvitationUse(i) PROVE FALSE
  <2>1. use \in Invited(i)' /\ y \in Invited(i)'
    BY <1>3 DEF Invited, InvitationUse
  <2>2. use.by = y.by
    BY <2>1 DEF AuthInv, UsedInv, InvitationMakesOneUser
  <2>. QED
    BY <2>2
<1>. QED
  BY <1>1, <1>2, <1>3 DEF UseFacts

\* Each use serves a request that is done, and who still wants it overlaps that request.
LEMMA UseStep == AuthInv /\ OverlapInv /\ UseInv /\ [Next]_vars => UseInv'
<1>. SUFFICES ASSUME AuthInv, OverlapInv, UseInv, [Next]_vars PROVE UseInv'
  OBVIOUS
<1>1. PastInv /\ PastInv' /\ AuthInv' /\ UsedOnceUnlessOverlap /\ \A x \in history.used : UseFacts(x)
  BY NextAuthInv, PastStep DEF UseInv
<1>2. ASSUME history.together \subseteq history'.together, history.used \subseteq history'.used
      PROVE  \A x, y \in history.used :
               x.what = y.what /\ x.by # y.by =>
                 \/ {x.by, y.by} \in history'.together
                 \/ Reenrolled(x.what, x.by)' \/ Reenrolled(y.what, y.by)'
  BY <1>1, <1>2, ReenrolledStays DEF UsedOnceUnlessOverlap
<1>3. ASSUME history.together \subseteq history'.together, history'.used = history.used
      PROVE  UsedOnceUnlessOverlap'
  BY <1>2, <1>3 DEF UsedOnceUnlessOverlap
<1>4. ASSUME Arrives PROVE UseInv'
  <2>1. history.together \subseteq history'.together /\ history'.used = history.used
    BY <1>4, ArrivalFacts DEF Enters
  <2>2. \A x \in history.used : UseFacts(x)'
    BY <1>1, <1>4, ArrivalUses
  <2>. QED
    BY <1>1, <1>3, <2>1, <2>2 DEF UseInv
<1>5. ASSUME NEW r \in Open, GoesOn(r) PROVE UseInv'
  <2>1. history'.together = history.together /\ r \in DOMAIN req
    BY <1>5, HistoryChanges DEF Open
  <2>2. \A x \in history.used : UseFacts(x)'
    BY <1>1, <1>5, ProgressUses
  <2>3. CASE history'.used = history.used
    BY <1>1, <1>3, <2>1, <2>2, <2>3 DEF UseInv
  <2>4. ASSUME NEW w, Uses(r, w), req'[r].pc = "done",
               history'.used = history.used \cup {[what |-> w, by |-> r]}
        PROVE  UseInv'
    <3>. DEFINE use == [what |-> w, by |-> r]
    <3>1. use.what = w /\ use.by = r /\ history'.used = history.used \cup {use}
      BY <2>4
    <3>. HIDE DEF use
    <3>2. UseFacts(use)'
      BY <1>1, <1>5, <2>4, <3>1, NewUse
    <3>3. ASSUME NEW y \in history.used, y.what = w, y.by # r
          PROVE  \/ {y.by, r} \in history'.together /\ {r, y.by} \in history'.together
                 \/ Reenrolled(y.what, y.by)'
      <4>1. {y.by, r} \in history.together \/ Reenrolled(w, y.by)
        BY <1>1, <1>5, <2>4, <3>1, <3>3, SecondUse
      <4>2. {y.by, r} = {r, y.by}
        OBVIOUS
      <4>. QED
        BY <2>1, <3>1, <3>3, <4>1, <4>2, ReenrolledStays
    <3>4. ASSUME NEW x \in history'.used, NEW y \in history'.used, x.what = y.what, x.by # y.by
          PROVE  \/ {x.by, y.by} \in history'.together
                 \/ Reenrolled(x.what, x.by)' \/ Reenrolled(y.what, y.by)'
      <4>1. CASE x \in history.used /\ y \in history.used
        BY <1>2, <2>1, <3>1, <3>4, <4>1
      <4>2. CASE x = use
        <5>1. y # use /\ y \in history.used
          BY <3>1, <3>4, <4>2
        <5>. QED
          BY <3>1, <3>3, <3>4, <4>2, <5>1
      <4>3. CASE x \in history.used /\ y = use
        BY <3>1, <3>3, <3>4, <4>3
      <4>. QED
        BY <3>1, <4>1, <4>2, <4>3
    <3>5. UsedOnceUnlessOverlap'
      BY <3>4 DEF UsedOnceUnlessOverlap
    <3>6. \A x \in history'.used : UseFacts(x)'
      BY <2>2, <3>1, <3>2
    <3>. QED
      BY <1>1, <3>5, <3>6 DEF UseInv
  <2>. QED
    BY <1>5, <2>3, <2>4, HistoryChanges
<1>6. ASSUME Passes \/ UNCHANGED vars PROVE UseInv'
  <2>1. UNCHANGED <<users, codes, req, history>>
    BY <1>6 DEF Passes, Tick, InvitationExpires, vars, tables
  <2>2. \A w : Spent(w)' <=> Spent(w)
    BY <2>1 DEF Spent, StepOf, FirstUse, InvitationUse, BackupUse, EnrolUse, StepUse
  <2>3. \A w, r : Reenrolled(w, r)' <=> Reenrolled(w, r)
    BY <2>1 DEF Reenrolled
  <2>4. \A x \in history.used : UseFacts(x)'
    BY <1>1, <2>1, <2>2, <2>3
       DEF UseFacts, Wants, Unsettles, Enrols, StepOf, FirstUse, BackupUse, EnrolUse, StepUse
  <2>. QED
    BY <1>1, <1>3, <2>1, <2>4 DEF UseInv
<1>. QED
  BY <1>4, <1>5, <1>6, NextKinds

\* Nothing is used at first, and no second factor either.
LEMMA InitUseInv == Init => OverlapInv /\ UseInv
<1>. SUFFICES ASSUME Init PROVE OverlapInv /\ UseInv
  OBVIOUS
<1>1. now = 1 /\ history.used = {} /\ ~NewUser.enrolled
  BY InitStates DEF NewUser
<1>2. PastInv
  BY <1>1, InitFacts, UserTypes DEF PastInv, NewUser
<1>. QED
  BY <1>1, <1>2, InitFacts DEF OverlapInv, Open, UseInv, UsedOnceUnlessOverlap

-----------------------------------------------------------------------------
\* The inductive invariant of the uses: what was used is spent in the tables, and a request
\* that has still to commit to it was open when it was used.
THEOREM UsesInvariant == Spec => [](AuthInv /\ OverlapInv /\ UseInv)
<1>1. Init => AuthInv /\ OverlapInv /\ UseInv
  BY InitAuthInv, InitUseInv
<1>2. AuthInv /\ OverlapInv /\ UseInv /\ [Next]_vars => (AuthInv /\ OverlapInv /\ UseInv)'
  BY NextAuthInv, OverlapStep, UseStep
<1>. QED
  BY <1>1, <1>2, PTL DEF Spec

\* An invitation, a backup code, the time step of a TOTP code, the enrolment of a user and
\* the registration without an invitation serve a second request only if the two were in
\* progress at the same time (no lock on backup codes, a stale row in totp_verify).
THEOREM OnceUnlessOverlap == Spec => []UsedOnceUnlessOverlap
<1>1. AuthInv /\ OverlapInv /\ UseInv => UsedOnceUnlessOverlap
  BY DEF UseInv
<1>. QED
  BY <1>1, UsesInvariant, PTL

-----------------------------------------------------------------------------
(***************************************************************************)
(* Sessions and the change of a password.  A request that still holds the  *)
(* old password when it has been changed overlapped the change, and the    *)
(* token it grants is marked as crossed.                                   *)
(***************************************************************************)
Granting == {"login", "totp", "locked", "backup", "consume", "recovery", "changed"}

\* When a token was made, in ticks of the database.
Second(t) == t.iat * TicksPerSecond
Old(r) == req[r].gen < users[req[r].user].gen
After(t, stamp) == t.scope # "password_reset" /\ stamp <= Second(t)

SessionInv ==
  /\ \A r \in DOMAIN req : req[r].pc \in {"reset", "stamped", "changed"} => r \in history.resets
  /\ \A t \in tokens : Second(t) < now
  /\ \A r \in DOMAIN req : req[r].pc \in Granting /\ Old(r) => Crossed(r)
  /\ \A r \in DOMAIN req, t \in tokens :
       req[r].pc = "stamped" /\ t.user = req[r].user /\ After(t, req[r].stamp) => t.crossed
  /\ OldSessionsEnd

\* The token a request grants: for its user and its password, in the present second.
Grants(r, t) ==
  /\ t.user = req[r].user /\ t.crossed = Crossed(r)
  /\ Second(t) <= now /\ now' = now + 1
  /\ req'[r].pc = "done" /\ ~ResetCommit(r)
  /\ \/ RegisterCommit(r)
     \/ req[r].pc \in Granting /\ t.gen = req[r].gen /\ ~RegisterCommit(r)

\* A step grants one token at most.
LEMMA TokenChanges ==
  ASSUME AuthInv, NEW r \in Open, GoesOn(r)
  PROVE  \/ tokens' = tokens
         \/ \E t \in Token : tokens' = tokens \cup {t} /\ Grants(r, t)
<1>1. /\ TypeOK /\ r \in DOMAIN req /\ req[r] \in Request /\ req[r].user \in Users /\ req[r].gen \in Nat
  BY Known DEF Open
<1>2. CASE UNCHANGED tokens
  BY <1>2
<1>3. CASE \/ RegisterCommit(r) \/ LoginAnswer(r) \/ TotpCommit(r) \/ BackupCommit(r)
           \/ RecoveryRight(r) \/ ResetAnswer(r)
  <2>1. Done(r) /\ Reads
    BY <1>3 DEF RegisterCommit, LoginAnswer, TotpCommit, BackupCommit, RecoveryRight, ResetAnswer
  <2>2. PICK scope \in Scopes, gen \in Nat :
          /\ Issue(r, scope, gen)
          /\ \/ RegisterCommit(r)
             \/ req[r].pc \in Granting /\ gen = req[r].gen /\ ~RegisterCommit(r)
    <3>1. CASE RegisterCommit(r)
      BY <3>1 DEF RegisterCommit, Scopes
    <3>2. CASE LoginAnswer(r) \/ TotpCommit(r) \/ BackupCommit(r) \/ RecoveryRight(r) \/ ResetAnswer(r)
      <4>1. req[r].pc \in Granting /\ ~RegisterCommit(r)
        BY <3>2 DEF LoginAnswer, TotpCommit, BackupCommit, RecoveryRight, ResetAnswer, RegisterCommit,
                    At, Granting
      <4>2. \E scope \in Scopes : Issue(r, scope, req[r].gen)
        BY <3>2 DEF LoginAnswer, TotpCommit, BackupCommit, RecoveryRight, ResetAnswer, Scopes
      <4>. QED
        BY <1>1, <4>1, <4>2
    <3>. QED
      BY <1>3, <3>1, <3>2
  <2>3. /\ req'[r].pc = "done" /\ ~ResetCommit(r)
    <3>1. req[r].pc # "stamped"
      BY <1>3 DEF RegisterCommit, LoginAnswer, TotpCommit, BackupCommit, RecoveryRight, ResetAnswer, At
    <3>2. req'[r].pc = "done"
      BY <1>1, <2>1 DEF TypeOK, Done, Over, RequestIs
    <3>. QED
      BY <3>1, <3>2 DEF ResetCommit, At
  <2>. DEFINE second == now \div TicksPerSecond
              t == [user |-> req[r].user, scope |-> scope, iat |-> second, gen |-> gen,
                    crossed |-> Crossed(r)]
  <2>4. now \in Nat /\ now <= MaxTime /\ MaxTime \in Nat /\ TicksPerSecond \in Nat \ {0}
    BY <1>1, AuthAssumption DEF TypeOK, Time
  <2>5. second \in Nat /\ second \in 0..now /\ second * TicksPerSecond <= now
    BY <2>4, DivFloor, DivType
  <2>6. tokens' = tokens \cup {t}
    BY <2>2 DEF Issue
  <2>. HIDE DEF second
  <2>7. second \in Time
    BY <2>4, <2>5 DEF Time
  <2>8. Crossed(r) \in BOOLEAN
    <3>1. req[r].crossed \in BOOLEAN
      BY <1>1 DEF Request
    <3>. QED
      BY <3>1 DEF Crossed
  <2>9. t \in Token /\ t.user = req[r].user /\ t.crossed = Crossed(r) /\ t.gen = gen /\ t.iat = second
    BY <1>1, <2>7, <2>8 DEF Token
  <2>. HIDE DEF t
  <2>10. Grants(r, t)
    BY <2>1, <2>2, <2>3, <2>5, <2>9 DEF Grants, Reads, Second
  <2>. QED
    BY <2>6, <2>9, <2>10
<1>4. \/ RegisterCommit(r) \/ LoginAnswer(r) \/ TotpCommit(r) \/ BackupCommit(r)
      \/ RecoveryRight(r) \/ ResetAnswer(r) \/ UNCHANGED tokens
  BY DEF GoesOn, RegisterInvitation, RegisterUsername, EnrollCommit, TotpLock, RegenerateCommit,
         InviteCommit, RecoveryWrong, ResetStamp, ResetCommit, Fail, BackupMatch,
         EnrollStamp, RegenerateMark
<1>. QED
  BY <1>2, <1>3, <1>4

\* Two requests of a user in progress at once, one of them a reset: the other is crossed.
LEMMA OverlapCrosses ==
  ASSUME OverlapInv, SessionInv, NEW r \in Open, NEW p \in Open, p # r,
         req[p].pc \in {"reset", "stamped", "changed"}, req[p].user = req[r].user
  PROVE  Crossed(r)
BY DEF OverlapInv, SessionInv, Crossed, Open

\* What is crossed stays so.
LEMMA CrossedStays ==
  ASSUME TypeOK, NEW r \in DOMAIN req, Crossed(r),
         DOMAIN req \subseteq DOMAIN req', \A q \in DOMAIN req : req'[q].user = req[q].user,
         req'[r].crossed = req[r].crossed,
         history.together \subseteq history'.together, history.resets \subseteq history'.resets
  PROVE  Crossed(r)'
BY DEF TypeOK, Crossed

\* A token is accepted if it was not made before the last change of the password.
LEMMA SecondFacts ==
  /\ \A t \in Token : Second(t) \in Nat
  /\ \A t : Accepted(t) <=> ~(Second(t) < users[t.user].changed)
<1>1. \A m, n \in Nat : m * n \in Nat
  OBVIOUS
<1>2. \A t \in Token : t.iat \in Nat
  BY DEF Token, Time
<1>. QED
  BY <1>1, <1>2, AuthAssumption DEF Second, Accepted

\* Requests that arrive.
LEMMA SessionArrival == ASSUME AuthInv, SessionInv, Arrives PROVE SessionInv'
<1>1. PICK q : Enters(q) /\ Fits(q) /\ UNCHANGED <<users, invitations, codes, tokens, now>>
  BY ArrivalFacts
<1>2. PICK n : /\ DOMAIN req' = DOMAIN req \cup {n} /\ req'[n] = q /\ n \notin DOMAIN req
               /\ \A r \in DOMAIN req : req'[r] = req[r]
               /\ history.together \subseteq history'.together
               /\ history.resets \subseteq history'.resets
               /\ q.pc = "reset" => n \in history'.resets
               /\ TypeOK
  BY <1>1 DEF Enters, AuthInv
<1>3. q.pc \notin {"stamped", "changed"}
  BY <1>1 DEF Fits, Protected
<1>4. \A r \in DOMAIN req : Crossed(r) => Crossed(r)'
  BY <1>2, CrossedStays
<1>5. \A r \in DOMAIN req' : req'[r].pc \in {"reset", "stamped", "changed"} => r \in history'.resets
  BY <1>2, <1>3 DEF SessionInv
<1>6. \A t \in tokens' : Second(t) < now'
  BY <1>1 DEF SessionInv
<1>7. \A r \in DOMAIN req' : req'[r].pc \in Granting /\ Old(r)' => Crossed(r)'
  <2>1. \A r \in DOMAIN req : req'[r].pc \in Granting /\ Old(r)' => Crossed(r)'
    BY <1>1, <1>2, <1>4 DEF SessionInv, Old
  <2>2. ASSUME q.pc \in Granting, Old(n)' PROVE Crossed(n)'
    <3>1. q.user \in DOMAIN users /\ (q.gen = users[q.user].gen \/ Granted(q))
      BY <1>1, <2>2 DEF Fits, Granting
    <3>2. q.gen < users[q.user].gen
      BY <1>1, <1>2, <2>2 DEF Old
    <3>3. q.gen # users[q.user].gen
      <4>1. users[q.user].gen \in Nat
        BY <1>2, <3>1 DEF TypeOK, User
      <4>. QED
        BY <3>2, <4>1
    <3>4. PICK t \in tokens : /\ t.user = q.user /\ t.gen = q.gen /\ t.crossed = q.crossed
                              /\ t.scope # "password_reset" /\ Accepted(t)
      BY <3>1, <3>3 DEF Granted
    <3>5. t.crossed
      BY <3>2, <3>4 DEF SessionInv, OldSessionsEnd
    <3>. QED
      BY <1>2, <3>4, <3>5 DEF Crossed
  <2>. QED
    BY <1>2, <2>1, <2>2
<1>8. \A r \in DOMAIN req', t \in tokens' :
        req'[r].pc = "stamped" /\ t.user = req'[r].user /\ After(t, req'[r].stamp) => t.crossed
  BY <1>1, <1>2, <1>3 DEF SessionInv
<1>9. OldSessionsEnd'
  BY <1>1 DEF SessionInv, OldSessionsEnd, Accepted
<1>. QED
  BY <1>5, <1>6, <1>7, <1>8, <1>9 DEF SessionInv, Second, After

\* Requests that go on.
LEMMA SessionProgress ==
  ASSUME AuthInv, OverlapInv, SessionInv, NEW r \in Open, GoesOn(r)
  PROVE  SessionInv'
<1>1. /\ r \in DOMAIN req /\ DOMAIN req' = DOMAIN req
      /\ \A q \in DOMAIN req \ {r} : req'[q] = req[q]
      /\ req'[r].user = req[r].user /\ Becomes(r, req'[r])
      /\ history'.together = history.together /\ history'.resets = history.resets
  BY ProgressFacts, HistoryChanges
<1>2. TypeOK /\ TypeOK'
  <2>1. Next
    BY DEF GoesOn, Next
  <2>. QED
    BY <2>1, NextAuthInv DEF AuthInv
<1>3. now \in Nat /\ now' \in Nat /\ now <= now'
  BY <1>2, ClockChanges DEF GoesOn, Next
<1>4. /\ DOMAIN users \subseteq DOMAIN users' /\ \A u \in DOMAIN users : RowAfter(r, u)
      /\ \A u \in DOMAIN users : users[u].gen \in Nat /\ users[u].changed \in Nat
      /\ \A q \in DOMAIN req : req[q].pc \notin Registering \cup {"done"} => req[q].user \in DOMAIN users
      /\ \A t \in tokens : t \in Token /\ t.user \in DOMAIN users /\ t.gen \in Nat
  <2>1. \A u \in DOMAIN users : users[u] \in User
    BY <1>2 DEF TypeOK
  <2>2. \A w \in User : w.gen \in Nat /\ w.changed \in Nat
    BY DEF User, Time
  <2>3. \A q \in DOMAIN req : req[q].pc \notin Registering \cup {"done"} => req[q].user \in DOMAIN users
    BY Known
  <2>4. \A t \in tokens : t \in Token /\ t.user \in DOMAIN users
    BY <1>2 DEF TypeOK
  <2>5. \A t \in Token : t.gen \in Nat
    BY DEF Token
  <2>. QED
    BY <2>1, <2>2, <2>3, <2>4, <2>5, UserChanges
<1>5. \A p \in DOMAIN req \ {r} : Crossed(p) => Crossed(p)'
  <2>1. \A q \in DOMAIN req : req'[q].user = req[q].user
    BY <1>1
  <2>. QED
    BY <1>1, <1>2, <2>1, CrossedStays
<1>6. \A p \in DOMAIN req' : req'[p].pc \in {"reset", "stamped", "changed"} => p \in history'.resets
  <2>1. req'[r].pc \in {"reset", "stamped", "changed"} => req[r].pc \in {"reset", "stamped", "changed"}
    BY <1>1 DEF Becomes
  <2>. QED
    BY <1>1, <2>1 DEF SessionInv
\* Another reset is open with r: r is crossed.
<1>7. ASSUME NEW p \in DOMAIN req \ {r}, req[p].pc = "stamped", req[p].user = req[r].user
      PROVE  Crossed(r)
  BY <1>7, OverlapCrosses DEF Open
\* r resets the password: the requests open with it are crossed.
<1>8. ASSUME ResetCommit(r), NEW p \in DOMAIN req \ {r}, req[p].pc # "done", req[p].user = req[r].user
      PROVE  Crossed(p)
  <2>1. req[r].pc = "stamped"
    BY <1>8 DEF ResetCommit, At
  <2>. QED
    BY <1>8, <2>1, OverlapCrosses DEF Open
<1>9. \A p \in DOMAIN req' : req'[p].pc \in Granting /\ Old(p)' => Crossed(p)'
  <2>1. ASSUME NEW p \in DOMAIN req \ {r}, req[p].pc \in Granting, Old(p)' PROVE Crossed(p)'
    <3>1. req[p].user \in DOMAIN users /\ req[p].pc # "done" /\ req'[p] = req[p]
      BY <1>1, <1>4, <2>1 DEF Granting, Registering
    <3>2. Kept(req[p].user) \/ Reset(r, req[p].user)
      BY <1>4, <3>1 DEF RowAfter
    <3>3. CASE Kept(req[p].user)
      <4>1. Old(p)
        BY <2>1, <3>1, <3>3 DEF Old, Kept
      <4>. QED
        BY <1>5, <2>1, <4>1 DEF SessionInv
    <3>4. CASE Reset(r, req[p].user)
      BY <1>5, <1>8, <3>1, <3>4 DEF Reset
    <3>. QED
      BY <3>2, <3>3, <3>4
  <2>2. ASSUME req'[r].pc \in Granting, Old(r)' PROVE Crossed(r)'
    <3>1. req'[r].pc \in {"locked", "consume", "changed"} /\ req[r].pc \notin Registering \cup {"done"}
      BY <1>1, <2>2 DEF Becomes, Granting, Registering
    <3>2. req[r].user \in DOMAIN users
      BY <1>1, <1>4, <3>1
    <3>3. Kept(req[r].user) \/ Reset(r, req[r].user)
      BY <1>4, <3>2 DEF RowAfter
    <3>4. CASE req'[r].pc = "changed"
      <4>1. ResetCommit(r) /\ req'[r].gen = users[req[r].user].gen + 1
        BY <1>1, <3>4 DEF Becomes
      <4>2. users'[req[r].user].gen \in Nat /\ users'[req[r].user].gen <= users[req[r].user].gen + 1
        BY <1>4, <3>2, <3>3 DEF Kept, Reset
      <4>3. req'[r].gen < users'[req[r].user].gen
        BY <1>1, <2>2 DEF Old
      <4>. QED
        BY <1>4, <3>2, <4>1, <4>2, <4>3
    <3>5. CASE req'[r].pc \in {"locked", "consume"}
      <4>1. req'[r].gen = req[r].gen /\ req'[r].crossed = req[r].crossed /\ req[r].pc \in Granting
        BY <1>1, <3>5 DEF Becomes, Granting
      <4>2. ~ResetCommit(r)
        BY <1>1, <3>5 DEF Becomes, ResetCommit, At
      <4>3. Old(r)
        BY <1>1, <2>2, <3>3, <4>1, <4>2 DEF Old, Kept, Reset
      <4>4. Crossed(r)
        BY <1>1, <4>1, <4>3 DEF SessionInv
      <4>5. \A q \in DOMAIN req : req'[q].user = req[q].user
        BY <1>1
      <4>. QED
        BY <1>1, <1>2, <4>1, <4>4, <4>5, CrossedStays
    <3>. QED
      BY <3>1, <3>4, <3>5
  <2>. QED
    BY <1>1, <2>1, <2>2
\* The tokens that were there.
<1>10. ASSUME NEW t \in tokens
       PROVE  /\ Second(t) < now'
              /\ \A p \in DOMAIN req' :
                   req'[p].pc = "stamped" /\ t.user = req'[p].user /\ After(t, req'[p].stamp) => t.crossed
              /\ t.scope # "password_reset" /\ t.gen < users'[t.user].gen /\ Accepted(t)' => t.crossed
  <2>1. Second(t) \in Nat /\ Second(t) < now
    BY <1>4, SecondFacts DEF SessionInv
  <2>2. \A p \in DOMAIN req \ {r} :
          req[p].pc = "stamped" /\ t.user = req[p].user /\ After(t, req[p].stamp) => t.crossed
    BY DEF SessionInv
  <2>3. req'[r].pc = "stamped" => ~After(t, req'[r].stamp)
    BY <1>1, <1>3, <2>1 DEF Becomes, After
  <2>4. ASSUME t.scope # "password_reset", t.gen < users'[t.user].gen, Accepted(t)' PROVE t.crossed
    <3>1. ~(Second(t) < users'[t.user].changed)
      BY <2>4 DEF Accepted, Second
    <3>2. Kept(t.user) \/ Reset(r, t.user)
      BY <1>4 DEF RowAfter
    <3>3. CASE Kept(t.user)
      <4>1. t.gen < users[t.user].gen /\ ~(Second(t) < users[t.user].changed)
        BY <2>4, <3>1, <3>3 DEF Kept
      <4>2. Accepted(t)
        BY <4>1, SecondFacts
      <4>. QED
        BY <2>4, <4>1, <4>2 DEF SessionInv, OldSessionsEnd
    <3>4. CASE Reset(r, t.user)
      <4>1. req[r].pc = "stamped" /\ t.user = req[r].user /\ users'[t.user].changed = req[r].stamp
        BY <3>4 DEF Reset, ResetCommit, At
      <4>2. req[r].stamp \in Nat
        BY <1>1, Known DEF Time
      <4>3. After(t, req[r].stamp)
        BY <2>1, <2>4, <3>1, <4>1, <4>2 DEF After
      <4>. QED
        BY <1>1, <4>1, <4>3 DEF SessionInv
    <3>. QED
      BY <3>2, <3>3, <3>4
  <2>. QED
    BY <1>1, <1>3, <2>1, <2>2, <2>3, <2>4
\* The token that r grants.
<1>11. ASSUME NEW t \in Token, Grants(r, t)
       PROVE  /\ Second(t) < now'
              /\ \A p \in DOMAIN req' :
                   req'[p].pc = "stamped" /\ t.user = req'[p].user => t.crossed
              /\ t.gen < users'[t.user].gen => t.crossed
  <2>1. Second(t) \in Nat /\ Second(t) < now'
    BY <1>3, <1>11, SecondFacts DEF Grants
  <2>2. \A p \in DOMAIN req' : req'[p].pc = "stamped" /\ t.user = req'[p].user => t.crossed
    BY <1>1, <1>7, <1>11 DEF Grants
  <2>3. ASSUME t.gen < users'[t.user].gen PROVE t.crossed
    <3>1. CASE RegisterCommit(r)
      <4>1. req[r].user \in DOMAIN users' \ DOMAIN users /\ users'[req[r].user] = NewUser
        BY <3>1, UserChanges
      <4>2. t.gen < 0 /\ t.gen \in Nat
        BY <1>11, <2>3, <4>1 DEF Grants, NewUser, Token
      <4>. QED
        BY <4>2
    <3>2. CASE req[r].pc \in Granting /\ t.gen = req[r].gen
      <4>1. req[r].user \in DOMAIN users
        BY <1>1, <1>4, <3>2 DEF Granting, Registering
      <4>2. Kept(req[r].user)
        BY <1>4, <1>11, <4>1 DEF RowAfter, Reset, Grants
      <4>3. Old(r)
        BY <1>11, <2>3, <3>2, <4>2 DEF Old, Kept, Grants
      <4>. QED
        BY <1>1, <1>11, <3>2, <4>3 DEF SessionInv, Grants
    <3>. QED
      BY <1>11, <3>1, <3>2 DEF Grants
  <2>. QED
    BY <2>1, <2>2, <2>3
<1>12. \A t \in tokens' :
         /\ Second(t) < now'
         /\ \A p \in DOMAIN req' :
              req'[p].pc = "stamped" /\ t.user = req'[p].user /\ After(t, req'[p].stamp) => t.crossed
         /\ t.scope # "password_reset" /\ t.gen < users'[t.user].gen /\ Accepted(t)' => t.crossed
  <2>1. CASE tokens' = tokens
    BY <1>10, <2>1
  <2>2. CASE \E t \in Token : tokens' = tokens \cup {t} /\ Grants(r, t)
    <3>1. PICK new \in Token : tokens' = tokens \cup {new} /\ Grants(r, new)
      BY <2>2
    <3>2. /\ Second(new) < now'
          /\ \A p \in DOMAIN req' : req'[p].pc = "stamped" /\ new.user = req'[p].user => new.crossed
          /\ new.gen < users'[new.user].gen => new.crossed
      BY <1>11, <3>1
    <3>. QED
      BY <1>10, <3>1, <3>2
  <2>. QED
    BY <2>1, <2>2, TokenChanges
<1>. QED
  BY <1>6, <1>9, <1>12 DEF SessionInv, OldSessionsEnd, Second, After

\* Every step keeps the invariant of the sessions.
LEMMA SessionStep == AuthInv /\ OverlapInv /\ SessionInv /\ [Next]_vars => SessionInv'
<1>. SUFFICES ASSUME AuthInv, OverlapInv, SessionInv, [Next]_vars PROVE SessionInv'
  OBVIOUS
<1>1. ASSUME Passes \/ UNCHANGED vars PROVE SessionInv'
  <2>1. UNCHANGED <<users, tokens, req, history>> /\ (now' = now \/ now' = now + 1)
    BY <1>1 DEF Passes, Tick, InvitationExpires, Reads, tables, vars
  <2>2. \A t \in tokens : Second(t) < now'
    <3>1. now \in Nat /\ \A t \in tokens : Second(t) \in Nat
      BY SecondFacts, RowTypes DEF AuthInv, TypeOK
    <3>. QED
      BY <2>1, <3>1 DEF SessionInv
  <2>3. OldSessionsEnd'
    BY <2>1 DEF SessionInv, OldSessionsEnd, Accepted
  <2>4. \A r \in DOMAIN req : (Crossed(r)' <=> Crossed(r)) /\ (Old(r)' <=> Old(r))
    BY <2>1 DEF Crossed, Old
  <2>. QED
    BY <2>1, <2>2, <2>3, <2>4 DEF SessionInv, Second, After
<1>. QED
  BY <1>1, SessionArrival, SessionProgress, NextKinds

\* The tokens that are there at first are of the first password.
LEMMA InitSessionInv == Init => SessionInv
<1>. SUFFICES ASSUME Init PROVE SessionInv
  OBVIOUS
<1>1. now = 1 /\ \A r \in DOMAIN req : req[r].pc = "done"
  BY InitStates, InitFacts
<1>2. \A t \in tokens : Second(t) < now
  BY <1>1, InitFacts, AuthAssumption DEF Second
<1>3. OldSessionsEnd
  BY InitFacts DEF OldSessionsEnd
<1>. QED
  BY <1>1, <1>2, <1>3 DEF SessionInv, Granting

-----------------------------------------------------------------------------
\* The inductive invariant of the sessions: who still holds an old password overlapped its
\* change, and a token made after the time of a change that has still to be committed is
\* crossed by that change.
THEOREM SessionsInvariant == Spec => [](AuthInv /\ OverlapInv /\ SessionInv)
<1>1. Init => AuthInv /\ OverlapInv /\ SessionInv
  BY InitAuthInv, InitUseInv, InitSessionInv
<1>2. AuthInv /\ OverlapInv /\ SessionInv /\ [Next]_vars => (AuthInv /\ OverlapInv /\ SessionInv)'
  BY NextAuthInv, OverlapStep, SessionStep
<1>. QED
  BY <1>1, <1>2, PTL DEF Spec

\* A session of a password that was changed is refused, unless it was opened by a request
\* that overlapped the change, or with a session of such a request (password_changed_at
\* against iat in get_current_user).
THEOREM OldSessionsAreOver == Spec => []OldSessionsEnd
<1>1. AuthInv /\ OverlapInv /\ SessionInv => OldSessionsEnd
  BY DEF SessionInv
<1>. QED
  BY <1>1, SessionsInvariant, PTL

=============================================================================
