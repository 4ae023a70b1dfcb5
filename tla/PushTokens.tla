----------------------------- MODULE PushTokens -----------------------------
(***************************************************************************)
(* Push notifications: the table push_token, the endpoints with which the  *)
(* app registers and unregisters its FCM token (routes/notifications.py),  *)
(* the notifier that sends an alert to all tokens and deletes those that   *)
(* FCM reports as invalid or for which it refuses the message itself       *)
(* (fcm_notifier.py), and the part of the app that calls the endpoints     *)
(* (auth_provider.dart, fcm_service.dart).                                 *)
(*                                                                         *)
(* FCM gives each phone a token and may replace it by a new one, which     *)
(* makes the old one invalid for ever; the tokens of a phone are numbered. *)
(* A request of the app may take effect long after the app has given up    *)
(* waiting for it (10 s), or never.                                        *)
(***************************************************************************)
EXTENDS Naturals, Sequences, FiniteSets

CONSTANTS
  Phones,
  Users,
  NoUser,     \* nobody is logged in
  MaxTokens,  \* bound on the tokens of a phone
  MaxRequests \* bound on requests

ASSUME PushAssumption == NoUser \notin Users /\ MaxTokens \in Nat \ {0} /\ MaxRequests \in Nat

VARIABLES
  rows,     \* push_token, by id: that of the request that inserted the row
  req,      \* requests, in the order they were sent
  phone,    \* the app
  token,    \* the token FCM has given to each phone
  notifier, \* FCMNotifier
  crossed,  \* phones two requests of which were under way at once
  quiet     \* phones that have unregistered their token and left

vars == <<rows, req, phone, token, notifier, crossed, quiet>>

Ids == 1..MaxRequests
Token == [of : Phones, n : 1..MaxTokens]
Row == [token : Token, user : Users]
\* found: the row that register_token has read, 0 if there was none; same: it
\* belongs to the user already.
Request == [kind : {"register", "unregister"}, token : Token, user : Users,
            pc : {"sent", "read", "done", "failed"}, found : 0..MaxRequests, same : BOOLEAN]
\* known: _currentToken, 0 is null; logout: the request that logout() waits for.
App == [open : BOOLEAN, user : Users \cup {NoUser}, known : 0..MaxTokens, logout : 0..MaxRequests]
\* tokens: those to send to, then those to delete; refused: those of them for which FCM
\* has refused the message, whatever it makes of the token.
Notifier == [pc : {"idle", "send", "clean"}, tokens : SUBSET Token, refused : SUBSET Token]
Idle == [pc |-> "idle", tokens |-> {}, refused |-> {}]

TypeOK ==
  /\ DOMAIN rows \subseteq Ids /\ rows \in [DOMAIN rows -> Row]
  /\ req \in Seq(Request) /\ Len(req) <= MaxRequests
  /\ phone \in [Phones -> App] /\ token \in [Phones -> 1..MaxTokens]
  /\ notifier \in Notifier
  /\ crossed \subseteq Phones /\ quiet \subseteq Phones

Init ==
  /\ rows = <<>> /\ req = <<>>
  /\ phone \in [Phones -> {[open |-> FALSE, user |-> u, known |-> 0, logout |-> 0] :
                             u \in Users \cup {NoUser}}]
  /\ token = [p \in Phones |-> 1]
  /\ notifier = Idle
  /\ crossed = {} /\ quiet = {}

-----------------------------------------------------------------------------
Current(p) == [of |-> p, n |-> token[p]]
Valid(t) == t.n = token[t.of]
RowsOf(t) == {i \in DOMAIN rows : rows[i].token = t}
UnderWay(r) == req[r].pc \in {"sent", "read"}
AppIs(p, app) == phone' = [phone EXCEPT ![p] = app]

Send(kind, p, n) ==
  /\ Len(req) < MaxRequests
  /\ req' = Append(req, [kind |-> kind, token |-> [of |-> p, n |-> n], user |-> phone[p].user,
                         pc |-> "sent", found |-> 0, same |-> FALSE])
  /\ crossed' = IF \E r \in DOMAIN req : UnderWay(r) /\ req[r].token.of = p
                THEN crossed \cup {p} ELSE crossed

\* checkAuth: a stored session initializes FCM and registers the token.
AppStart(p) ==
  /\ ~phone[p].open
  /\ IF phone[p].user = NoUser
     THEN /\ AppIs(p, [phone[p] EXCEPT !.open = TRUE])
          /\ UNCHANGED <<req, crossed, quiet>>
     ELSE /\ AppIs(p, [phone[p] EXCEPT !.open = TRUE, !.known = token[p]])
          /\ Send("register", p, token[p])
          /\ quiet' = quiet \ {p}
  /\ UNCHANGED <<rows, token, notifier>>

\* The process ends; the session stays stored.
AppClose(p) ==
  /\ phone[p].open
  /\ AppIs(p, [phone[p] EXCEPT !.open = FALSE, !.known = 0, !.logout = 0])
  /\ UNCHANGED <<rows, req, token, notifier, crossed, quiet>>

\* login and completeTotp do nothing about FCM.
Login(p, u) ==
  /\ phone[p].open /\ phone[p].user = NoUser
  /\ AppIs(p, [phone[p] EXCEPT !.user = u])
  /\ UNCHANGED <<rows, req, token, notifier, crossed, quiet>>

\* logout: unregisterToken first, if there is a token.
Logout(p) ==
  /\ phone[p].open /\ phone[p].user # NoUser /\ phone[p].logout = 0
  /\ IF phone[p].known = 0
     THEN /\ AppIs(p, [phone[p] EXCEPT !.user = NoUser])
          /\ UNCHANGED <<req, crossed>>
     ELSE /\ Send("unregister", p, phone[p].known)
          /\ AppIs(p, [phone[p] EXCEPT !.logout = Len(req) + 1])
  /\ UNCHANGED <<rows, token, notifier, quiet>>

\* The answer has come, good or bad, or is no longer waited for.
LogoutDone(p) ==
  LET r == req[phone[p].logout]
  IN /\ phone[p].logout # 0
     /\ AppIs(p, [phone[p] EXCEPT !.user = NoUser, !.logout = 0])
     /\ quiet' = IF r.pc = "done" /\ r.token = Current(p) /\ p \notin crossed
                 THEN quiet \cup {p} ELSE quiet
     /\ UNCHANGED <<rows, req, token, notifier, crossed>>

\* onUnauthorized, or a session that has expired.
SessionLost(p) ==
  /\ phone[p].user # NoUser /\ phone[p].logout = 0
  /\ AppIs(p, [phone[p] EXCEPT !.user = NoUser])
  /\ UNCHANGED <<rows, req, token, notifier, crossed, quiet>>

\* onTokenRefresh, which is listened to once FCM is initialized; without a
\* session the request is refused.
TokenRefresh(p) ==
  /\ token[p] < MaxTokens
  /\ token' = [token EXCEPT ![p] = token[p] + 1]
  /\ IF phone[p].known = 0
     THEN UNCHANGED <<phone, req, crossed, quiet>>
     ELSE /\ AppIs(p, [phone[p] EXCEPT !.known = token[p] + 1])
          /\ IF phone[p].user = NoUser
             THEN UNCHANGED <<req, crossed, quiet>>
             ELSE Send("register", p, token[p] + 1) /\ quiet' = quiet \ {p}
  /\ UNCHANGED <<rows, notifier>>

-----------------------------------------------------------------------------
RequestIs(r, pc, i, same) ==
  req' = [req EXCEPT ![r] = [req[r] EXCEPT !.pc = pc, !.found = i, !.same = same]]
Ends(r, pc) == RequestIs(r, pc, 0, FALSE)

\* register_token: looks the token up ...
RegisterRead(r) ==
  LET same(i) == rows[i].user = req[r].user
  IN /\ req[r].kind = "register" /\ req[r].pc = "sent"
     /\ \/ RowsOf(req[r].token) = {} /\ RequestIs(r, "read", 0, FALSE)
        \/ \E i \in RowsOf(req[r].token) : RequestIs(r, "read", i, same(i))
     /\ UNCHANGED <<rows, phone, token, notifier, crossed, quiet>>

Put(id, r) ==
  rows' = [i \in DOMAIN rows \cup {id} |->
             IF i = id THEN [token |-> req[r].token, user |-> req[r].user] ELSE rows[i]]

\* Mutation: a new row also when there is one.
RegisterCommitAlways(r) ==
  /\ req[r].pc = "read"
  /\ Put(r, r) /\ Ends(r, "done")
  /\ UNCHANGED <<phone, token, notifier, crossed, quiet>>

\* ... and inserts a row, or gives the one it has found to the user, which fails
\* when that is gone; there is nothing to write when it is the user's already.
RegisterCommit(r) ==
  /\ req[r].pc = "read"
  /\ \/ req[r].found = 0 /\ Put(r, r)
     \/ req[r].found \in DOMAIN rows /\ ~req[r].same /\ Put(req[r].found, r)
     \/ req[r].same /\ UNCHANGED rows
  /\ Ends(r, "done")
  /\ UNCHANGED <<phone, token, notifier, crossed, quiet>>

Delete(ids) == rows' = [i \in DOMAIN rows \ ids |-> rows[i]]

Unregistered(r, mine) ==
  /\ req[r].kind = "unregister" /\ req[r].pc = "sent"
  /\ Delete(mine)
  /\ Ends(r, IF mine = {} THEN "failed" ELSE "done")
  /\ UNCHANGED <<phone, token, notifier, crossed, quiet>>

\* Mutation: the first row of this user.
UnregisterFirst(r) ==
  Unregistered(r, {i \in DOMAIN rows : /\ rows[i].user = req[r].user
                                       /\ \A j \in DOMAIN rows : rows[j].user = req[r].user => i <= j})

\* unregister_token: the rows with this token and this user; 404 if there is none.
Unregister(r) ==
  Unregistered(r, {i \in RowsOf(req[r].token) : rows[i].user = req[r].user})

\* The request does not arrive, is refused, or its transaction fails.
RequestFails(r) ==
  /\ UnderWay(r)
  /\ Ends(r, "failed")
  /\ UNCHANGED <<rows, phone, token, notifier, crossed, quiet>>

-----------------------------------------------------------------------------
Goes(pc, tokens, refused) ==
  /\ notifier' = IF tokens = {} THEN Idle ELSE [pc |-> pc, tokens |-> tokens, refused |-> refused]
  /\ UNCHANGED <<req, phone, token, crossed, quiet>>

\* send_alert, for the next alert: get_all_push_tokens.
SendAlert ==
  /\ notifier.pc = "idle" /\ DOMAIN rows # {}
  /\ Goes("send", {rows[i].token : i \in DOMAIN rows}, {}) /\ UNCHANGED rows

Invalid == {t \in notifier.tokens : ~Valid(t)}

\* Mutation: every token that was not delivered to is deleted.
AnsweredAnyFailure ==
  /\ notifier.pc = "send"
  /\ \E failed \in SUBSET notifier.tokens : Goes("clean", Invalid \cup failed, {})
  /\ UNCHANGED rows

\* Mutation: tokens are deleted only when nothing could be delivered.
AnsweredAllFailed ==
  /\ notifier.pc = "send"
  /\ Goes("clean", IF Invalid = notifier.tokens THEN Invalid ELSE {}, {})
  /\ UNCHANGED rows

\* FCM has answered: _cleanup_invalid_tokens takes the tokens whose error says that they
\* are invalid, and those of an INVALID_ARGUMENT, which the message may have caused.
Answered ==
  /\ notifier.pc = "send"
  /\ \E refused \in SUBSET notifier.tokens : Goes("clean", Invalid \cup refused, refused)
  /\ UNCHANGED rows

\* delete_push_tokens_batch.
Clean ==
  /\ notifier.pc = "clean"
  /\ Delete(UNION {RowsOf(t) : t \in notifier.tokens})
  /\ Goes("idle", {}, {})

\* The call of FCM or the transaction raises.
NotifierFails == notifier.pc # "idle" /\ Goes("idle", {}, {}) /\ UNCHANGED rows

Next ==
  \/ \E p \in Phones : \/ AppStart(p) \/ AppClose(p) \/ Logout(p) \/ LogoutDone(p)
                        \/ SessionLost(p) \/ TokenRefresh(p)
                        \/ \E u \in Users : Login(p, u)
  \/ \E r \in DOMAIN req : RegisterRead(r) \/ RegisterCommit(r) \/ Unregister(r) \/ RequestFails(r)
  \/ SendAlert \/ Answered \/ Clean \/ NotifierFails

Spec == Init /\ [][Next]_vars

\* Alerts keep coming, and neither FCM nor the database fails for ever.
FairSpec == Spec /\ WF_vars(SendAlert) /\ SF_vars(Answered) /\ SF_vars(Clean)

-----------------------------------------------------------------------------
\* A token has two rows, and its phone shows every alert twice, only if two
\* requests of the phone were under way at once: the table has no unique
\* constraint (models.py:259), and register_token reads before it inserts.
OneRowUnlessCrossed ==
  \A i, j \in DOMAIN rows :
    rows[i].token = rows[j].token /\ rows[i].token.of \notin crossed => i = j

\* A phone that has unregistered its token, and whose requests never overlapped,
\* has no row and gets no alert until it registers a token again.
QuietAfterLogout == \A p \in quiet : RowsOf(Current(p)) = {}

\* A row with the token a phone has now disappears only when the user it belongs to
\* unregisters that token, or in the clean-up after FCM has refused a message to it: not
\* because the notifier has read it earlier or could not reach FCM, nor because the request
\* of a former user of the phone comes late.
Unregisters(i) ==
  \E r \in DOMAIN req : /\ req[r].kind = "unregister" /\ UnderWay(r) /\ req'[r].pc = "done"
                        /\ req[r].token = rows[i].token /\ req[r].user = rows[i].user
LiveTokenKept ==
  [][\A i \in DOMAIN rows : Valid(rows[i].token) /\ i \notin DOMAIN rows' =>
       Unregisters(i) \/ (notifier.pc = "clean" /\ rows[i].token \in notifier.refused)]_vars

\* The rows of tokens that were replaced go, as long as alerts are sent and
\* answered: the table does not fill up with phones that cannot be reached.
StaleRowsGo == \A t \in Token : ~Valid(t) /\ RowsOf(t) # {} ~> RowsOf(t) = {}

=============================================================================
