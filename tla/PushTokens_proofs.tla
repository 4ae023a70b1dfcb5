------------------------- MODULE PushTokens_proofs -------------------------
(***************************************************************************)
(* Proofs about PushTokens: one row per token unless requests of its phone *)
(* overlapped, no row of a token in use is deleted but at the request of   *)
(* its user or after FCM has refused a message to it, and no row for a     *)
(* phone that has unregistered its token and whose requests never          *)
(* overlapped, for any phones, users and numbers of tokens and requests.   *)
(***************************************************************************)
EXTENDS PushTokens, TLAPS

\* Only tokens that FCM has given out occur; those to be deleted were
\* replaced, or FCM has refused a message to them.
Issued(t) == t.n <= token[t.of]
Deletable(t) == notifier.pc = "clean" => ~Valid(t) \/ t \in notifier.refused
IssuedInv ==
  /\ \A i \in DOMAIN rows : Issued(rows[i].token)
  /\ \A r \in DOMAIN req : Issued(req[r].token)
  /\ \A p \in Phones : phone[p].known <= token[p]
  /\ \A t \in notifier.tokens : Issued(t) /\ Deletable(t)

\* Two requests of a phone are under way only if that is noted.
AloneInv ==
  \A q, r \in DOMAIN req :
    UnderWay(q) /\ UnderWay(r) /\ q # r /\ req[q].token.of = req[r].token.of
      => req[r].token.of \in crossed

\* A row was inserted by a request that is done.
RowInv == \A i \in DOMAIN rows : i \in DOMAIN req /\ req[i].pc = "done"

\* What register_token has read still holds when it commits, unless the row is gone
\* or the requests of the phone overlap.
FoundInv ==
  \A r \in DOMAIN req : req[r].pc = "read" =>
    /\ req[r].found = 0 => req[r].token.of \in crossed \/ RowsOf(req[r].token) = {}
    /\ req[r].found # 0 =>
         /\ req[r].found \in DOMAIN req /\ req[req[r].found].pc = "done"
         /\ req[r].found \in DOMAIN rows => rows[req[r].found].token = req[r].token

PushInv == TypeOK /\ IssuedInv /\ AloneInv /\ RowInv /\ FoundInv /\ OneRowUnlessCrossed

\* Nothing is registered yet.
LEMMA InitPushInv == Init => PushInv
<1>. SUFFICES ASSUME Init PROVE PushInv
  OBVIOUS
<1>1. rows = <<>> /\ DOMAIN rows = {} /\ req = <<>> /\ DOMAIN req = {} /\ Len(req) = 0
  BY DEF Init
<1>2. TypeOK
  <2>1. MaxRequests \in Nat /\ MaxTokens \in Nat \ {0}
    BY PushAssumption
  <2>2. phone \in [Phones -> App]
    <3>1. \A u \in Users \cup {NoUser} :
            [open |-> FALSE, user |-> u, known |-> 0, logout |-> 0] \in App
      BY <2>1 DEF App
    <3>. QED
      BY <3>1 DEF Init
  <2>3. token \in [Phones -> 1..MaxTokens] /\ notifier \in Notifier
    BY <2>1 DEF Init, Idle, Notifier
  <2>4. rows \in [DOMAIN rows -> Row] /\ req \in Seq(Request)
    BY <1>1
  <2>. QED
    BY <1>1, <2>1, <2>2, <2>3, <2>4 DEF Init, TypeOK
<1>3. IssuedInv
  BY <1>1 DEF Init, IssuedInv, Idle
<1>. QED
  BY <1>1, <1>2, <1>3 DEF PushInv, AloneInv, RowInv, FoundInv, OneRowUnlessCrossed

-----------------------------------------------------------------------------
\* A token stays issued, and one that was replaced stays so.
LEMMA TokensGrow ==
  ASSUME TypeOK, token' \in [Phones -> 1..MaxTokens], \A p \in Phones : token[p] <= token'[p],
         NEW t \in Token, Issued(t)
  PROVE  Issued(t)' /\ (~Valid(t) => ~Valid(t)')
<1>1. /\ t.of \in Phones /\ t.n \in Nat /\ token[t.of] \in Nat /\ token'[t.of] \in Nat
      /\ token[t.of] <= token'[t.of] /\ t.n <= token[t.of]
  BY PushAssumption DEF TypeOK, Token, Issued
<1>. QED
  BY <1>1 DEF Issued, Valid

\* The tokens of rows, requests and notifier.
LEMMA IssuedTypes ==
  ASSUME PushInv
  PROVE  /\ \A i \in DOMAIN rows : rows[i].token \in Token /\ Issued(rows[i].token)
         /\ \A r \in DOMAIN req : req[r].token \in Token /\ Issued(req[r].token)
         /\ \A t \in notifier.tokens : t \in Token /\ Issued(t)
<1>1. rows \in [DOMAIN rows -> Row] /\ req \in Seq(Request) /\ notifier \in Notifier
  BY DEF PushInv, TypeOK
<1>2. \A i \in DOMAIN rows : rows[i].token \in Token
  BY <1>1 DEF Row
<1>3. \A r \in DOMAIN req : req[r].token \in Token
  <2>1. \A r \in DOMAIN req : req[r] \in Request
    BY <1>1
  <2>. QED
    BY <2>1 DEF Request
<1>4. \A t \in notifier.tokens : t \in Token
  BY <1>1 DEF Notifier
<1>. QED
  BY <1>2, <1>3, <1>4 DEF PushInv, IssuedInv

\* The app changes, or FCM gives it a new token, and no request is sent.
LEMMA AppStep ==
  ASSUME PushInv, UNCHANGED <<rows, req, notifier, crossed>>,
         token' \in [Phones -> 1..MaxTokens], \A p \in Phones : token[p] <= token'[p],
         phone' \in [Phones -> App], \A p \in Phones : phone'[p].known <= token'[p],
         quiet' \subseteq Phones
  PROVE  PushInv'
<1>1. TypeOK'
  BY DEF PushInv, TypeOK
<1>2. IssuedInv'
  <2>1. /\ \A i \in DOMAIN rows : rows[i].token \in Token /\ Issued(rows[i].token)
        /\ \A r \in DOMAIN req : req[r].token \in Token /\ Issued(req[r].token)
        /\ \A t \in notifier.tokens : t \in Token /\ Issued(t)
    BY IssuedTypes
  <2>. QED
    BY <2>1, TokensGrow DEF PushInv, IssuedInv, Deletable
<1>3. AloneInv' /\ RowInv' /\ FoundInv' /\ OneRowUnlessCrossed'
  BY DEF PushInv, AloneInv, RowInv, FoundInv, OneRowUnlessCrossed, UnderWay, RowsOf
<1>. QED
  BY <1>1, <1>2, <1>3 DEF PushInv

\* A request is sent: whoever else of the phone is under way is noted.
LEMMA SendStep ==
  ASSUME PushInv, UNCHANGED <<rows, notifier>>,
         NEW kind \in {"register", "unregister"}, NEW p \in Phones, NEW n \in 1..MaxTokens,
         Send(kind, p, n), phone[p].user # NoUser, n <= token'[p],
         token' \in [Phones -> 1..MaxTokens], \A q \in Phones : token[q] <= token'[q],
         phone' \in [Phones -> App], \A q \in Phones : phone'[q].known <= token'[q],
         quiet' \subseteq Phones
  PROVE  PushInv'
<1>. DEFINE new == [kind |-> kind, token |-> [of |-> p, n |-> n], user |-> phone[p].user,
                    pc |-> "sent", found |-> 0, same |-> FALSE]
            last == Len(req) + 1
<1>1. /\ TypeOK /\ req \in Seq(Request) /\ Len(req) \in Nat /\ Len(req) < MaxRequests
      /\ MaxRequests \in Nat /\ req' = Append(req, new)
      /\ crossed' = IF \E r \in DOMAIN req : UnderWay(r) /\ req[r].token.of = p
                    THEN crossed \cup {p} ELSE crossed
  BY PushAssumption DEF PushInv, TypeOK, Send
<1>2. new \in Request
  <2>1. phone[p].user \in Users
    BY <1>1 DEF TypeOK, App
  <2>2. [of |-> p, n |-> n] \in Token
    BY DEF Token
  <2>. QED
    BY <1>1, <2>1, <2>2 DEF Request
<1>3. new.token = [of |-> p, n |-> n] /\ new.token.of = p /\ new.token.n = n /\ new.pc = "sent"
  OBVIOUS
<1>. HIDE DEF new
<1>4. /\ req' \in Seq(Request) /\ Len(req') = last /\ last <= MaxRequests
      /\ DOMAIN req' = DOMAIN req \cup {last} /\ last \notin DOMAIN req
      /\ \A r \in DOMAIN req : req'[r] = req[r]
      /\ req'[last] = new
  BY <1>1, <1>2
<1>. HIDE DEF last
<1>5. TypeOK'
  BY <1>1, <1>4 DEF TypeOK
<1>6. IssuedInv'
  <2>1. /\ \A i \in DOMAIN rows : rows[i].token \in Token /\ Issued(rows[i].token)
        /\ \A r \in DOMAIN req : req[r].token \in Token /\ Issued(req[r].token)
        /\ \A t \in notifier.tokens : t \in Token /\ Issued(t)
    BY IssuedTypes
  <2>2. \A r \in DOMAIN req : req[r].token.n <= token'[req[r].token.of]
    BY <1>1, <2>1, TokensGrow DEF Issued
  <2>3. (\A r \in DOMAIN req : Issued(req[r].token))'
    BY <1>3, <1>4, <2>2 DEF Issued
  <2>4. (\A i \in DOMAIN rows : Issued(rows[i].token))'
    BY <1>1, <2>1, TokensGrow
  <2>5. (\A t \in notifier.tokens : Issued(t) /\ Deletable(t))'
    BY <1>1, <2>1, TokensGrow DEF PushInv, IssuedInv, Deletable
  <2>6. (\A q \in Phones : phone[q].known <= token[q])'
    OBVIOUS
  <2>. QED
    BY <2>3, <2>4, <2>5, <2>6 DEF IssuedInv
<1>7. AloneInv'
  <2>1. \A r \in DOMAIN req : UnderWay(r)' = UnderWay(r)
    BY <1>4 DEF UnderWay
  <2>2. crossed \subseteq crossed'
    BY <1>1
  <2>3. \A r \in DOMAIN req : UnderWay(r) /\ req[r].token.of = p => p \in crossed'
    BY <1>1
  <2>. QED
    BY <1>3, <1>4, <2>1, <2>2, <2>3 DEF PushInv, AloneInv
<1>8. RowInv' /\ FoundInv'
  BY <1>1, <1>3, <1>4 DEF PushInv, RowInv, FoundInv, RowsOf
<1>9. OneRowUnlessCrossed'
  BY <1>1 DEF PushInv, OneRowUnlessCrossed
<1>. QED
  BY <1>5, <1>6, <1>7, <1>8, <1>9 DEF PushInv

-----------------------------------------------------------------------------
\* What a step of one request leaves alone.
LEMMA RequestFacts ==
  ASSUME TypeOK, NEW r \in DOMAIN req, NEW pc \in {"read", "done", "failed"},
         NEW i \in 0..MaxRequests, NEW same \in BOOLEAN, RequestIs(r, pc, i, same)
  PROVE  /\ req' \in Seq(Request) /\ Len(req') = Len(req) /\ DOMAIN req' = DOMAIN req
         /\ \A q \in DOMAIN req \ {r} : req'[q] = req[q]
         /\ req'[r].pc = pc /\ req'[r].found = i
         /\ \A q \in DOMAIN req : req'[q].token = req[q].token
<1>. DEFINE new == [req[r] EXCEPT !.pc = pc, !.found = i, !.same = same]
<1>1. req \in Seq(Request) /\ req[r] \in Request
  BY DEF TypeOK
<1>2. new \in Request /\ new.pc = pc /\ new.found = i /\ new.token = req[r].token
  BY <1>1 DEF Request
<1>3. req' = [req EXCEPT ![r] = new]
  BY DEF RequestIs
<1>. HIDE DEF new
<1>4. req' \in Seq(Request) /\ Len(req') = Len(req) /\ DOMAIN req' = DOMAIN req
  BY <1>1, <1>2, <1>3
<1>5. req'[r] = new /\ \A q \in DOMAIN req \ {r} : req'[q] = req[q]
  BY <1>1, <1>3
<1>. QED
  BY <1>2, <1>4, <1>5

\* A request goes on and rows disappear or get another user.
LEMMA ProgressStep ==
  ASSUME PushInv, NEW r \in DOMAIN req, UnderWay(r),
         NEW pc \in {"read", "done", "failed"}, NEW i \in 0..MaxRequests, NEW same \in BOOLEAN,
         RequestIs(r, pc, i, same), UNCHANGED <<phone, token, notifier, crossed, quiet>>,
         rows' \in [DOMAIN rows' -> Row], DOMAIN rows' \subseteq DOMAIN rows,
         \A j \in DOMAIN rows' : rows'[j].token = rows[j].token,
         pc = "read" => /\ UNCHANGED rows
                        /\ i = 0 => RowsOf(req[r].token) = {}
                        /\ i # 0 => i \in RowsOf(req[r].token)
  PROVE  PushInv'
<1>1. /\ TypeOK /\ req' \in Seq(Request) /\ Len(req') = Len(req) /\ DOMAIN req' = DOMAIN req
      /\ \A q \in DOMAIN req \ {r} : req'[q] = req[q]
      /\ req'[r].pc = pc /\ req'[r].found = i
      /\ \A q \in DOMAIN req : req'[q].token = req[q].token
  BY RequestFacts DEF PushInv
<1>2. TypeOK'
  BY <1>1 DEF TypeOK
<1>3. IssuedInv'
  BY <1>1 DEF PushInv, IssuedInv, Issued, Deletable, Valid
<1>4. AloneInv'
  <2>1. \A q \in DOMAIN req : UnderWay(q)' => UnderWay(q)
    BY <1>1 DEF UnderWay
  <2>. QED
    BY <1>1, <2>1 DEF PushInv, AloneInv
<1>5. \A q \in DOMAIN req : req[q].pc = "done" => q # r /\ req'[q].pc = "done"
  BY <1>1 DEF UnderWay
<1>6. RowInv'
  BY <1>1, <1>5 DEF PushInv, RowInv
<1>7. \A t : RowsOf(t)' \subseteq RowsOf(t)
  BY DEF RowsOf
<1>8. FoundInv'
  <2>. SUFFICES ASSUME NEW q \in DOMAIN req, req'[q].pc = "read"
                PROVE  /\ req'[q].found = 0 => req[q].token.of \in crossed \/ RowsOf(req[q].token)' = {}
                       /\ req'[q].found # 0 =>
                            /\ req'[q].found \in DOMAIN req /\ req'[req'[q].found].pc = "done"
                            /\ req'[q].found \in DOMAIN rows' => rows'[req'[q].found].token = req[q].token
    BY <1>1 DEF FoundInv
  <2>1. CASE q # r
    <3>1. req'[q] = req[q] /\ req[q].pc = "read"
      BY <1>1, <2>1
    <3>. QED
      BY <1>5, <1>7, <3>1 DEF PushInv, FoundInv
  <2>2. CASE q = r
    <3>1. pc = "read" /\ rows' = rows /\ req'[r].found = i
      BY <1>1, <2>2
    <3>2. CASE i = 0
      BY <1>1, <1>7, <2>2, <3>1, <3>2
    <3>3. CASE i # 0
      <4>1. i \in DOMAIN rows /\ rows[i].token = req[r].token
        BY <3>1, <3>3 DEF RowsOf
      <4>2. i \in DOMAIN req /\ req'[i].pc = "done"
        BY <1>5, <4>1 DEF PushInv, RowInv
      <4>. QED
        BY <2>2, <3>1, <3>3, <4>1, <4>2
    <3>. QED
      BY <3>2, <3>3
  <2>. QED
    BY <2>1, <2>2
<1>9. OneRowUnlessCrossed'
  BY DEF PushInv, OneRowUnlessCrossed
<1>. QED
  BY <1>2, <1>3, <1>4, <1>6, <1>8, <1>9 DEF PushInv

\* A row is inserted: no other has its token, unless requests overlapped.
LEMMA InsertStep ==
  ASSUME PushInv, NEW r \in DOMAIN req, req[r].pc = "read", req[r].found = 0,
         Put(r, r), Ends(r, "done"), UNCHANGED <<phone, token, notifier, crossed, quiet>>
  PROVE  PushInv'
<1>0. TypeOK /\ 0 \in 0..MaxRequests /\ FALSE \in BOOLEAN /\ RequestIs(r, "done", 0, FALSE)
  BY PushAssumption DEF PushInv, Ends, RequestIs
<1>1. /\ TypeOK /\ req' \in Seq(Request) /\ Len(req') = Len(req) /\ DOMAIN req' = DOMAIN req
      /\ \A q \in DOMAIN req \ {r} : req'[q] = req[q]
      /\ req'[r].pc = "done"
      /\ \A q \in DOMAIN req : req'[q].token = req[q].token
  BY <1>0, RequestFacts
<1>2. r \in Ids /\ req[r] \in Request
  BY <1>1, PushAssumption DEF TypeOK, Ids
<1>3. r \notin DOMAIN rows
  BY DEF PushInv, RowInv
<1>4. /\ DOMAIN rows' = DOMAIN rows \cup {r} /\ \A i \in DOMAIN rows : rows'[i] = rows[i]
      /\ rows'[r].token = req[r].token /\ rows'[r] \in Row
  <2>1. [token |-> req[r].token, user |-> req[r].user] \in Row
    BY <1>2 DEF Request, Row
  <2>. QED
    BY <1>3, <2>1 DEF Put
<1>5. TypeOK'
  <2>1. rows' \in [DOMAIN rows' -> Row]
    BY <1>1, <1>4 DEF TypeOK, Put
  <2>. QED
    BY <1>1, <1>2, <1>4, <2>1 DEF TypeOK
<1>6. IssuedInv'
  BY <1>1, <1>4 DEF PushInv, IssuedInv, Issued, Deletable, Valid
<1>7. \A q \in DOMAIN req : UnderWay(q)' <=> UnderWay(q) /\ q # r
  BY <1>1 DEF UnderWay
<1>8. AloneInv'
  BY <1>1, <1>7 DEF PushInv, AloneInv
<1>9. RowInv'
  BY <1>1, <1>3, <1>4 DEF PushInv, RowInv
<1>10. FoundInv'
  <2>. SUFFICES ASSUME NEW q \in DOMAIN req, req'[q].pc = "read"
                PROVE  /\ req'[q].found = 0 => req[q].token.of \in crossed \/ RowsOf(req[q].token)' = {}
                       /\ req'[q].found # 0 =>
                            /\ req'[q].found \in DOMAIN req /\ req'[req'[q].found].pc = "done"
                            /\ req'[q].found \in DOMAIN rows' => rows'[req'[q].found].token = req[q].token
    BY <1>1 DEF FoundInv
  <2>1. q # r /\ req'[q] = req[q] /\ req[q].pc = "read"
    BY <1>1
  <2>2. CASE req[q].found = 0
    <3>1. SUFFICES ASSUME req[q].token.of \notin crossed PROVE RowsOf(req[q].token)' = {}
      BY <2>1, <2>2
    <3>2. RowsOf(req[q].token) = {}
      BY <2>1, <2>2, <3>1 DEF PushInv, FoundInv
    <3>3. req[q].token # req[r].token
      BY <2>1, <3>1 DEF PushInv, AloneInv, UnderWay
    <3>. QED
      BY <1>1, <1>4, <3>2, <3>3 DEF RowsOf
  <2>3. CASE req[q].found # 0
    <3>1. /\ req[q].found \in DOMAIN req /\ req[req[q].found].pc = "done"
          /\ req[q].found \in DOMAIN rows => rows[req[q].found].token = req[q].token
      BY <2>1, <2>3 DEF PushInv, FoundInv
    <3>2. req[q].found # r
      BY <3>1
    <3>. QED
      BY <1>1, <1>4, <2>1, <2>3, <3>1, <3>2
  <2>. QED
    BY <2>2, <2>3
<1>11. OneRowUnlessCrossed'
  <2>1. \A i \in DOMAIN rows : rows[i].token = req[r].token => req[r].token.of \in crossed
    BY DEF PushInv, FoundInv, RowsOf
  <2>. QED
    BY <1>4, <2>1 DEF PushInv, OneRowUnlessCrossed
<1>. QED
  BY <1>5, <1>6, <1>8, <1>9, <1>10, <1>11 DEF PushInv

\* A request of the app is served or fails.
LEMMA RequestStep ==
  ASSUME PushInv, NEW r \in DOMAIN req,
         RegisterRead(r) \/ RegisterCommit(r) \/ Unregister(r) \/ RequestFails(r)
  PROVE  PushInv'
<1>1. /\ TypeOK /\ rows \in [DOMAIN rows -> Row] /\ DOMAIN rows \subseteq 1..MaxRequests
      /\ 0 \in 0..MaxRequests /\ MaxRequests \in Nat /\ req[r] \in Request
  BY PushAssumption DEF PushInv, TypeOK, Ids
<1>2. CASE RegisterRead(r)
  <2>1. UnderWay(r) /\ UNCHANGED <<rows, phone, token, notifier, crossed, quiet>>
    BY <1>2 DEF RegisterRead, UnderWay
  <2>2. CASE RowsOf(req[r].token) = {} /\ RequestIs(r, "read", 0, FALSE)
    BY <1>1, <2>1, <2>2, ProgressStep
  <2>3. CASE \E i \in RowsOf(req[r].token) : RequestIs(r, "read", i, rows[i].user = req[r].user)
    <3>1. PICK i \in RowsOf(req[r].token) : RequestIs(r, "read", i, rows[i].user = req[r].user)
      BY <2>3
    <3>2. i \in 0..MaxRequests /\ i # 0
      BY <1>1 DEF RowsOf
    <3>3. (rows[i].user = req[r].user) \in BOOLEAN
      OBVIOUS
    <3>. QED
      BY <1>1, <2>1, <3>1, <3>2, <3>3, ProgressStep
  <2>. QED
    BY <1>2, <2>2, <2>3 DEF RegisterRead
<1>3. CASE RegisterCommit(r)
  <2>1. /\ UnderWay(r) /\ req[r].pc = "read" /\ Ends(r, "done")
        /\ UNCHANGED <<phone, token, notifier, crossed, quiet>>
    BY <1>3 DEF RegisterCommit, UnderWay
  <2>2. CASE req[r].found = 0 /\ Put(r, r)
    BY <2>1, <2>2, InsertStep
  <2>3. CASE req[r].found \in DOMAIN rows /\ Put(req[r].found, r)
    <3>1. req[r].found # 0 /\ rows[req[r].found].token = req[r].token
      BY <1>1, <2>1, <2>3 DEF PushInv, FoundInv
    <3>2. [token |-> req[r].token, user |-> req[r].user] \in Row
      BY <1>1 DEF Request, Row
    <3>3. /\ DOMAIN rows' = DOMAIN rows /\ rows' \in [DOMAIN rows -> Row]
          /\ \A j \in DOMAIN rows : rows'[j].token = rows[j].token
      BY <1>1, <2>3, <3>1, <3>2 DEF Put
    <3>. QED
      BY <1>1, <2>1, <3>3, ProgressStep DEF Ends
  <2>4. CASE UNCHANGED rows
    BY <1>1, <2>1, <2>4, ProgressStep DEF Ends
  <2>. QED
    BY <1>3, <2>2, <2>3, <2>4 DEF RegisterCommit
<1>4. CASE Unregister(r)
  <2>1. PICK mine : /\ Delete(mine) /\ UnderWay(r)
                    /\ Ends(r, IF mine = {} THEN "failed" ELSE "done")
                    /\ UNCHANGED <<phone, token, notifier, crossed, quiet>>
    BY <1>4 DEF Unregister, Unregistered, UnderWay
  <2>2. /\ rows' \in [DOMAIN rows' -> Row] /\ DOMAIN rows' \subseteq DOMAIN rows
        /\ \A j \in DOMAIN rows' : rows'[j].token = rows[j].token
    BY <1>1, <2>1 DEF Delete
  <2>. QED
    BY <1>1, <2>1, <2>2, ProgressStep DEF Ends
<1>5. CASE RequestFails(r)
  BY <1>1, <1>5, ProgressStep DEF RequestFails, Ends
<1>. QED
  BY <1>2, <1>3, <1>4, <1>5

\* An alert is sent to the tokens of all rows; those that were
\* replaced or refused are deleted.
LEMMA NotifierStep ==
  ASSUME PushInv, SendAlert \/ Answered \/ Clean \/ NotifierFails
  PROVE  PushInv'
<1>1. /\ UNCHANGED <<req, phone, token, crossed, quiet>>
      /\ rows \in [DOMAIN rows -> Row] /\ notifier \in Notifier
  BY DEF SendAlert, Answered, Clean, NotifierFails, Goes, PushInv, TypeOK
<1>2. /\ rows' \in [DOMAIN rows' -> Row] /\ DOMAIN rows' \subseteq DOMAIN rows
      /\ \A j \in DOMAIN rows' : rows'[j] = rows[j]
  BY <1>1 DEF SendAlert, Answered, Clean, NotifierFails, Delete
<1>3. /\ notifier' \in Notifier
      /\ \A t \in notifier'.tokens : Issued(t) /\ Deletable(t)'
  <2>1. CASE SendAlert
    <3>. DEFINE tokens == {rows[i].token : i \in DOMAIN rows}
    <3>1. tokens \subseteq Token /\ \A t \in tokens : Issued(t)
      BY <1>1 DEF Row, PushInv, IssuedInv
    <3>2. notifier' = IF tokens = {} THEN Idle
                                       ELSE [pc |-> "send", tokens |-> tokens, refused |-> {}]
      BY <2>1 DEF SendAlert, Goes
    <3>. HIDE DEF tokens
    <3>. QED
      BY <1>1, <3>1, <3>2 DEF Idle, Notifier, Deletable, Issued
  <2>2. CASE Answered
    <3>1. PICK refused \in SUBSET notifier.tokens : Goes("clean", Invalid \cup refused, refused)
      BY <2>2 DEF Answered
    <3>. DEFINE tokens == Invalid \cup refused
    <3>2. /\ tokens \subseteq Token /\ refused \subseteq Token
          /\ \A t \in tokens : Issued(t) /\ (~Valid(t) \/ t \in refused)
      BY <1>1 DEF Notifier, PushInv, IssuedInv, Invalid
    <3>3. notifier' = IF tokens = {} THEN Idle
                                     ELSE [pc |-> "clean", tokens |-> tokens, refused |-> refused]
      BY <3>1 DEF Goes
    <3>4. \A t : Issued(t)' = Issued(t) /\ Valid(t)' = Valid(t)
      BY <1>1 DEF Issued, Valid
    <3>. HIDE DEF tokens
    <3>. QED
      BY <3>2, <3>3, <3>4 DEF Idle, Notifier, Deletable
  <2>3. CASE Clean \/ NotifierFails
    <3>1. notifier' = Idle
      BY <2>3 DEF Clean, NotifierFails, Goes
    <3>. QED
      BY <3>1 DEF Idle, Notifier
  <2>. QED
    BY <2>1, <2>2, <2>3
<1>4. TypeOK'
  BY <1>1, <1>2, <1>3 DEF PushInv, TypeOK
<1>5. IssuedInv'
  BY <1>1, <1>2, <1>3 DEF PushInv, IssuedInv, Issued
<1>6. AloneInv' /\ RowInv' /\ OneRowUnlessCrossed'
  BY <1>1, <1>2 DEF PushInv, AloneInv, RowInv, OneRowUnlessCrossed, UnderWay
<1>7. FoundInv'
  <2>1. \A t : RowsOf(t)' \subseteq RowsOf(t)
    BY <1>2 DEF RowsOf
  <2>. QED
    BY <1>1, <1>2, <2>1 DEF PushInv, FoundInv
<1>. QED
  BY <1>4, <1>5, <1>6, <1>7 DEF PushInv

\* The app starts, ends, logs in or out, or gets a new token.
LEMMA PhoneStep ==
  ASSUME PushInv, NEW p \in Phones,
         \/ AppStart(p) \/ AppClose(p) \/ Logout(p) \/ LogoutDone(p) \/ SessionLost(p)
         \/ TokenRefresh(p) \/ \E u \in Users : Login(p, u)
  PROVE  PushInv'
<1>1. /\ phone \in [Phones -> App] /\ token \in [Phones -> 1..MaxTokens]
      /\ quiet \subseteq Phones /\ MaxTokens \in Nat /\ MaxRequests \in Nat
      /\ req \in Seq(Request) /\ Len(req) \in Nat
      /\ \A q \in Phones : phone[q].known \in Nat /\ phone[q].known <= token[q] /\ token[q] \in Nat
  BY PushAssumption DEF PushInv, TypeOK, IssuedInv, App
<1>2. ASSUME NEW app \in App, AppIs(p, app), NEW n \in 1..MaxTokens, app.known <= n,
             token[p] <= n, token' = [token EXCEPT ![p] = n]
      PROVE  /\ phone' \in [Phones -> App] /\ token' \in [Phones -> 1..MaxTokens]
             /\ token'[p] = n
             /\ \A q \in Phones : token[q] <= token'[q] /\ phone'[q].known <= token'[q]
  <2>1. /\ phone' = [phone EXCEPT ![p] = app] /\ phone'[p] = app /\ token'[p] = n
        /\ \A q \in Phones \ {p} : phone'[q] = phone[q] /\ token'[q] = token[q]
    BY <1>1, <1>2 DEF AppIs
  <2>2. phone' \in [Phones -> App] /\ token' \in [Phones -> 1..MaxTokens]
    BY <1>1, <1>2, <2>1
  <2>. QED
    BY <1>1, <1>2, <2>1, <2>2
<1>3. ASSUME NEW app \in App, AppIs(p, app), UNCHANGED token, app.known <= token[p]
      PROVE  /\ phone' \in [Phones -> App] /\ token' \in [Phones -> 1..MaxTokens]
             /\ \A q \in Phones : token[q] <= token'[q] /\ phone'[q].known <= token'[q]
  <2>1. token' = [token EXCEPT ![p] = token[p]] /\ token[p] \in 1..MaxTokens /\ token[p] <= token[p]
    BY <1>1, <1>3
  <2>. QED
    BY <1>2, <1>3, <2>1
<1>4. ASSUME NEW a \in App, NEW u \in Users \cup {NoUser}, NEW n \in 0..MaxTokens,
             NEW i \in 0..MaxRequests, NEW o \in BOOLEAN
      PROVE  /\ [a EXCEPT !.open = o] \in App /\ [a EXCEPT !.open = o].known = a.known
             /\ [a EXCEPT !.open = o, !.known = n] \in App
             /\ [a EXCEPT !.open = o, !.known = n].known = n
             /\ [a EXCEPT !.open = o, !.known = n, !.logout = i] \in App
             /\ [a EXCEPT !.open = o, !.known = n, !.logout = i].known = n
             /\ [a EXCEPT !.user = u] \in App /\ [a EXCEPT !.user = u].known = a.known
             /\ [a EXCEPT !.logout = i] \in App /\ [a EXCEPT !.logout = i].known = a.known
             /\ [a EXCEPT !.user = u, !.logout = i] \in App
             /\ [a EXCEPT !.user = u, !.logout = i].known = a.known
             /\ [a EXCEPT !.known = n] \in App /\ [a EXCEPT !.known = n].known = n
  BY DEF App
<1>5. /\ phone[p] \in App /\ token[p] \in 1..MaxTokens /\ token[p] \in 0..MaxTokens
      /\ 0 \in 0..MaxTokens /\ 0 \in 0..MaxRequests /\ NoUser \in Users \cup {NoUser}
      /\ TRUE \in BOOLEAN /\ FALSE \in BOOLEAN /\ token[p] <= token[p] /\ 0 <= token[p]
      /\ phone[p].known <= token[p] /\ phone[p].known \in 0..MaxTokens
  BY <1>1 DEF App
<1>6. CASE AppStart(p)
  <2>1. CASE phone[p].user = NoUser
    <3>. DEFINE app == [phone[p] EXCEPT !.open = TRUE]
    <3>1. /\ AppIs(p, app) /\ UNCHANGED <<req, crossed, quiet, rows, token, notifier>>
          /\ app \in App /\ app.known <= token[p]
      BY <1>4, <1>5, <1>6, <2>1 DEF AppStart
    <3>. HIDE DEF app
    <3>. QED
      BY <1>1, <1>3, <3>1, AppStep
  <2>2. CASE phone[p].user # NoUser
    <3>. DEFINE app == [phone[p] EXCEPT !.open = TRUE, !.known = token[p]]
    <3>1. /\ AppIs(p, app) /\ Send("register", p, token[p]) /\ quiet' = quiet \ {p}
          /\ UNCHANGED <<rows, token, notifier>> /\ app \in App /\ app.known <= token[p]
      BY <1>4, <1>5, <1>6, <2>2 DEF AppStart
    <3>. HIDE DEF app
    <3>. QED
      BY <1>1, <1>3, <1>5, <2>2, <3>1, SendStep
  <2>. QED
    BY <2>1, <2>2
<1>7. CASE AppClose(p)
  <2>. DEFINE app == [phone[p] EXCEPT !.open = FALSE, !.known = 0, !.logout = 0]
  <2>0. app \in App /\ app.known <= token[p]
    BY <1>5 DEF App
  <2>1. /\ AppIs(p, app) /\ UNCHANGED <<req, crossed, quiet, rows, token, notifier>>
        /\ app \in App /\ app.known <= token[p]
    BY <1>7, <2>0 DEF AppClose
  <2>. HIDE DEF app
  <2>. QED
    BY <1>1, <1>3, <2>1, AppStep
<1>8. CASE Logout(p)
  <2>1. CASE phone[p].known = 0
    <3>. DEFINE app == [phone[p] EXCEPT !.user = NoUser]
    <3>0. app \in App /\ app.known <= token[p]
      BY <1>5 DEF App
    <3>1. /\ AppIs(p, app) /\ UNCHANGED <<req, crossed, quiet, rows, token, notifier>>
          /\ app \in App /\ app.known <= token[p]
      BY <1>8, <2>1, <3>0 DEF Logout
    <3>. HIDE DEF app
    <3>. QED
      BY <1>1, <1>3, <3>1, AppStep
  <2>2. CASE phone[p].known # 0
    <3>. DEFINE app == [phone[p] EXCEPT !.logout = Len(req) + 1]
    <3>1. /\ AppIs(p, app) /\ Send("unregister", p, phone[p].known) /\ phone[p].user # NoUser
          /\ UNCHANGED <<rows, token, notifier, quiet>>
      BY <1>8, <2>2 DEF Logout
    <3>2. Len(req) + 1 \in 0..MaxRequests
      BY <1>1, <3>1 DEF Send
    <3>3. app \in App /\ app.known <= token[p]
      BY <1>4, <1>5, <3>2
    <3>4. phone[p].known \in 1..MaxTokens
      BY <1>5, <2>2
    <3>. HIDE DEF app
    <3>. QED
      BY <1>1, <1>3, <1>5, <3>1, <3>3, <3>4, SendStep
  <2>. QED
    BY <2>1, <2>2
<1>9. CASE LogoutDone(p)
  <2>. DEFINE app == [phone[p] EXCEPT !.user = NoUser, !.logout = 0]
  <2>0. app \in App /\ app.known <= token[p]
    BY <1>5 DEF App
  <2>1. /\ AppIs(p, app) /\ UNCHANGED <<req, crossed, rows, token, notifier>>
        /\ app \in App /\ app.known <= token[p] /\ quiet' \subseteq Phones
    BY <1>1, <1>9, <2>0 DEF LogoutDone
  <2>. HIDE DEF app
  <2>. QED
    BY <1>1, <1>3, <2>1, AppStep
<1>10. CASE SessionLost(p) \/ \E u \in Users : Login(p, u)
  <2>1. PICK u \in Users \cup {NoUser} : AppIs(p, [phone[p] EXCEPT !.user = u])
    BY <1>10 DEF SessionLost, Login
  <2>. DEFINE app == [phone[p] EXCEPT !.user = u]
  <2>2. AppIs(p, app) /\ UNCHANGED <<req, crossed, quiet, rows, token, notifier>>
    BY <1>10, <2>1 DEF SessionLost, Login
  <2>3. app \in App /\ app.known <= token[p]
    BY <1>4, <1>5
  <2>. HIDE DEF app
  <2>. QED
    BY <1>1, <1>3, <2>2, <2>3, AppStep
<1>11. CASE TokenRefresh(p)
  <2>. DEFINE n == token[p] + 1
              app == [phone[p] EXCEPT !.known = n]
  <2>1. n \in 1..MaxTokens /\ n \in 0..MaxTokens /\ token[p] <= n /\ token' = [token EXCEPT ![p] = n]
        /\ UNCHANGED <<rows, notifier>> /\ n \in Nat
    BY <1>1, <1>5, <1>11 DEF TokenRefresh
  <2>2. CASE phone[p].known = 0
    <3>1. UNCHANGED <<phone, req, crossed, quiet>>
      BY <1>11, <2>2 DEF TokenRefresh
    <3>2. AppIs(p, phone[p]) /\ phone[p].known <= n
      BY <1>1, <2>1, <2>2, <3>1 DEF AppIs
    <3>. HIDE DEF n
    <3>3. /\ phone' \in [Phones -> App] /\ token' \in [Phones -> 1..MaxTokens]
          /\ \A q \in Phones : token[q] <= token'[q] /\ phone'[q].known <= token'[q]
      BY <1>2, <1>5, <2>1, <3>2
    <3>. QED
      BY <1>1, <2>1, <3>1, <3>3, AppStep
  <2>3. CASE phone[p].known # 0
    <3>1. /\ AppIs(p, app)
          /\ IF phone[p].user = NoUser THEN UNCHANGED <<req, crossed, quiet>>
             ELSE Send("register", p, n) /\ quiet' = quiet \ {p}
      BY <1>11, <2>3 DEF TokenRefresh
    <3>. HIDE DEF n
    <3>2. app \in App /\ app.known = n /\ n <= n
      BY <1>5, <2>1 DEF App
    <3>. HIDE DEF app
    <3>3. /\ phone' \in [Phones -> App] /\ token' \in [Phones -> 1..MaxTokens] /\ n <= token'[p]
          /\ \A q \in Phones : token[q] <= token'[q] /\ phone'[q].known <= token'[q]
      BY <1>2, <2>1, <3>1, <3>2
    <3>4. CASE phone[p].user = NoUser
      BY <1>1, <2>1, <3>1, <3>3, <3>4, AppStep
    <3>5. CASE phone[p].user # NoUser
      BY <1>1, <2>1, <3>1, <3>3, <3>5, SendStep
    <3>. QED
      BY <3>4, <3>5
  <2>. QED
    BY <2>2, <2>3
<1>. QED
  BY <1>6, <1>7, <1>8, <1>9, <1>10, <1>11

\* The inductive invariant of push tokens.
THEOREM PushInvariant == Spec => []PushInv
<1>1. PushInv /\ [Next]_vars => PushInv'
  <2>1. PushInv /\ UNCHANGED vars => PushInv'
    BY DEF vars, PushInv, TypeOK, IssuedInv, AloneInv, RowInv, FoundInv, OneRowUnlessCrossed,
           Issued, Deletable, Valid, UnderWay, RowsOf
  <2>. QED
    BY <2>1, PhoneStep, RequestStep, NotifierStep DEF Next
<1>. QED
  BY <1>1, InitPushInv, PTL DEF Spec

\* Rows, requests, apps and the notifier are well formed.
THEOREM TypeCorrect == Spec => []TypeOK
BY PushInvariant, PTL DEF PushInv

\* A token has one row as long as no two requests of its phone were under way at once
\* (register_token reads and inserts without a unique constraint).
THEOREM OneRow == Spec => []OneRowUnlessCrossed
BY PushInvariant, PTL DEF PushInv

\* The row of a token that is in use disappears only when the user it belongs to
\* unregisters it, or in the clean-up after FCM has refused a message to it
\* (_cleanup_invalid_tokens, unregister_token).
THEOREM LiveRowsStay == Spec => LiveTokenKept
<1>1. ASSUME PushInv, [Next]_vars
      PROVE  [\A i \in DOMAIN rows : Valid(rows[i].token) /\ i \notin DOMAIN rows' =>
               Unregisters(i) \/ (notifier.pc = "clean" /\ rows[i].token \in notifier.refused)]_vars
  <2>. SUFFICES ASSUME Next, NEW i \in DOMAIN rows, Valid(rows[i].token), i \notin DOMAIN rows'
                PROVE  Unregisters(i) \/ (notifier.pc = "clean" /\ rows[i].token \in notifier.refused)
    BY <1>1
  <2>1. CASE \E r \in DOMAIN req : Unregister(r)
    <3>1. PICK r \in DOMAIN req : Unregister(r)
      BY <2>1
    <3>. DEFINE mine == {j \in RowsOf(req[r].token) : rows[j].user = req[r].user}
    <3>2. /\ req[r].kind = "unregister" /\ UnderWay(r) /\ Delete(mine)
          /\ Ends(r, IF mine = {} THEN "failed" ELSE "done")
      BY <3>1 DEF Unregister, Unregistered, UnderWay
    <3>3. i \in mine
      BY <3>2 DEF Delete
    <3>4. Ends(r, "done")
      BY <3>2, <3>3
    <3>5. req'[r].pc = "done"
      <4>1. TypeOK /\ 0 \in 0..MaxRequests /\ FALSE \in BOOLEAN /\ RequestIs(r, "done", 0, FALSE)
        BY <1>1, <3>4, PushAssumption DEF Ends, PushInv, RequestIs
      <4>. QED
        BY <4>1, RequestFacts
    <3>. QED
      BY <3>2, <3>3, <3>5 DEF RowsOf, Unregisters
  <2>2. CASE Clean
    <3>1. rows[i].token \in notifier.tokens /\ notifier.pc = "clean"
      BY <2>2 DEF Clean, Delete, RowsOf
    <3>. QED
      BY <1>1, <3>1 DEF PushInv, IssuedInv, Deletable
  <2>3. CASE ~Clean /\ ~\E r \in DOMAIN req : Unregister(r)
    <3>1. DOMAIN rows \subseteq DOMAIN rows'
      <4>1. CASE \E r \in DOMAIN req : RegisterCommit(r)
        BY <4>1 DEF RegisterCommit, Put
      <4>2. CASE UNCHANGED rows
        BY <4>2
      <4>. QED
        BY <2>3, <4>1, <4>2 DEF Next, AppStart, AppClose, Login, Logout, LogoutDone, SessionLost,
             TokenRefresh, RegisterRead, RequestFails, SendAlert, Answered, NotifierFails, Goes
    <3>. QED
      BY <3>1
  <2>. QED
    BY <2>1, <2>2, <2>3
<1>. QED
  BY <1>1, PushInvariant, PTL DEF Spec, LiveTokenKept

-----------------------------------------------------------------------------
(***************************************************************************)
(* A phone that has logged out is left alone.  QuietInv is inductive       *)
(* relative to PushInv: it says what may still happen to the token between *)
(* the commit of unregister_token and the end of logout(), and after it.   *)
(***************************************************************************)
\* The token of the phone has no row, and no request that could insert one.
Silent(p) ==
  /\ RowsOf(Current(p)) = {}
  /\ \A q \in DOMAIN req : UnderWay(q) /\ req[q].kind = "register" => req[q].token # Current(p)

\* logout() waits for a request that unregisters a token of the phone; when that is
\* done, and was alone, the phone is silent unless FCM has given it a new token.
Waits(p) ==
  LET r == phone[p].logout
  IN /\ phone[p].open /\ r \in DOMAIN req /\ req[r].kind = "unregister" /\ req[r].token.of = p
     /\ req[r].pc = "done" /\ req[r].token = Current(p) /\ p \notin crossed => Silent(p)

QuietInv ==
  /\ \A r \in DOMAIN req : req[r].pc = "read" => req[r].kind = "register"
  /\ \A p \in Phones : phone[p].logout # 0 => Waits(p)
  /\ \A p \in quiet : Silent(p)

\* Nobody has logged out yet.
LEMMA InitQuietInv == Init => QuietInv
<1>. SUFFICES ASSUME Init PROVE QuietInv
  OBVIOUS
<1>1. DOMAIN req = {} /\ quiet = {}
  BY DEF Init
<1>2. \A p \in Phones : phone[p].logout = 0
  BY DEF Init
<1>. QED
  BY <1>1, <1>2 DEF QuietInv

-----------------------------------------------------------------------------
\* A step of one request does not change what it asks for.
LEMMA RequestKinds ==
  ASSUME TypeOK, NEW r \in DOMAIN req, NEW pc \in {"read", "done", "failed"},
         NEW i \in 0..MaxRequests, NEW same \in BOOLEAN, RequestIs(r, pc, i, same)
  PROVE  \A q \in DOMAIN req : req'[q].kind = req[q].kind
<1>. DEFINE new == [req[r] EXCEPT !.pc = pc, !.found = i, !.same = same]
<1>1. req \in Seq(Request) /\ req[r] \in Request
  BY DEF TypeOK
<1>2. new.kind = req[r].kind
  BY <1>1 DEF Request
<1>3. req' = [req EXCEPT ![r] = new]
  BY DEF RequestIs
<1>. HIDE DEF new
<1>. QED
  BY <1>1, <1>2, <1>3

\* What serving a request does to the requests.
LEMMA ServedRequests ==
  ASSUME TypeOK, NEW r \in DOMAIN req,
         RegisterRead(r) \/ RegisterCommit(r) \/ Unregister(r) \/ RequestFails(r)
  PROVE  /\ UnderWay(r) /\ UNCHANGED <<phone, token, notifier, crossed, quiet>>
         /\ DOMAIN req' = DOMAIN req
         /\ \A q \in DOMAIN req \ {r} : req'[q] = req[q]
         /\ \A q \in DOMAIN req : req'[q].token = req[q].token /\ req'[q].kind = req[q].kind
         /\ req'[r].pc = "read" => req[r].kind = "register"
         /\ req'[r].pc = "done" =>
              \/ req[r].pc = "read"
              \/ /\ Delete({i \in RowsOf(req[r].token) : rows[i].user = req[r].user})
                 /\ {i \in RowsOf(req[r].token) : rows[i].user = req[r].user} # {}
<1>. DEFINE mine == {i \in RowsOf(req[r].token) : rows[i].user = req[r].user}
<1>1. UnderWay(r) /\ UNCHANGED <<phone, token, notifier, crossed, quiet>>
  BY DEF RegisterRead, RegisterCommit, Unregister, Unregistered, RequestFails, UnderWay
<1>2. \E pc \in {"read", "done", "failed"}, i \in 0..MaxRequests, same \in BOOLEAN :
        /\ RequestIs(r, pc, i, same)
        /\ pc = "read" => req[r].kind = "register"
        /\ pc = "done" => req[r].pc = "read" \/ (Delete(mine) /\ mine # {})
  <2>0. 0 \in 0..MaxRequests /\ FALSE \in BOOLEAN
    BY PushAssumption
  <2>1. CASE RegisterRead(r)
    <3>1. CASE RequestIs(r, "read", 0, FALSE)
      BY <2>0, <2>1, <3>1 DEF RegisterRead
    <3>2. CASE \E i \in RowsOf(req[r].token) : RequestIs(r, "read", i, rows[i].user = req[r].user)
      <4>1. PICK i \in RowsOf(req[r].token) : RequestIs(r, "read", i, rows[i].user = req[r].user)
        BY <3>2
      <4>2. i \in 0..MaxRequests /\ (rows[i].user = req[r].user) \in BOOLEAN
        BY PushAssumption DEF RowsOf, TypeOK, Ids
      <4>. QED
        BY <2>1, <4>1, <4>2 DEF RegisterRead
    <3>. QED
      BY <2>1, <3>1, <3>2 DEF RegisterRead
  <2>2. CASE RegisterCommit(r)
    <3>1. RequestIs(r, "done", 0, FALSE) /\ req[r].pc = "read"
      BY <2>2 DEF RegisterCommit, Ends
    <3>. HIDE DEF mine
    <3>. QED
      BY <2>0, <3>1
  <2>3. CASE Unregister(r)
    <3>1. Delete(mine) /\ Ends(r, IF mine = {} THEN "failed" ELSE "done")
      BY <2>3 DEF Unregister, Unregistered
    <3>. HIDE DEF mine
    <3>. QED
      BY <2>0, <3>1 DEF Ends
  <2>4. CASE RequestFails(r)
    BY <2>0, <2>4 DEF RequestFails, Ends
  <2>. QED
    BY <2>1, <2>2, <2>3, <2>4
<1>. HIDE DEF mine
<1>3. PICK pc \in {"read", "done", "failed"}, i \in 0..MaxRequests, same \in BOOLEAN :
        /\ RequestIs(r, pc, i, same)
        /\ pc = "read" => req[r].kind = "register"
        /\ pc = "done" => req[r].pc = "read" \/ (Delete(mine) /\ mine # {})
  BY <1>2
<1>4. /\ DOMAIN req' = DOMAIN req /\ req'[r].pc = pc
      /\ \A q \in DOMAIN req \ {r} : req'[q] = req[q]
      /\ \A q \in DOMAIN req : req'[q].token = req[q].token /\ req'[q].kind = req[q].kind
  BY <1>3, RequestFacts, RequestKinds
<1>. QED
  BY <1>1, <1>3, <1>4 DEF mine

\* A token gets a first row only from a register_token that was under way for it.
LEMMA ServedRows ==
  ASSUME PushInv, NEW r \in DOMAIN req,
         RegisterRead(r) \/ RegisterCommit(r) \/ Unregister(r) \/ RequestFails(r), NEW t
  PROVE  RowsOf(t)' # {} => RowsOf(t) # {} \/ (req[r].pc = "read" /\ t = req[r].token)
<1>1. CASE RegisterCommit(r) /\ ~UNCHANGED rows
  <2>1. PICK id \in {r, req[r].found} : Put(id, r) /\ req[r].pc = "read"
    BY <1>1 DEF RegisterCommit
  <2>2. \A i \in DOMAIN rows' :
          rows'[i].token = req[r].token \/ (i \in DOMAIN rows /\ rows'[i] = rows[i])
    BY <2>1 DEF Put
  <2>. QED
    BY <2>1, <2>2 DEF RowsOf
<1>2. CASE DOMAIN rows' \subseteq DOMAIN rows /\ \A i \in DOMAIN rows' : rows'[i] = rows[i]
  BY <1>2 DEF RowsOf
<1>. QED
  BY <1>1, <1>2 DEF RegisterRead, Unregister, Unregistered, Delete, RequestFails

\* When a token is unregistered by a request that was alone, no row is left of it.
LEMMA UnregisteredAll ==
  ASSUME PushInv, QuietInv, NEW r \in DOMAIN req,
         RegisterRead(r) \/ RegisterCommit(r) \/ Unregister(r) \/ RequestFails(r),
         req[r].kind = "unregister", req'[r].pc = "done", req[r].token.of \notin crossed
  PROVE  \A i \in DOMAIN rows' : rows'[i].token # req[r].token
<1>. DEFINE mine == {i \in RowsOf(req[r].token) : rows[i].user = req[r].user}
<1>1. TypeOK
  BY DEF PushInv
<1>2. req[r].pc # "read"
  BY DEF QuietInv
<1>3. Delete(mine) /\ mine # {}
  BY <1>1, <1>2, ServedRequests
<1>4. PICK i \in mine : TRUE
  BY <1>3
<1>5. RowsOf(req[r].token) = {i}
  BY <1>4 DEF RowsOf, PushInv, OneRowUnlessCrossed
<1>6. mine = {i}
  BY <1>4, <1>5
<1>. HIDE DEF mine
<1>7. i \notin DOMAIN rows' /\ \A j \in DOMAIN rows' : j \in DOMAIN rows /\ rows'[j] = rows[j]
  BY <1>3, <1>6 DEF Delete
<1>. QED
  BY <1>5, <1>7 DEF RowsOf

\* A request is served.
LEMMA ServedQuiet ==
  ASSUME PushInv, QuietInv, NEW r \in DOMAIN req,
         RegisterRead(r) \/ RegisterCommit(r) \/ Unregister(r) \/ RequestFails(r)
  PROVE  QuietInv'
<1>1. /\ UnderWay(r) /\ UNCHANGED <<phone, token, notifier, crossed, quiet>>
      /\ DOMAIN req' = DOMAIN req
      /\ \A q \in DOMAIN req \ {r} : req'[q] = req[q]
      /\ \A q \in DOMAIN req : req'[q].token = req[q].token /\ req'[q].kind = req[q].kind
      /\ req'[r].pc = "read" => req[r].kind = "register"
  BY ServedRequests DEF PushInv
<1>2. \A q \in DOMAIN req : UnderWay(q)' => UnderWay(q)
  BY <1>1 DEF UnderWay
<1>3. \A p \in Phones : Current(p)' = Current(p)
  BY <1>1 DEF Current
<1>4. ASSUME NEW p \in Phones, Silent(p)
      PROVE  Silent(p)'
  <2>1. RowsOf(Current(p))' = {}
    <3>1. RowsOf(Current(p)) = {} /\ (req[r].pc = "read" => req[r].token # Current(p))
      BY <1>1, <1>4 DEF Silent, QuietInv
    <3>. QED
      BY <1>3, <3>1, ServedRows
  <2>2. \A q \in DOMAIN req' : UnderWay(q)' /\ req'[q].kind = "register" => req'[q].token # Current(p)
    BY <1>1, <1>2, <1>4 DEF Silent
  <2>. QED
    BY <1>3, <2>1, <2>2 DEF Silent
<1>5. ASSUME NEW p \in Phones, phone[p].logout # 0
      PROVE  Waits(p)'
  <2>. DEFINE l == phone[p].logout
  <2>1. /\ phone[p].open /\ l \in DOMAIN req /\ req[l].kind = "unregister" /\ req[l].token.of = p
        /\ req[l].pc = "done" /\ req[l].token = Current(p) /\ p \notin crossed => Silent(p)
    BY <1>5 DEF QuietInv, Waits
  <2>2. ASSUME req'[l].pc = "done", req[l].token = Current(p), p \notin crossed
        PROVE  Silent(p)'
    <3>1. CASE l # r
      BY <1>1, <1>4, <2>1, <2>2, <3>1
    <3>2. CASE l = r
      <4>1. RowsOf(Current(p))' = {}
        <5>1. \A i \in DOMAIN rows' : rows'[i].token # req[r].token
          BY <2>1, <2>2, <3>2, UnregisteredAll
        <5>. QED
          BY <1>3, <2>2, <3>2, <5>1 DEF RowsOf
      <4>2. \A q \in DOMAIN req : UnderWay(q) /\ q # r => req[q].token # Current(p)
        BY <1>1, <2>1, <2>2, <3>2 DEF PushInv, AloneInv
      <4>3. ~UnderWay(r)'
        BY <2>2, <3>2 DEF UnderWay
      <4>. QED
        BY <1>1, <1>2, <1>3, <4>1, <4>2, <4>3 DEF Silent
    <3>. QED
      BY <3>1, <3>2
  <2>. QED
    BY <1>1, <1>3, <2>1, <2>2 DEF Waits
<1>6. \A q \in DOMAIN req' : req'[q].pc = "read" => req'[q].kind = "register"
  BY <1>1 DEF QuietInv
<1>7. \A p \in quiet' : Silent(p)'
  BY <1>1, <1>4 DEF QuietInv, PushInv, TypeOK
<1>. QED
  BY <1>1, <1>5, <1>6, <1>7 DEF QuietInv

\* The notifier sends to the rows and deletes some.
LEMMA NotifierQuiet ==
  ASSUME PushInv, QuietInv, SendAlert \/ Answered \/ Clean \/ NotifierFails
  PROVE  QuietInv'
<1>1. UNCHANGED <<req, phone, token, crossed, quiet>>
  BY DEF SendAlert, Answered, Clean, NotifierFails, Goes
<1>2. DOMAIN rows' \subseteq DOMAIN rows /\ \A j \in DOMAIN rows' : rows'[j] = rows[j]
  BY DEF SendAlert, Answered, Clean, NotifierFails, Delete
<1>3. \A p : Silent(p) => Silent(p)'
  BY <1>1, <1>2 DEF Silent, RowsOf, Current, UnderWay
<1>4. \A p : Waits(p) => Waits(p)'
  BY <1>1, <1>3 DEF Waits, Current
<1>. QED
  BY <1>1, <1>3, <1>4 DEF QuietInv

-----------------------------------------------------------------------------
\* A new token is silent, and a phone stays silent unless it registers a token.
LEMMA StaysSilent ==
  ASSUME PushInv, UNCHANGED rows, NEW p \in Phones, token'[p] \in Nat,
         (Silent(p) /\ token'[p] = token[p]) \/ token'[p] > token[p],
         \A r \in DOMAIN req : req'[r] = req[r],
         \A r \in DOMAIN req' \ DOMAIN req :
           req'[r].kind = "register" => req'[r].token.of # p
  PROVE  Silent(p)'
<1>1. /\ \A i \in DOMAIN rows : rows[i].token \in Token /\ Issued(rows[i].token)
      /\ \A r \in DOMAIN req : req[r].token \in Token /\ Issued(req[r].token)
  BY IssuedTypes
<1>2. Current(p)'.of = p /\ Current(p)'.n = token'[p]
  BY DEF Current
<1>3. CASE token'[p] > token[p]
  <2>1. token[p] \in Nat
    BY PushAssumption DEF PushInv, TypeOK
  <2>2. ASSUME NEW t \in Token, Issued(t)
        PROVE  t # Current(p)'
    BY <1>2, <1>3, <2>1, <2>2, PushAssumption DEF Token, Issued
  <2>3. RowsOf(Current(p))' = {}
    BY <1>1, <2>2 DEF RowsOf
  <2>. QED
    BY <1>1, <1>2, <2>2, <2>3 DEF Silent
<1>4. CASE Silent(p) /\ token'[p] = token[p]
  <2>1. Current(p)' = Current(p) /\ RowsOf(Current(p))' = RowsOf(Current(p))
    BY <1>4 DEF Current, RowsOf
  <2>2. \A r \in DOMAIN req : UnderWay(r)' = UnderWay(r)
    BY DEF UnderWay
  <2>. QED
    BY <1>2, <1>4, <2>1, <2>2 DEF Silent
<1>. QED
  BY <1>3, <1>4

\* The request that the app sends.
LEMMA SendFacts ==
  ASSUME TypeOK, NEW kind \in {"register", "unregister"}, NEW p \in Phones, NEW n \in Nat,
         Send(kind, p, n)
  PROVE  /\ DOMAIN req' = DOMAIN req \cup {Len(req) + 1} /\ Len(req) + 1 \notin DOMAIN req
         /\ Len(req) \in Nat
         /\ \A r \in DOMAIN req : req'[r] = req[r]
         /\ req'[Len(req) + 1].kind = kind /\ req'[Len(req) + 1].token = [of |-> p, n |-> n]
         /\ req'[Len(req) + 1].pc = "sent"
         /\ crossed \subseteq crossed'
<1>. DEFINE new == [kind |-> kind, token |-> [of |-> p, n |-> n], user |-> phone[p].user,
                    pc |-> "sent", found |-> 0, same |-> FALSE]
<1>1. req \in Seq(Request) /\ Len(req) \in Nat /\ DOMAIN req = 1..Len(req)
  BY DEF TypeOK
<1>2. new.kind = kind /\ new.token = [of |-> p, n |-> n] /\ new.pc = "sent"
  OBVIOUS
<1>3. req' = Append(req, new) /\ crossed \subseteq crossed'
  BY DEF Send
<1>. HIDE DEF new
<1>4. /\ DOMAIN req' = 1..(Len(req) + 1) /\ req'[Len(req) + 1] = new
      /\ \A r \in DOMAIN req : req'[r] = req[r]
  BY <1>1, <1>3
<1>. QED
  BY <1>1, <1>2, <1>3, <1>4

\* A step of one phone, which may have sent a request.
LEMMA OnePhoneQuiet ==
  ASSUME PushInv, QuietInv, NEW p \in Phones, UNCHANGED rows,
         \A q \in Phones \ {p} : phone'[q] = phone[q] /\ token'[q] = token[q],
         DOMAIN req \subseteq DOMAIN req', \A r \in DOMAIN req : req'[r] = req[r],
         \A r \in DOMAIN req' \ DOMAIN req : req'[r].pc = "sent" /\ req'[r].token.of = p,
         crossed \subseteq crossed', quiet' \subseteq quiet \cup {p},
         p \in quiet' => Silent(p)', phone'[p].logout # 0 => Waits(p)'
  PROVE  QuietInv'
<1>1. \A r \in DOMAIN req' : req'[r].pc = "read" => req'[r].kind = "register"
  BY DEF QuietInv
<1>2. ASSUME NEW q \in Phones \ {p}, Silent(q)
      PROVE  Silent(q)'
  <2>1. token'[q] = token[q] /\ token[q] \in Nat
    BY PushAssumption DEF PushInv, TypeOK
  <2>. QED
    BY <1>2, <2>1, StaysSilent
<1>3. ASSUME NEW q \in Phones \ {p}, phone'[q].logout # 0
      PROVE  Waits(q)'
  <2>1. phone'[q] = phone[q] /\ Waits(q) /\ Current(q)' = Current(q)
    BY <1>3 DEF QuietInv, Current
  <2>. QED
    BY <1>2, <2>1 DEF Waits
<1>4. \A q \in quiet' : q \in Phones
  BY DEF PushInv, TypeOK
<1>. QED
  BY <1>1, <1>2, <1>3, <1>4 DEF QuietInv

\* What the app writes about its logout.
LEMMA AppLogouts ==
  ASSUME NEW a \in App, NEW o \in BOOLEAN, NEW n \in Nat, NEW u \in Users \cup {NoUser}, NEW i \in Nat
  PROVE  /\ [a EXCEPT !.open = o].logout = a.logout
         /\ [a EXCEPT !.open = o, !.known = n].logout = a.logout
         /\ [a EXCEPT !.open = o, !.known = n, !.logout = i].logout = i
         /\ [a EXCEPT !.user = u].logout = a.logout /\ [a EXCEPT !.user = u].open = a.open
         /\ [a EXCEPT !.logout = i].logout = i /\ [a EXCEPT !.logout = i].open = a.open
         /\ [a EXCEPT !.user = u, !.logout = i].logout = i
         /\ [a EXCEPT !.known = n].logout = a.logout /\ [a EXCEPT !.known = n].open = a.open
BY DEF App

\* A step of the app.
LEMMA PhoneQuiet ==
  ASSUME PushInv, QuietInv, NEW p \in Phones,
         \/ AppStart(p) \/ AppClose(p) \/ Logout(p) \/ LogoutDone(p) \/ SessionLost(p)
         \/ TokenRefresh(p) \/ \E u \in Users : Login(p, u)
  PROVE  QuietInv'
<1>1. /\ TypeOK /\ phone \in [Phones -> App] /\ token \in [Phones -> 1..MaxTokens]
      /\ phone[p] \in App /\ token[p] \in Nat /\ quiet \subseteq Phones
  BY PushAssumption DEF PushInv, TypeOK
<1>2. phone[p].logout # 0 => Waits(p)
  BY DEF QuietInv
<1>3. ASSUME NEW app, AppIs(p, app)
      PROVE  phone'[p] = app /\ \A q \in Phones \ {p} : phone'[q] = phone[q]
  BY <1>1, <1>3 DEF AppIs
<1>4. ASSUME UNCHANGED <<rows, req, token>>, Silent(p)
      PROVE  Silent(p)'
  BY <1>1, <1>4, StaysSilent
<1>5. CASE AppStart(p)
  <2>1. phone[p].logout = 0
    BY <1>2, <1>5 DEF AppStart, Waits
  <2>2. CASE phone[p].user = NoUser
    <3>. DEFINE app == [phone[p] EXCEPT !.open = TRUE]
    <3>0. app.logout = phone[p].logout
      BY <1>1, AppLogouts
    <3>1. /\ AppIs(p, app)
          /\ UNCHANGED <<req, crossed, quiet, rows, token, notifier>>
      BY <1>5, <2>2 DEF AppStart
    <3>. HIDE DEF app
    <3>2. phone'[p].logout = 0 /\ \A q \in Phones \ {p} : phone'[q] = phone[q]
      BY <1>3, <2>1, <3>0, <3>1
    <3>3. p \in quiet' => Silent(p)'
      BY <1>4, <3>1 DEF QuietInv
    <3>. QED
      BY <3>1, <3>2, <3>3, OnePhoneQuiet
  <2>3. CASE phone[p].user # NoUser
    <3>. DEFINE app == [phone[p] EXCEPT !.open = TRUE, !.known = token[p]]
    <3>0. app.logout = phone[p].logout
      BY <1>1, AppLogouts
    <3>1. /\ AppIs(p, app)
          /\ Send("register", p, token[p]) /\ quiet' = quiet \ {p} /\ UNCHANGED <<rows, token>>
      BY <1>5, <2>3 DEF AppStart
    <3>. HIDE DEF app
    <3>2. phone'[p].logout = 0 /\ \A q \in Phones \ {p} : phone'[q] = phone[q]
      BY <1>3, <2>1, <3>0, <3>1
    <3>3. /\ DOMAIN req \subseteq DOMAIN req' /\ \A r \in DOMAIN req : req'[r] = req[r]
          /\ \A r \in DOMAIN req' \ DOMAIN req : req'[r].pc = "sent" /\ req'[r].token.of = p
          /\ crossed \subseteq crossed'
      <4>1. /\ DOMAIN req' = DOMAIN req \cup {Len(req) + 1}
            /\ \A r \in DOMAIN req : req'[r] = req[r]
            /\ req'[Len(req) + 1].token = [of |-> p, n |-> token[p]]
            /\ req'[Len(req) + 1].pc = "sent" /\ crossed \subseteq crossed'
        BY <1>1, <3>1, SendFacts
      <4>. QED
        BY <4>1
    <3>. QED
      BY <3>1, <3>2, <3>3, OnePhoneQuiet
  <2>. QED
    BY <2>2, <2>3
<1>6. CASE AppClose(p)
  <2>. DEFINE app == [phone[p] EXCEPT !.open = FALSE, !.known = 0, !.logout = 0]
  <2>0. app.logout = 0
    BY <1>1, AppLogouts
  <2>1. /\ AppIs(p, app)
        /\ UNCHANGED <<req, crossed, quiet, rows, token>>
    BY <1>6 DEF AppClose
  <2>. HIDE DEF app
  <2>2. phone'[p].logout = 0 /\ \A q \in Phones \ {p} : phone'[q] = phone[q]
    BY <1>3, <2>0, <2>1
  <2>3. p \in quiet' => Silent(p)'
    BY <1>4, <2>1 DEF QuietInv
  <2>. QED
    BY <2>1, <2>2, <2>3, OnePhoneQuiet
<1>7. CASE SessionLost(p) \/ \E u \in Users : Login(p, u)
  <2>1. PICK u \in Users \cup {NoUser} : AppIs(p, [phone[p] EXCEPT !.user = u])
    BY <1>7 DEF SessionLost, Login
  <2>. DEFINE app == [phone[p] EXCEPT !.user = u]
  <2>0. AppIs(p, app) /\ app.logout = phone[p].logout /\ app.open = phone[p].open
    BY <1>1, <2>1, AppLogouts
  <2>. HIDE DEF app
  <2>2. UNCHANGED <<req, crossed, quiet, rows, token>>
    BY <1>7 DEF SessionLost, Login
  <2>3. /\ phone'[p].logout = phone[p].logout /\ phone'[p].open = phone[p].open
        /\ \A q \in Phones \ {p} : phone'[q] = phone[q]
    BY <1>3, <2>0
  <2>4. p \in quiet' => Silent(p)'
    BY <1>4, <2>2 DEF QuietInv
  <2>5. phone'[p].logout # 0 => Waits(p)'
    BY <1>2, <1>4, <2>2, <2>3 DEF Waits, Current
  <2>. QED
    BY <2>2, <2>3, <2>4, <2>5, OnePhoneQuiet
<1>8. CASE Logout(p)
  <2>0. phone[p].logout = 0
    BY <1>8 DEF Logout
  <2>1. CASE phone[p].known = 0
    <3>. DEFINE app == [phone[p] EXCEPT !.user = NoUser]
    <3>0. app.logout = phone[p].logout
      BY <1>1, AppLogouts
    <3>1. /\ AppIs(p, app)
          /\ UNCHANGED <<req, crossed, quiet, rows, token>>
      BY <1>8, <2>1 DEF Logout
    <3>. HIDE DEF app
    <3>2. phone'[p].logout = 0 /\ \A q \in Phones \ {p} : phone'[q] = phone[q]
      BY <1>3, <2>0, <3>0, <3>1
    <3>3. p \in quiet' => Silent(p)'
      BY <1>4, <3>1 DEF QuietInv
    <3>. QED
      BY <3>1, <3>2, <3>3, OnePhoneQuiet
  <2>2. CASE phone[p].known # 0
    <3>. DEFINE l == Len(req) + 1
                app == [phone[p] EXCEPT !.logout = l]
    <3>0. app.logout = l /\ app.open = phone[p].open /\ phone[p].known \in Nat
      BY <1>1, PushAssumption, AppLogouts DEF TypeOK, App
    <3>1. /\ AppIs(p, app)
          /\ Send("unregister", p, phone[p].known) /\ UNCHANGED <<quiet, rows, token>>
      BY <1>8, <2>2 DEF Logout
    <3>2. /\ DOMAIN req' = DOMAIN req \cup {l} /\ l \notin DOMAIN req
          /\ \A r \in DOMAIN req : req'[r] = req[r]
          /\ req'[l].kind = "unregister" /\ req'[l].token = [of |-> p, n |-> phone[p].known]
          /\ req'[l].pc = "sent" /\ crossed \subseteq crossed'
      BY <1>1, <3>0, <3>1, SendFacts
    <3>. HIDE DEF l, app
    <3>3. /\ phone'[p].logout = l /\ phone'[p].open = phone[p].open
          /\ \A q \in Phones \ {p} : phone'[q] = phone[q]
      BY <1>3, <3>0, <3>1
    <3>4. p \in quiet' => Silent(p)'
      <4>1. SUFFICES ASSUME p \in quiet PROVE Silent(p)'
        BY <3>1
      <4>2. Silent(p) /\ token'[p] = token[p]
        BY <3>1, <4>1 DEF QuietInv
      <4>. QED
        BY <1>1, <3>1, <3>2, <4>2, StaysSilent
    <3>5. Waits(p)'
      <4>1. phone[p].open
        BY <1>8 DEF Logout
      <4>2. req'[l].token.of = p /\ req'[l].pc # "done"
        BY <3>2
      <4>. QED
        BY <3>2, <3>3, <4>1, <4>2 DEF Waits
    <3>6. \A r \in DOMAIN req' \ DOMAIN req : req'[r].pc = "sent" /\ req'[r].token.of = p
      BY <3>2
    <3>. QED
      BY <3>1, <3>2, <3>3, <3>4, <3>5, <3>6, OnePhoneQuiet
  <2>. QED
    BY <2>1, <2>2
<1>9. CASE LogoutDone(p)
  <2>. DEFINE app == [phone[p] EXCEPT !.user = NoUser, !.logout = 0]
  <2>0. app.logout = 0
    BY <1>1, AppLogouts
  <2>1. /\ AppIs(p, app)
        /\ UNCHANGED <<req, crossed, rows, token>> /\ phone[p].logout # 0
        /\ quiet' = IF /\ req[phone[p].logout].pc = "done"
                       /\ req[phone[p].logout].token = Current(p) /\ p \notin crossed
                    THEN quiet \cup {p} ELSE quiet
    BY <1>9 DEF LogoutDone
  <2>. HIDE DEF app
  <2>2. phone'[p].logout = 0 /\ \A q \in Phones \ {p} : phone'[q] = phone[q]
    BY <1>3, <2>0, <2>1
  <2>3. p \in quiet' => Silent(p)
    BY <1>2, <2>1 DEF QuietInv, Waits
  <2>4. p \in quiet' => Silent(p)'
    BY <1>4, <2>1, <2>3
  <2>. QED
    BY <2>1, <2>2, <2>4, OnePhoneQuiet
<1>10. CASE TokenRefresh(p)
  <2>. DEFINE n == token[p] + 1
              app == [phone[p] EXCEPT !.known = n]
  <2>0. app.logout = phone[p].logout /\ app.open = phone[p].open
    BY <1>1, AppLogouts
  <2>1. /\ token' = [token EXCEPT ![p] = n] /\ UNCHANGED rows
        /\ IF phone[p].known = 0 THEN UNCHANGED <<phone, req, crossed, quiet>>
           ELSE /\ AppIs(p, app)
                /\ IF phone[p].user = NoUser THEN UNCHANGED <<req, crossed, quiet>>
                   ELSE Send("register", p, n) /\ quiet' = quiet \ {p}
    BY <1>10 DEF TokenRefresh
  <2>2. token'[p] = n /\ n \in Nat /\ n > token[p]
        /\ \A q \in Phones \ {p} : token'[q] = token[q]
    BY <1>1, <2>1
  <2>. HIDE DEF n, app
  <2>3. /\ phone'[p].logout = phone[p].logout /\ phone'[p].open = phone[p].open
        /\ \A q \in Phones \ {p} : phone'[q] = phone[q]
    BY <1>3, <2>0, <2>1
  <2>4. /\ DOMAIN req \subseteq DOMAIN req' /\ \A r \in DOMAIN req : req'[r] = req[r]
        /\ \A r \in DOMAIN req' \ DOMAIN req : req'[r].pc = "sent" /\ req'[r].token.of = p
        /\ crossed \subseteq crossed' /\ quiet' \subseteq quiet
        /\ p \in quiet' => UNCHANGED req
    <3>1. CASE UNCHANGED <<req, crossed, quiet>>
      BY <3>1
    <3>2. CASE Send("register", p, n) /\ quiet' = quiet \ {p}
      <4>1. /\ DOMAIN req' = DOMAIN req \cup {Len(req) + 1}
            /\ \A r \in DOMAIN req : req'[r] = req[r]
            /\ req'[Len(req) + 1].token = [of |-> p, n |-> n]
            /\ req'[Len(req) + 1].pc = "sent" /\ crossed \subseteq crossed'
        BY <1>1, <2>2, <3>2, SendFacts
      <4>. QED
        BY <3>2, <4>1
    <3>. QED
      BY <2>1, <3>1, <3>2
  <2>5. p \in quiet' => Silent(p)'
    BY <2>1, <2>2, <2>4, StaysSilent
  <2>6. phone'[p].logout # 0 => Waits(p)'
    <3>1. SUFFICES ASSUME phone[p].logout # 0 PROVE Waits(p)'
      BY <2>3
    <3>. DEFINE l == phone[p].logout
    <3>2. phone[p].open /\ l \in DOMAIN req /\ req[l].kind = "unregister" /\ req[l].token.of = p
      BY <1>2, <3>1 DEF Waits
    <3>3. req[l].token # Current(p)'
      <4>1. req[l].token \in Token /\ Issued(req[l].token)
        BY <3>2, IssuedTypes
      <4>. QED
        BY <1>1, <2>2, <3>2, <4>1, PushAssumption DEF Issued, Token, Current
    <3>4. req'[l] = req[l] /\ l \in DOMAIN req' /\ phone'[p].logout = l /\ phone'[p].open
      BY <2>3, <2>4, <3>2
    <3>. HIDE DEF l
    <3>. QED
      BY <3>2, <3>3, <3>4 DEF Waits
  <2>. QED
    BY <2>1, <2>2, <2>3, <2>4, <2>5, <2>6, OnePhoneQuiet
<1>. QED
  BY <1>5, <1>6, <1>7, <1>8, <1>9, <1>10

\* The invariant of phones that log out.
THEOREM QuietInvariant == Spec => []QuietInv
<1>1. PushInv /\ QuietInv /\ [Next]_vars => QuietInv'
  <2>1. PushInv /\ QuietInv /\ UNCHANGED vars => QuietInv'
    BY DEF vars, QuietInv, Waits, Silent, RowsOf, Current, UnderWay
  <2>. QED
    BY <2>1, PhoneQuiet, ServedQuiet, NotifierQuiet DEF Next
<1>. QED
  BY <1>1, InitQuietInv, PushInvariant, PTL DEF Spec

\* A phone whose unregister request was answered, and whose requests never
\* overlapped, has no row until it registers again: what FCM sends it after
\* logout() is nothing (auth_provider.dart awaits unregisterToken first).
THEOREM LoggedOutIsQuiet == Spec => []QuietAfterLogout
<1>1. QuietInv => QuietAfterLogout
  BY DEF QuietInv, Silent, QuietAfterLogout
<1>. QED
  BY <1>1, QuietInvariant, PTL

=============================================================================
