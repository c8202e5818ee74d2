----------------------- MODULE WhatsappMessagesProofs -----------------------
(***************************************************************************)
(* What holds of WhatsappMessages for any accounts, messages and notices   *)
(* and any number of requests at a time.                                   *)
(***************************************************************************)
EXTENDS WhatsappMessages, TLAPS

USE WhatsappAssumption

LEMMA MappedType == \A n \in Notices : Mapped(n) \in Statuses \ {"RECEIVED"}
  BY DEF Mapped, Statuses, Timed

LEMMA IdleIsRequest == Idle \in Request /\ Idle.pc = "idle"
  BY DEF Idle, Request, Templates

\* What TypeOK says of one row and of one request.
RowOK(r, taken) ==
  /\ r \in Row
  /\ r.row = "unborn" => r = UnbornRow
  /\ r.direction = "INBOUND" =>
       r.whatsappMessageId \in Inbounds /\ r.status = "RECEIVED" /\ r.times = {}
  /\ r.direction = "OUTBOUND" =>
       /\ r.whatsappMessageId \in taken \cup {None}
       /\ r.status # "RECEIVED"
       /\ r.row = "stored" /\ r.whatsappMessageId = None =>
            r.status = "FAILED" /\ r.times = {"FAILED"}

RequestOK(q, taken, table, said) ==
  /\ q \in Request
  /\ q.pc = "store" => q.id \in taken /\ q.origin = q.id
  /\ q.pc = "receive" => q.id \in Inbounds
  /\ q.pc = "update" =>
       /\ q.id \in taken /\ q.message \in Messages /\ q.notice \in said[q.id]
       /\ table[q.message].row = "stored" /\ table[q.message].whatsappMessageId = q.id

LEMMA TypeParts ==
  TypeOK <=>
    /\ accounts \in [Accounts -> {"unborn", "active", "inactive"}]
    /\ messages \in [Messages -> Row] /\ \A m \in Messages : RowOK(messages[m], accepted)
    /\ accepted \in SUBSET Sends /\ reported \in [Sends -> SUBSET Notices]
    /\ req \in [Requests -> Request]
    /\ \A w \in Requests : RequestOK(req[w], accepted, messages, reported)
    /\ handled \in SUBSET (Sends \X Notices) /\ blurred \in SUBSET Sends
    /\ origin \in [Messages -> Sends \cup {None}] /\ broken \in SUBSET Sends
    /\ alone \in SUBSET Requests /\ crowded \in BOOLEAN
  BY Zenon DEF TypeOK, RowOK, RequestOK

LEMMA TypePartsNext ==
  TypeOK' <=>
    /\ accounts' \in [Accounts -> {"unborn", "active", "inactive"}]
    /\ messages' \in [Messages -> Row] /\ \A m \in Messages : RowOK(messages'[m], accepted')
    /\ accepted' \in SUBSET Sends /\ reported' \in [Sends -> SUBSET Notices]
    /\ req' \in [Requests -> Request]
    /\ \A w \in Requests : RequestOK(req'[w], accepted', messages', reported')
    /\ handled' \in SUBSET (Sends \X Notices) /\ blurred' \in SUBSET Sends
    /\ origin' \in [Messages -> Sends \cup {None}] /\ broken' \in SUBSET Sends
    /\ alone' \in SUBSET Requests /\ crowded' \in BOOLEAN
  BY Zenon DEF TypeOK, RowOK, RequestOK

LEMMA InitType == Init => TypeOK
<1> SUFFICES ASSUME Init PROVE TypeOK
  OBVIOUS
<1>1. UnbornRow \in Row /\ RowOK(UnbornRow, accepted)
  BY DEF UnbornRow, Row, RowOK, Statuses
<1>2. RequestOK(Idle, accepted, messages, reported)
  BY IdleIsRequest DEF RequestOK
<1>3. QED BY <1>1, <1>2, IdleIsRequest, TypeParts DEF Init

\* A step that writes no row.
LEMMA RequestMoves ==
  ASSUME TypeOK, NEW w \in Requests, NEW q, RequestOK(q, accepted', messages, reported'),
         req' = [req EXCEPT ![w] = q],
         UNCHANGED <<messages, reported, handled, origin>>, broken' \in SUBSET Sends,
         accounts' \in [Accounts -> {"unborn", "active", "inactive"}],
         accepted \subseteq accepted', accepted' \in SUBSET Sends, blurred' \in SUBSET Sends,
         alone' \in SUBSET Requests, crowded' \in BOOLEAN
  PROVE  TypeOK'
<1>1. /\ messages \in [Messages -> Row] /\ \A m \in Messages : RowOK(messages[m], accepted)
      /\ reported \in [Sends -> SUBSET Notices] /\ handled \in SUBSET (Sends \X Notices)
      /\ req \in [Requests -> Request] /\ origin \in [Messages -> Sends \cup {None}]
      /\ \A v \in Requests : RequestOK(req[v], accepted, messages, reported)
  BY TypeParts
<1>2. \A m \in Messages : RowOK(messages[m], accepted')
  BY <1>1 DEF RowOK
<1>3. \A v \in Requests : RequestOK(req[v], accepted', messages, reported')
  BY <1>1 DEF RequestOK
<1>4. q \in Request
  BY DEF RequestOK
<1>5. /\ req' \in [Requests -> Request]
      /\ \A v \in Requests : RequestOK(req'[v], accepted', messages, reported')
  BY <1>1, <1>3, <1>4
<1>6. QED BY <1>1, <1>2, <1>5, TypePartsNext

\* A step that writes a row that is unborn, or keeps its id, and ends its request.
LEMMA RowWritten ==
  ASSUME TypeOK, NEW w \in Requests, NEW m \in Messages, NEW r, RowOK(r, accepted),
         messages' = [messages EXCEPT ![m] = r], r.row = "stored",
         \/ messages[m].row = "unborn"
         \/ r.whatsappMessageId = messages[m].whatsappMessageId,
         req' = [req EXCEPT ![w] = Idle],
         UNCHANGED <<accounts, accepted, reported, broken, blurred, alone, crowded>>,
         handled' \in SUBSET (Sends \X Notices), origin' \in [Messages -> Sends \cup {None}]
  PROVE  TypeOK'
<1>1. /\ messages \in [Messages -> Row] /\ \A n \in Messages : RowOK(messages[n], accepted)
      /\ req \in [Requests -> Request]
      /\ \A v \in Requests : RequestOK(req[v], accepted, messages, reported)
  BY TypeParts
<1>2. r \in Row
  BY DEF RowOK
<1>3. messages' \in [Messages -> Row] /\ \A n \in Messages : RowOK(messages'[n], accepted)
  BY <1>1, <1>2
<1>4. ASSUME NEW v \in Requests
      PROVE  RequestOK(req'[v], accepted, messages', reported')
  <2>1. CASE v = w
    BY <1>1, <2>1, IdleIsRequest DEF RequestOK
  <2>2. CASE v # w
    BY <1>1, <2>2 DEF RequestOK
  <2>3. QED BY <2>1, <2>2
<1>5. req' \in [Requests -> Request]
  BY <1>1, IdleIsRequest
<1>6. QED BY <1>3, <1>4, <1>5, TypeParts, TypePartsNext

LEMMA IdleOK == ASSUME NEW taken, NEW table, NEW said PROVE RequestOK(Idle, taken, table, said)
  BY IdleIsRequest DEF RequestOK

LEMMA NextType == TypeOK /\ [Next]_vars => TypeOK'
<1> SUFFICES ASSUME TypeOK, [Next]_vars PROVE TypeOK'
  OBVIOUS
<1>0. /\ accounts \in [Accounts -> {"unborn", "active", "inactive"}]
      /\ messages \in [Messages -> Row] /\ \A m \in Messages : RowOK(messages[m], accepted)
      /\ accepted \in SUBSET Sends /\ reported \in [Sends -> SUBSET Notices]
      /\ req \in [Requests -> Request]
      /\ \A w \in Requests : RequestOK(req[w], accepted, messages, reported)
      /\ handled \in SUBSET (Sends \X Notices) /\ blurred \in SUBSET Sends
    /\ origin \in [Messages -> Sends \cup {None}] /\ broken \in SUBSET Sends
      /\ alone \in SUBSET Requests /\ crowded \in BOOLEAN
      /\ origin \in [Messages -> Sends \cup {None}] /\ broken \in SUBSET Sends
  BY TypeParts
<1>1. ASSUME NEW s \in Sends, NEW notice \in Notices, Report(s, notice)
      PROVE  TypeOK'
  <2>1. reported' \in [Sends -> SUBSET Notices]
    BY <1>0, <1>1 DEF Report
  <2>2. \A v \in Requests : RequestOK(req[v], accepted, messages, reported')
    BY <1>0, <1>1 DEF Report, RequestOK
  <2>3. QED BY <1>0, <1>1, <2>1, <2>2, TypePartsNext DEF Report, links
<1>2. ASSUME NEW w \in Requests, NEW flag \in Flags, CreateAccountFind(w, flag)
      PROVE  TypeOK'
  <2> DEFINE q == [Idle EXCEPT !.pc = "account", !.isActive = Activates(flag),
                               !.found = IF Deactivates(flag) THEN Active ELSE {}]
  <2>1. q \in Request /\ q.pc = "account"
    BY DEF Idle, Request, Templates, Activates, Active
  <2>2. RequestOK(q, accepted', messages, reported')
    BY <2>1 DEF RequestOK
  <2>3. alone' \in SUBSET Requests
    BY <1>0, <1>2 DEF CreateAccountFind
  <2>4. QED BY <1>0, <1>2, <2>2, <2>3, RequestMoves DEF CreateAccountFind, links
<1>3. ASSUME NEW w \in Requests, NEW a \in Accounts, CreateAccountCommit(w, a)
      PROVE  TypeOK'
  <2>1. accounts' \in [Accounts -> {"unborn", "active", "inactive"}]
    BY <1>0, <1>3 DEF CreateAccountCommit
  <2>2. alone' \in SUBSET Requests /\ crowded' \in BOOLEAN
    BY <1>0, <1>3 DEF CreateAccountCommit
  <2>3. RequestOK(Idle, accepted', messages, reported')
    BY IdleOK
  <2>4. QED BY <1>0, <1>3, <2>1, <2>2, <2>3, RequestMoves DEF CreateAccountCommit, links
<1>4. ASSUME NEW w \in Requests, NEW template \in Templates, SendBegin(w, template)
      PROVE  TypeOK'
  <2> DEFINE q == [Idle EXCEPT !.pc = "call", !.template = template]
  <2>1. RequestOK(q, accepted', messages, reported')
    BY DEF Idle, Request, RequestOK
  <2>2. QED BY <1>0, <1>4, <2>1, RequestMoves DEF SendBegin, links
<1>5. ASSUME NEW w \in Requests, NEW s \in Sends, CallAccepted(w, s)
      PROVE  TypeOK'
  <2> DEFINE q == [req[w] EXCEPT !.pc = "store", !.id = s, !.origin = s]
  <2>1. accepted' = accepted \cup {s}
    BY <1>5 DEF CallAccepted
  <2> HIDE DEF q
  <2>2. q \in Request /\ q.pc = "store" /\ q.id = s /\ q.origin = s
    <3>1. req[w] \in Request
      BY <1>0
    <3>2. QED BY <3>1 DEF q, Request
  <2>3. RequestOK(q, accepted', messages, reported')
    BY <2>1, <2>2 DEF RequestOK
  <2>4. QED BY <1>0, <1>5, <2>1, <2>3, RequestMoves DEF CallAccepted, q, links
<1>6. ASSUME NEW w \in Requests, NEW s \in Sends \cup {None}, NEW taken
      PROVE  RequestOK(Caught(w, s), taken, messages, reported)
  <2>1. CASE req[w].template = "order_confirmation"
    <3>1. req[w] \in Request
      BY <1>0
    <3>2. Caught(w, s) \in Request /\ Caught(w, s).pc = "storeFailed"
      BY <2>1, <3>1 DEF Caught, Request
    <3>3. QED BY <3>2 DEF RequestOK
  <2>2. CASE req[w].template # "order_confirmation"
    BY <2>2, IdleOK DEF Caught
  <2>3. QED BY <2>1, <2>2
<1>7. ASSUME NEW w \in Requests, CallFails(w)
      PROVE  TypeOK'
  <2>1. /\ accepted \subseteq accepted' /\ accepted' \in SUBSET Sends
        /\ broken' \in SUBSET Sends
    BY <1>0, <1>7 DEF CallFails
  <2>2. PICK s \in (Sends \ accepted) \cup {None} : req' = [req EXCEPT ![w] = Caught(w, s)]
    BY <1>7 DEF CallFails
  <2>3. RequestOK(Caught(w, s), accepted', messages, reported)
    BY <1>6
  <2>4. QED BY <1>0, <1>7, <2>1, <2>2, <2>3, RequestMoves DEF CallFails
<1>8. ASSUME NEW w \in Requests, StoreFails(w)
      PROVE  TypeOK'
  <2>1. req[w].id \in accepted
    BY <1>0, <1>8 DEF StoreFails, RequestOK
  <2>2. RequestOK(Caught(w, req[w].id), accepted, messages, reported)
    BY <1>0, <1>6, <2>1
  <2>3. broken' \in SUBSET Sends
    BY <1>0, <1>8, <2>1 DEF StoreFails
  <2>4. QED BY <1>0, <1>8, <2>2, <2>3, RequestMoves DEF StoreFails
<1>9. ASSUME NEW w \in Requests, NEW m \in Messages, StoreSent(w, m)
      PROVE  TypeOK'
  <2>1. req[w].id \in accepted
    BY <1>0, <1>9 DEF StoreSent, RequestOK
  <2>2. RowOK(SentRow(req[w].id), accepted) /\ SentRow(req[w].id).row = "stored"
    BY <1>0, <2>1 DEF SentRow, RowOK, Row, Statuses, Timed
  <2>3. origin' \in [Messages -> Sends \cup {None}]
    BY <1>0, <1>9 DEF StoreSent, Request
  <2>4. QED BY <1>0, <1>9, <2>2, <2>3, RowWritten DEF StoreSent
<1>10. ASSUME NEW w \in Requests, NEW m \in Messages, StoreFailed(w, m)
       PROVE  TypeOK'
  <2>1. RowOK(FailedRow, accepted) /\ FailedRow.row = "stored"
    BY DEF FailedRow, RowOK, Row, Statuses, Timed
  <2>2. origin' \in [Messages -> Sends \cup {None}]
    BY <1>0, <1>10 DEF StoreFailed, Request
  <2>3. QED BY <1>0, <1>10, <2>1, <2>2, RowWritten DEF StoreFailed
<1>11. ASSUME NEW w \in Requests, NEW m \in Messages, ReceiveStore(w, m)
       PROVE  TypeOK'
  <2>1. req[w].id \in Inbounds
    BY <1>0, <1>11 DEF ReceiveStore, RequestOK
  <2>2. RowOK(ReceivedRow(req[w].id), accepted) /\ ReceivedRow(req[w].id).row = "stored"
    BY <2>1 DEF ReceivedRow, RowOK, Row, Statuses, Timed
  <2>3. QED BY <1>0, <1>11, <2>2, RowWritten DEF ReceiveStore, links
<1>12. ASSUME NEW w \in Requests, NEW s \in Sends, NEW notice \in Notices, NEW m \in Messages,
              StatusFind(w, s, notice, m)
       PROVE  TypeOK'
  <2> DEFINE q == [Idle EXCEPT !.pc = "update", !.id = s, !.message = m, !.notice = notice,
                               !.times = messages[m].times]
  <2>1. messages[m].row = "stored" /\ messages[m].whatsappMessageId = s
    BY <1>12 DEF StatusFind, Known
  <2>2. messages[m].times \in SUBSET Timed
    BY <1>0 DEF Row
  <2>3. s \in accepted
    BY <1>0, <2>1 DEF RowOK, Row
  <2>4. RequestOK(q, accepted, messages, reported)
    BY <1>12, <2>1, <2>2, <2>3 DEF StatusFind, Idle, Request, RequestOK, Templates
  <2>5. blurred' \in SUBSET Sends /\ notice \in reported[s]
    BY <1>0, <1>12 DEF StatusFind
  <2>6. QED BY <1>0, <1>12, <2>4, <2>5, RequestMoves DEF StatusFind, links
<1>13. ASSUME NEW w \in Requests, StatusUpdate(w)
       PROVE  TypeOK'
  <2> DEFINE m == req[w].message
             status == Mapped(req[w].notice)
             r == [messages[m] EXCEPT !.status = status,
                                      !.times = TimesWritten(req[w].times, status)]
  <2>1. /\ req[w] \in Request /\ req[w].id \in accepted /\ m \in Messages
        /\ messages[m].row = "stored" /\ messages[m].whatsappMessageId = req[w].id
        /\ req[w].notice \in Notices
    BY <1>0, <1>13 DEF StatusUpdate, RequestOK
  <2>2. status \in Statuses \ {"RECEIVED"}
    BY <2>1, MappedType DEF Request, Mapped, Statuses, Timed
  <2>3. TimesWritten(req[w].times, status) \in SUBSET Timed
    BY <2>1 DEF TimesWritten, Request
  <2>4. messages[m] \in Row /\ RowOK(messages[m], accepted)
    BY <1>0, <2>1
  <2>5. messages[m].direction # "INBOUND" /\ messages[m].whatsappMessageId # None
    BY <1>0, <2>1, <2>4 DEF RowOK
  <2>6. /\ r \in Row /\ r.row = "stored" /\ r.direction # "INBOUND" /\ r.status # "RECEIVED"
        /\ r.whatsappMessageId = messages[m].whatsappMessageId
    BY <2>1, <2>2, <2>3, <2>4, <2>5 DEF Row
  <2>7. RowOK(r, accepted)
    BY <2>1, <2>5, <2>6 DEF RowOK
  <2>8. handled' \in SUBSET (Sends \X Notices)
    BY <1>0, <1>13, <2>1 DEF StatusUpdate
  <2>9. QED BY <1>0, <1>13, <2>1, <2>6, <2>7, <2>8, RowWritten DEF StatusUpdate, links
<1>14. ASSUME NEW w \in Requests, NEW i \in Inbounds, Receive(w, i)
       PROVE  TypeOK'
  <2> DEFINE q == [Idle EXCEPT !.pc = "receive", !.id = i]
  <2>1. RequestOK(q, accepted', messages, reported')
    BY DEF Idle, Request, RequestOK, Templates
  <2>2. QED BY <1>0, <1>14, <2>1, RequestMoves DEF Receive, links
<1>15. ASSUME NEW w \in Requests, Abort(w)
       PROVE  TypeOK'
  <2>1. alone' \in SUBSET Requests
    BY <1>0, <1>15 DEF Abort
  <2>2. QED BY <1>0, <1>15, <2>1, IdleOK, RequestMoves DEF Abort, links
<1>16. CASE UNCHANGED vars
  BY <1>16 DEF vars, links, TypeOK, Active, Row
<1>17. QED
  BY <1>1, <1>2, <1>3, <1>4, <1>5, <1>7, <1>8, <1>9, <1>10, <1>11, <1>12, <1>13, <1>14, <1>15,
     <1>16 DEF Next, Serve

(* Every account, message, row and request keeps the form TypeOK gives it;  *)
(* a row that a notice was found for is never unborn again and keeps its    *)
(* id (the handlers of src/whatsapp).                                       *)
THEOREM TypeCorrect == Spec => []TypeOK
  BY InitType, NextType, PTL DEF Spec

----------------------------------------------------------------------------
(* The notices.                                                            *)

\* The rows of sends bear their ids, and only theirs, or none.
RowsLinked == \A m \in Messages :
  /\ messages[m].row = "unborn" => origin[m] = None
  /\ messages[m].whatsappMessageId \in Sends => origin[m] = messages[m].whatsappMessageId

\* A send that is yet to be stored has no row, and is that of one request; if it is to be
\* stored as failed, something has failed.
StoredOnce == \A w \in Requests :
  req[w].pc \in {"store", "storeFailed"} /\ req[w].origin # None =>
    /\ \A m \in Messages : origin[m] # req[w].origin
    /\ \A v \in Requests :
         req[v].pc \in {"store", "storeFailed"} /\ req[v].origin = req[w].origin => v = w
    /\ req[w].pc = "storeFailed" => req[w].origin \in broken

\* The provider took every send that has a row or a request.
LinksTaken ==
  /\ \A m \in Messages : origin[m] \in accepted \cup {None}
  /\ \A w \in Requests :
       req[w].pc \in {"store", "storeFailed"} => req[w].origin \in accepted \cup {None}

\* What a request found was heard of the message, and is what the row has, if no other
\* handles the message.
FoundFresh == \A w \in Requests : req[w].pc = "update" =>
  /\ req[w].times \subseteq Heard(req[w].id)
  /\ req[w].id \notin blurred =>
       /\ req[w].times = messages[req[w].message].times
       /\ \A v \in Requests : req[v].pc = "update" /\ req[v].id = req[w].id => v = w

AnsweredRow == \A s \in Sends, notice \in Notices : <<s, notice>> \in handled =>
  \E m \in Messages : messages[m].whatsappMessageId = s

NoticeInv ==
  /\ TypeOK /\ RowsLinked /\ StoredOnce /\ LinksTaken /\ FoundFresh /\ AnsweredRow
  /\ NoticesKept /\ RowsOfSends

\* A creation that none has overlapped found every account that is active since.
AccountInv ==
  /\ TypeOK
  /\ alone \subseteq Activating
  /\ \A v \in alone, w \in Activating : v = w
  /\ \A w \in alone : Active \subseteq req[w].found
  /\ OneActiveAccount

LEMMA InitAccount == Init => AccountInv
<1> SUFFICES ASSUME Init PROVE AccountInv
  OBVIOUS
<1>1. TypeOK
  BY InitType
<1>2. Active = {} /\ alone = {}
  BY DEF Init, Active
<1>3. QED BY <1>1, <1>2 DEF AccountInv, OneActiveAccount

\* A request that is no creation, before or after its step.
LEMMA NoCreation ==
  ASSUME AccountInv, TypeOK', NEW w \in Requests, NEW q, q.pc # "account",
         req' = [req EXCEPT ![w] = q], req[w].pc # "account",
         UNCHANGED <<accounts, alone, crowded>>
  PROVE  AccountInv'
<1>1. req \in [Requests -> Request]
  BY DEF AccountInv, TypeOK
<1>2. \A v \in Requests \ {w} : req'[v] = req[v]
  BY <1>1
<1>3. req'[w].pc # "account"
  BY <1>1
<1>4. Activating' = Activating
  BY <1>2, <1>3 DEF Activating
<1>5. w \notin alone
  BY DEF AccountInv, Activating
<1>6. \A v \in alone' : Active' \subseteq req'[v].found
  BY <1>1, <1>2, <1>5 DEF AccountInv, Active, TypeOK
<1>7. OneActiveAccount'
  BY DEF AccountInv, OneActiveAccount, Active
<1>8. QED BY <1>4, <1>6, <1>7 DEF AccountInv

LEMMA NextAccount == AccountInv /\ [Next]_vars => AccountInv'
<1> SUFFICES ASSUME AccountInv, [Next]_vars PROVE AccountInv'
  OBVIOUS
<1>0. TypeOK' /\ req \in [Requests -> Request] /\ alone \in SUBSET Requests
      /\ accounts \in [Accounts -> {"unborn", "active", "inactive"}]
  BY NextType DEF AccountInv, TypeOK
<1>1. ASSUME NEW s \in Sends, NEW notice \in Notices, Report(s, notice)
      PROVE  AccountInv'
  BY <1>0, <1>1 DEF Report, AccountInv, Activating, Active, OneActiveAccount
<1>2. ASSUME NEW w \in Requests, NEW flag \in Flags, CreateAccountFind(w, flag)
      PROVE  AccountInv'
  <2> DEFINE q == [Idle EXCEPT !.pc = "account", !.isActive = Activates(flag),
                               !.found = IF Deactivates(flag) THEN Active ELSE {}]
  <2>1. q.pc = "account" /\ q.isActive = Activates(flag) /\ (Activates(flag) => q.found = Active)
    BY DEF Idle, Activates, Deactivates
  <2> HIDE DEF q
  <2>2. req'[w] = q /\ \A v \in Requests \ {w} : req'[v] = req[v]
    BY <1>0, <1>2 DEF CreateAccountFind, q
  <2>3. w \notin Activating /\ w \notin alone
    BY <1>2 DEF CreateAccountFind, Activating, AccountInv
  <2>4. Activating' = IF Activates(flag) THEN Activating \cup {w} ELSE Activating
    BY <2>1, <2>2, <2>3 DEF Activating
  <2>5. Active' = Active /\ OneActiveAccount'
    BY <1>2 DEF CreateAccountFind, Active, AccountInv, OneActiveAccount
  <2>6. CASE ~Activates(flag)
    <3>1. alone' = alone
      BY <1>2, <2>6 DEF CreateAccountFind
    <3>2. \A v \in alone : req'[v] = req[v]
      BY <1>0, <2>2, <2>3
    <3>3. QED BY <1>0, <2>4, <2>5, <2>6, <3>1, <3>2 DEF AccountInv
  <2>7. CASE Activates(flag) /\ Activating = {}
    <3>1. alone' = {w}
      BY <1>2, <2>7 DEF CreateAccountFind
    <3>2. req'[w].found = Active'
      BY <2>1, <2>2, <2>5, <2>7
    <3>3. QED BY <1>0, <2>4, <2>5, <2>7, <3>1, <3>2 DEF AccountInv
  <2>8. CASE Activates(flag) /\ Activating # {}
    <3>1. alone' = {}
      BY <1>2, <2>8 DEF CreateAccountFind
    <3>2. QED BY <1>0, <2>5, <3>1 DEF AccountInv
  <2>9. QED BY <2>6, <2>7, <2>8
<1>3. ASSUME NEW w \in Requests, NEW a \in Accounts, CreateAccountCommit(w, a)
      PROVE  AccountInv'
  <2>1. req'[w] = Idle /\ \A v \in Requests \ {w} : req'[v] = req[v]
    BY <1>0, <1>3 DEF CreateAccountCommit
  <2>2. Activating' = Activating \ {w}
    BY <2>1, IdleIsRequest DEF Activating
  <2>3. alone' = alone \ {w}
    BY <1>3 DEF CreateAccountCommit
  <2>4. alone' \subseteq Activating' /\ \A v \in alone', u \in Activating' : v = u
    BY <2>2, <2>3 DEF AccountInv
  <2>5. CASE req[w].isActive
    <3>1. w \in Activating
      BY <1>3, <2>5 DEF CreateAccountCommit, Activating
    <3>2. alone' = {}
      BY <2>3, <3>1 DEF AccountInv
    <3>3. CASE w \in alone
      <4>1. Active \subseteq req[w].found
        BY <3>3 DEF AccountInv
      <4>2. \A b \in Accounts : accounts'[b] = "active" => b = a
        BY <1>0, <1>3, <4>1 DEF CreateAccountCommit, Active
      <4>3. OneActiveAccount'
        BY <4>2 DEF OneActiveAccount, Active
      <4>4. QED BY <1>0, <2>4, <3>2, <4>3 DEF AccountInv
    <3>4. CASE w \notin alone
      <4>1. crowded'
        BY <1>3, <2>5, <3>4 DEF CreateAccountCommit
      <4>2. QED BY <1>0, <2>4, <3>2, <4>1 DEF AccountInv, OneActiveAccount
    <3>5. QED BY <3>3, <3>4
  <2>6. CASE ~req[w].isActive
    <3>1. Active' \subseteq Active
      BY <1>0, <1>3, <2>6 DEF CreateAccountCommit, Active
    <3>2. crowded' = crowded
      BY <1>3, <2>6 DEF CreateAccountCommit
    <3>3. OneActiveAccount'
      BY <3>1, <3>2 DEF AccountInv, OneActiveAccount
    <3>4. \A v \in alone' : Active' \subseteq req'[v].found
      BY <1>0, <2>1, <2>3, <3>1 DEF AccountInv
    <3>5. QED BY <1>0, <2>4, <3>3, <3>4 DEF AccountInv
  <2>7. QED BY <2>5, <2>6
<1>4. ASSUME NEW w \in Requests, Abort(w)
      PROVE  AccountInv'
  <2>1. req'[w] = Idle /\ \A v \in Requests \ {w} : req'[v] = req[v]
    BY <1>0, <1>4 DEF Abort
  <2>2. Activating' = Activating \ {w} /\ alone' = alone \ {w}
    BY <1>4, <2>1, IdleIsRequest DEF Activating, Abort
  <2>3. Active' = Active /\ OneActiveAccount'
    BY <1>4 DEF Abort, Active, AccountInv, OneActiveAccount
  <2>4. \A v \in alone' : Active' \subseteq req'[v].found
    BY <1>0, <2>1, <2>2, <2>3 DEF AccountInv
  <2>5. QED BY <1>0, <2>2, <2>3, <2>4 DEF AccountInv
<1>5. ASSUME NEW w \in Requests,
             \/ \E template \in Templates : SendBegin(w, template)
             \/ \E s \in Sends : CallAccepted(w, s)
             \/ CallFails(w) \/ StoreFails(w)
             \/ \E m \in Messages : StoreSent(w, m) \/ StoreFailed(w, m) \/ ReceiveStore(w, m)
             \/ \E s \in Sends, notice \in Notices, m \in Messages : StatusFind(w, s, notice, m)
             \/ StatusUpdate(w)
             \/ \E i \in Inbounds : Receive(w, i)
      PROVE  AccountInv'
  <2>1. req[w] \in Request
    BY <1>0
  <2>2. /\ req[w].pc # "account" /\ UNCHANGED <<accounts, alone, crowded>>
        /\ \E q : q.pc # "account" /\ req' = [req EXCEPT ![w] = q]
    <3>1. CASE \E template \in Templates : SendBegin(w, template)
      BY <3>1, IdleIsRequest DEF SendBegin, Idle
    <3>2. CASE \E s \in Sends : CallAccepted(w, s)
      <4>1. PICK s \in Sends : CallAccepted(w, s)
        BY <3>2
      <4>2. [req[w] EXCEPT !.pc = "store", !.id = s, !.origin = s].pc # "account"
        BY <2>1 DEF Request
      <4>3. QED BY <4>1, <4>2 DEF CallAccepted
    <3>3. \A s : Caught(w, s).pc # "account"
      BY <2>1, IdleIsRequest DEF Caught, Request
    <3>4. CASE CallFails(w) \/ StoreFails(w)
      BY <3>3, <3>4 DEF CallFails, StoreFails
    <3>5. CASE \E m \in Messages : StoreSent(w, m) \/ StoreFailed(w, m) \/ ReceiveStore(w, m)
      BY <3>5, IdleIsRequest DEF StoreSent, StoreFailed, ReceiveStore
    <3>6. CASE \E s \in Sends, notice \in Notices, m \in Messages : StatusFind(w, s, notice, m)
      BY <3>6 DEF StatusFind, Idle
    <3>7. CASE StatusUpdate(w)
      BY <3>7, IdleIsRequest DEF StatusUpdate
    <3>8. CASE \E i \in Inbounds : Receive(w, i)
      BY <3>8 DEF Receive, Idle
    <3>9. QED BY <1>5, <3>1, <3>2, <3>4, <3>5, <3>6, <3>7, <3>8
  <2>3. QED BY <1>0, <2>2, NoCreation
<1>6. CASE UNCHANGED vars
  BY <1>0, <1>6 DEF vars, AccountInv, Activating, Active, OneActiveAccount
<1>7. QED BY <1>1, <1>2, <1>3, <1>4, <1>5, <1>6 DEF Next, Serve

(* Whatever requests, failures and crashes come, one account at most is     *)
(* active, unless the last creation overlapped another (createAccount).     *)
THEOREM OneAccountActive == Spec => []OneActiveAccount
<1>1. AccountInv => OneActiveAccount
  BY DEF AccountInv
<1>2. QED BY <1>1, InitAccount, NextAccount, PTL DEF Spec

----------------------------------------------------------------------------
(* The notices stay.                                                       *)

LEMMA InitNotice == Init => NoticeInv
<1> SUFFICES ASSUME Init PROVE NoticeInv
  OBVIOUS
<1>1. TypeOK
  BY InitType
<1>2. \A m \in Messages : messages[m].whatsappMessageId = None /\ origin[m] = None
  BY DEF Init, UnbornRow
<1>3. \A w \in Requests : req[w].pc = "idle"
  BY IdleIsRequest DEF Init
<1>4. RowsLinked /\ NoticesKept /\ RowsOfSends
  BY <1>2 DEF RowsLinked, NoticesKept, RowsOfSends
<1>5. StoredOnce /\ LinksTaken /\ FoundFresh
  BY <1>2, <1>3 DEF StoredOnce, LinksTaken, FoundFresh
<1>6. AnsweredRow
  BY DEF Init, AnsweredRow
<1>7. QED BY <1>1, <1>4, <1>5, <1>6 DEF NoticeInv

\* What was heard of a send depends on handled alone.
LEMMA HeardOf ==
  ASSUME UNCHANGED handled
  PROVE  \A s : Heard(s)' = Heard(s)
  BY DEF Heard

\* The same with the notices answered as a parameter.
HeardIn(answered, s) == {Mapped(n) : n \in {n \in Notices : <<s, n>> \in answered}}

LEMMA HeardNow == \A s : Heard(s) = HeardIn(handled, s)
  BY DEF Heard, HeardIn

LEMMA RowsOfSendsNext ==
  ASSUME \A n, k \in Messages : origin'[n] # None /\ origin'[n] = origin'[k] => n = k,
         \A n \in Messages : origin'[n] # None =>
           \/ /\ messages'[n].whatsappMessageId = origin'[n]
              /\ messages'[n].times \subseteq HeardIn(handled', origin'[n])
              /\ messages'[n].status
                   \in (IF HeardIn(handled', origin'[n]) = {} THEN {"SENT"}
                        ELSE HeardIn(handled', origin'[n]))
              /\ messages'[n].status \in Timed => messages'[n].status \in messages'[n].times
           \/ /\ origin'[n] \in broken' /\ HeardIn(handled', origin'[n]) = {}
              /\ messages'[n] = FailedRow
  PROVE  RowsOfSends'
  BY DEF RowsOfSends, Heard, HeardIn, FailedRow

\* A row with the id of a send is its only row.
LEMMA RowOfSend ==
  ASSUME NoticeInv, NEW m \in Messages, messages[m].whatsappMessageId \in Sends
  PROVE  /\ origin[m] = messages[m].whatsappMessageId
         /\ \A n \in Messages \ {m} : origin[n] # origin[m]
         /\ \A n \in Messages \ {m} :
              messages[n].whatsappMessageId # messages[m].whatsappMessageId
  BY DEF NoticeInv, RowsLinked, RowsOfSends

\* A step that touches neither rows nor notices, of a request that finds no row and has
\* nothing to store.
LEMMA NoNotice ==
  ASSUME NoticeInv, TypeOK', NEW w \in Requests, NEW q,
         q.pc \notin {"store", "storeFailed", "update"},
         req' = [req EXCEPT ![w] = q], accepted \subseteq accepted', broken \subseteq broken',
         UNCHANGED <<messages, reported, handled, origin, blurred>>
  PROVE  NoticeInv'
<1>1. req \in [Requests -> Request]
  BY DEF NoticeInv, TypeOK
<1>2. req'[w] = q /\ \A v \in Requests \ {w} : req'[v] = req[v]
  BY <1>1
<1>3. RowsLinked' /\ AnsweredRow' /\ NoticesKept' /\ RowsOfSends'
  BY HeardOf DEF NoticeInv, RowsLinked, AnsweredRow, NoticesKept, RowsOfSends
<1>4. StoredOnce'
  BY <1>2 DEF NoticeInv, StoredOnce
<1>5. LinksTaken'
  BY <1>2 DEF NoticeInv, LinksTaken
<1>6. FoundFresh'
  BY <1>2, HeardOf DEF NoticeInv, FoundFresh
<1>7. QED BY <1>3, <1>4, <1>5, <1>6 DEF NoticeInv

LEMMA ReportNotice ==
  ASSUME NoticeInv, TypeOK', NEW s \in Sends, NEW notice \in Notices, Report(s, notice)
  PROVE  NoticeInv'
<1>1. RowsLinked' /\ StoredOnce' /\ LinksTaken' /\ AnsweredRow'
  BY DEF Report, links, NoticeInv, RowsLinked, StoredOnce, LinksTaken, AnsweredRow
<1>2. NoticesKept' /\ RowsOfSends' /\ FoundFresh'
  BY HeardOf DEF Report, links, NoticeInv, NoticesKept, RowsOfSends, FoundFresh
<1>3. QED BY <1>1, <1>2 DEF NoticeInv

\* A request comes to have a send to store that nobody had before.
LEMMA SendTaken ==
  ASSUME NoticeInv, TypeOK', NEW w \in Requests, NEW q, NEW s \in Sends,
         \/ s \notin accepted
         \/ req[w].pc = "store" /\ req[w].origin = s,
         q.pc \in {"store", "storeFailed"}, q.origin = s, req' = [req EXCEPT ![w] = q],
         s \in accepted', accepted \subseteq accepted', broken \subseteq broken',
         q.pc = "storeFailed" => s \in broken',
         UNCHANGED <<messages, reported, handled, origin, blurred>>
  PROVE  NoticeInv'
<1>1. req \in [Requests -> Request]
  BY DEF NoticeInv, TypeOK
<1>2. req'[w] = q /\ \A v \in Requests \ {w} : req'[v] = req[v]
  BY <1>1
<1>3. \A m \in Messages : origin[m] # s
  BY DEF NoticeInv, LinksTaken, StoredOnce
<1>4. \A v \in Requests \ {w} : req[v].pc \in {"store", "storeFailed"} => req[v].origin # s
  BY DEF NoticeInv, LinksTaken, StoredOnce
<1>5. RowsLinked' /\ AnsweredRow' /\ NoticesKept' /\ RowsOfSends'
  BY HeardOf DEF NoticeInv, RowsLinked, AnsweredRow, NoticesKept, RowsOfSends
<1>6. StoredOnce'
  BY <1>2, <1>3, <1>4 DEF NoticeInv, StoredOnce
<1>7. LinksTaken'
  BY <1>2 DEF NoticeInv, LinksTaken
<1>8. FoundFresh'
  BY <1>2, HeardOf DEF NoticeInv, FoundFresh
<1>9. QED BY <1>5, <1>6, <1>7, <1>8 DEF NoticeInv

LEMMA CallAcceptedNotice ==
  ASSUME NoticeInv, TypeOK', NEW w \in Requests, NEW s \in Sends, CallAccepted(w, s)
  PROVE  NoticeInv'
<1> DEFINE q == [req[w] EXCEPT !.pc = "store", !.id = s, !.origin = s]
<1>1. q.pc = "store" /\ q.origin = s
  <2>1. req[w] \in Request
    BY DEF NoticeInv, TypeOK
  <2>2. QED BY <2>1 DEF Request
<1>2. /\ s \notin accepted /\ s \in accepted' /\ accepted \subseteq accepted'
      /\ req' = [req EXCEPT ![w] = q]
      /\ UNCHANGED <<messages, reported, handled, origin, broken, blurred>>
  BY DEF CallAccepted, links
<1> HIDE DEF q
<1>3. QED BY <1>1, <1>2, SendTaken

\* The row that says that a message failed, yet to be stored.
LEMMA CaughtRequest ==
  ASSUME TypeOK, NEW w \in Requests, NEW s
  PROVE  \/ Caught(w, s).pc = "storeFailed" /\ Caught(w, s).origin = s
         \/ Caught(w, s).pc = "idle"
<1>1. req[w] \in Request
  BY DEF TypeOK
<1>2. QED BY <1>1, IdleIsRequest DEF Caught, Request

\* A failed confirmation that the provider did not take has no send to be stored for.
LEMMA RefusedNotice ==
  ASSUME NoticeInv, TypeOK', NEW w \in Requests, NEW q, q.pc = "storeFailed", q.origin = None,
         req' = [req EXCEPT ![w] = q],
         UNCHANGED <<messages, reported, handled, accepted, origin, broken, blurred>>
  PROVE  NoticeInv'
<1>1. req \in [Requests -> Request]
  BY DEF NoticeInv, TypeOK
<1>2. req'[w] = q /\ \A v \in Requests \ {w} : req'[v] = req[v]
  BY <1>1
<1>3. RowsLinked' /\ AnsweredRow' /\ NoticesKept' /\ RowsOfSends'
  BY HeardOf DEF NoticeInv, RowsLinked, AnsweredRow, NoticesKept, RowsOfSends
<1>4. StoredOnce' /\ LinksTaken'
  BY <1>2 DEF NoticeInv, StoredOnce, LinksTaken
<1>5. FoundFresh'
  BY <1>2, HeardOf DEF NoticeInv, FoundFresh
<1>6. QED BY <1>3, <1>4, <1>5 DEF NoticeInv

LEMMA CallFailsNotice ==
  ASSUME NoticeInv, TypeOK', NEW w \in Requests, CallFails(w)
  PROVE  NoticeInv'
<1>1. PICK s \in (Sends \ accepted) \cup {None} :
        /\ accepted' = accepted \cup ({s} \ {None}) /\ broken' = broken \cup ({s} \ {None})
        /\ req' = [req EXCEPT ![w] = Caught(w, s)]
  BY DEF CallFails
<1>2. UNCHANGED <<messages, reported, handled, origin, blurred>>
  BY DEF CallFails
<1>3. CASE Caught(w, s).pc = "idle"
  BY <1>1, <1>2, <1>3, NoNotice
<1>4. CASE Caught(w, s).pc = "storeFailed" /\ Caught(w, s).origin = s
  <2>1. CASE s = None
    BY <1>1, <1>2, <1>4, <2>1, RefusedNotice
  <2>2. CASE s # None
    <3>1. s \in Sends \ accepted /\ s \in accepted' /\ s \in broken'
      BY <1>1, <2>2
    <3>2. QED BY <1>1, <1>2, <1>4, <3>1, SendTaken
  <2>3. QED BY <2>1, <2>2
<1>5. QED BY <1>3, <1>4, CaughtRequest DEF NoticeInv

LEMMA StoreFailsNotice ==
  ASSUME NoticeInv, TypeOK', NEW w \in Requests, StoreFails(w)
  PROVE  NoticeInv'
<1>1. PICK s : s = req[w].id
  OBVIOUS
<1>2. /\ req[w].pc = "store" /\ s \in accepted /\ s \in Sends /\ req[w].origin = s
      /\ broken' = broken \cup {s} /\ req' = [req EXCEPT ![w] = Caught(w, s)]
      /\ UNCHANGED <<messages, accepted, reported, handled, origin, blurred>>
  BY <1>1 DEF StoreFails, NoticeInv, TypeOK
<1>3. CASE Caught(w, s).pc = "idle"
  BY <1>2, <1>3, NoNotice
<1>4. CASE Caught(w, s).pc = "storeFailed" /\ Caught(w, s).origin = s
  BY <1>2, <1>4, SendTaken
<1>5. QED BY <1>3, <1>4, CaughtRequest DEF NoticeInv

LEMMA StatusFindNotice ==
  ASSUME NoticeInv, TypeOK', NEW w \in Requests, NEW s \in Sends, NEW notice \in Notices,
         NEW m \in Messages, StatusFind(w, s, notice, m)
  PROVE  NoticeInv'
<1> DEFINE q == [Idle EXCEPT !.pc = "update", !.id = s, !.message = m, !.notice = notice,
                             !.times = messages[m].times]
<1>1. /\ req \in [Requests -> Request] /\ messages[m].whatsappMessageId = s
      /\ blurred \subseteq blurred' /\ (Updating(s) # {} => s \in blurred')
      /\ UNCHANGED <<messages, accepted, reported, handled, origin, broken>>
      /\ req' = [req EXCEPT ![w] = q]
  BY DEF NoticeInv, TypeOK, StatusFind, Known, links
<1>2. q.pc = "update" /\ q.id = s /\ q.message = m /\ q.times = messages[m].times
  BY DEF Idle
<1> HIDE DEF q
<1>3. req'[w] = q /\ \A v \in Requests \ {w} : req'[v] = req[v]
  BY <1>1
<1>4. RowsLinked' /\ AnsweredRow' /\ NoticesKept' /\ RowsOfSends'
  BY <1>1, HeardOf DEF NoticeInv, RowsLinked, AnsweredRow, NoticesKept, RowsOfSends
<1>5. StoredOnce' /\ LinksTaken'
  BY <1>1, <1>2, <1>3 DEF NoticeInv, StoredOnce, LinksTaken
<1>6. \A v \in Requests \ {w} : req[v].pc = "update" /\ req[v].id = s => s \in blurred'
  BY <1>1 DEF Updating
<1>7. q.times \subseteq Heard(s)
  <2>1. origin[m] = s /\ s # None
    BY <1>1, RowOfSend
  <2>2. messages[m].times \subseteq Heard(s)
    BY <1>1, <2>1 DEF NoticeInv, RowsOfSends, FailedRow
  <2>3. QED BY <1>2, <2>2
<1>8. FoundFresh'
  BY <1>1, <1>2, <1>3, <1>6, <1>7, HeardOf DEF NoticeInv, FoundFresh
<1>9. QED BY <1>4, <1>5, <1>8 DEF NoticeInv

\* A new row, of no send, or of the one its request has, of which no notice was answered.
LEMMA RowNotice ==
  ASSUME NoticeInv, TypeOK', NEW w \in Requests, NEW m \in Messages, messages[m].row = "unborn",
         NEW r, messages' = [messages EXCEPT ![m] = r], req' = [req EXCEPT ![w] = Idle],
         UNCHANGED <<accepted, reported, handled, broken, blurred>>, r.row = "stored",
         \/ r.whatsappMessageId \notin Sends /\ origin' = origin
         \/ /\ req[w].pc = "storeFailed" /\ r = FailedRow
            /\ origin' = [origin EXCEPT ![m] = req[w].origin]
         \/ /\ req[w].pc = "store" /\ r = SentRow(req[w].id)
            /\ origin' = [origin EXCEPT ![m] = req[w].origin]
  PROVE  NoticeInv'
<1> DEFINE s == origin'[m]
<1>1. /\ req \in [Requests -> Request] /\ messages \in [Messages -> Row]
      /\ origin \in [Messages -> Sends \cup {None}]
  BY DEF NoticeInv, TypeOK
<1>2. /\ messages'[m] = r /\ \A n \in Messages \ {m} : messages'[n] = messages[n]
      /\ \A n \in Messages \ {m} : origin'[n] = origin[n]
  BY <1>1
<1>3. req'[w].pc = "idle" /\ \A v \in Requests \ {w} : req'[v] = req[v]
  BY <1>1, IdleIsRequest
<1>4. messages[m].whatsappMessageId = None /\ origin[m] = None
  BY DEF NoticeInv, TypeOK, UnbornRow, RowsLinked
<1>5. s # None =>
        /\ req[w].pc \in {"store", "storeFailed"} /\ req[w].origin = s /\ s \in Sends
        /\ req[w].pc = "storeFailed" => r = FailedRow /\ s \in broken
        /\ req[w].pc = "store" => r = SentRow(s)
  BY <1>1, <1>4 DEF NoticeInv, TypeOK, StoredOnce, Request
<1>6. r.whatsappMessageId \in Sends => r.whatsappMessageId = s
  BY <1>1 DEF FailedRow, SentRow, NoticeInv, TypeOK
<1>7. s # None =>
        /\ \A n \in Messages : origin[n] # s /\ messages[n].whatsappMessageId # s
        /\ \A v \in Requests \ {w} :
             req[v].pc \in {"store", "storeFailed"} => req[v].origin # s
  BY <1>5 DEF NoticeInv, StoredOnce, RowsLinked
<1>8. s # None => Heard(s) = {}
  BY <1>5, <1>7 DEF NoticeInv, AnsweredRow, Heard
<1> HIDE DEF s
<1>9. RowsLinked'
  BY <1>2, <1>6 DEF NoticeInv, RowsLinked, s
<1>10. StoredOnce'
  <2>1. \A v \in Requests \ {w} : \A n \in Messages :
          req[v].pc \in {"store", "storeFailed"} /\ req[v].origin # None =>
            origin'[n] # req[v].origin
    BY <1>2, <1>7 DEF NoticeInv, StoredOnce, s
  <2>2. QED BY <1>3, <2>1 DEF NoticeInv, StoredOnce
<1>11. LinksTaken'
  <2>1. s \in accepted \cup {None}
    BY <1>5 DEF NoticeInv, LinksTaken
  <2>2. QED BY <1>2, <1>3, <2>1 DEF NoticeInv, LinksTaken, s
<1>12. FoundFresh'
  <2>1. \A v \in Requests : req[v].pc = "update" => req[v].message \in Messages \ {m}
    BY DEF NoticeInv, TypeOK
  <2>2. QED BY <1>2, <1>3, <2>1, HeardOf DEF NoticeInv, FoundFresh
<1>13. AnsweredRow'
  BY <1>2, <1>4 DEF NoticeInv, AnsweredRow
<1>14. NoticesKept'
  <2>1. r.whatsappMessageId \in Sends => Heard(r.whatsappMessageId) = {} /\ r.times = {}
    BY <1>5, <1>6, <1>8 DEF SentRow, FailedRow
  <2>2. QED BY <1>2, <2>1, HeardOf DEF NoticeInv, NoticesKept
<1>15. RowsOfSends'
  <2>1. \A n, k \in Messages : origin'[n] # None /\ origin'[n] = origin'[k] => n = k
    BY <1>2, <1>7 DEF NoticeInv, RowsOfSends, s
  <2>2. s # None =>
          \/ r.whatsappMessageId = s /\ r.times = {} /\ r.status = "SENT"
          \/ s \in broken /\ r = FailedRow
    BY <1>5 DEF SentRow
  <2>3. "SENT" \notin Timed
    BY DEF Timed
  <2>4. ASSUME NEW n \in Messages, origin'[n] # None
        PROVE  \/ /\ messages'[n].whatsappMessageId = origin'[n]
                  /\ messages'[n].times \subseteq Heard(origin'[n])
                  /\ messages'[n].status
                       \in (IF Heard(origin'[n]) = {} THEN {"SENT"} ELSE Heard(origin'[n]))
                  /\ messages'[n].status \in Timed => messages'[n].status \in messages'[n].times
               \/ origin'[n] \in broken /\ Heard(origin'[n]) = {} /\ messages'[n] = FailedRow
    <3>1. CASE n = m
      BY <1>2, <1>8, <2>2, <2>3, <2>4, <3>1 DEF s
    <3>2. CASE n # m
      BY <1>2, <2>4, <3>2 DEF NoticeInv, RowsOfSends
    <3>3. QED BY <3>1, <3>2
  <2>5. \A k : Heard(k) = HeardIn(handled', k)
    BY HeardNow
  <2>6. QED BY <2>1, <2>4, <2>5, RowsOfSendsNext
<1>16. QED BY <1>9, <1>10, <1>11, <1>12, <1>13, <1>14, <1>15 DEF NoticeInv

LEMMA StatusUpdateNotice ==
  ASSUME NoticeInv, TypeOK', NEW w \in Requests, StatusUpdate(w)
  PROVE  NoticeInv'
<1>1. PICK m, s, notice, status : /\ m = req[w].message /\ s = req[w].id
                                  /\ notice = req[w].notice /\ status = Mapped(notice)
  OBVIOUS
<1> DEFINE times == TimesWritten(req[w].times, status)
           r == [messages[m] EXCEPT !.status = status, !.times = times]
<1>2. /\ req \in [Requests -> Request] /\ messages \in [Messages -> Row]
      /\ req[w].pc = "update" /\ m \in Messages /\ s \in Sends /\ notice \in Notices
      /\ messages[m].whatsappMessageId = s /\ messages[m].row = "stored"
      /\ messages' = [messages EXCEPT ![m] = r] /\ req' = [req EXCEPT ![w] = Idle]
      /\ handled' = handled \cup {<<s, notice>>}
      /\ UNCHANGED <<accepted, reported, origin, broken, blurred>>
  BY <1>1 DEF NoticeInv, TypeOK, StatusUpdate, links
<1>3. /\ r.status = status /\ r.times = req[w].times \cup (Timed \cap {status})
      /\ r.whatsappMessageId = s /\ r.row = "stored"
  <2>1. messages[m] \in Row
    BY <1>2
  <2>2. QED BY <1>2, <2>1 DEF Row, TimesWritten
<1> HIDE DEF r
<1>4. messages'[m] = r /\ \A n \in Messages \ {m} : messages'[n] = messages[n]
  BY <1>2
<1>5. \A n \in Messages : /\ messages'[n].whatsappMessageId = messages[n].whatsappMessageId
                          /\ messages'[n].row = messages[n].row
  BY <1>2, <1>3, <1>4
<1>6. req'[w].pc = "idle" /\ \A v \in Requests \ {w} : req'[v] = req[v]
  BY <1>2, IdleIsRequest
<1>7. /\ origin[m] = s /\ \A n \in Messages \ {m} : origin[n] # s
      /\ \A n \in Messages \ {m} : messages[n].whatsappMessageId # s
  BY <1>2, RowOfSend
<1>8. req[w].times \subseteq Heard(s)
      /\ (s \notin blurred => req[w].times = messages[m].times)
      /\ (s \notin blurred => \A v \in Requests : req[v].pc = "update" /\ req[v].id = s => v = w)
  BY <1>1, <1>2 DEF NoticeInv, FoundFresh
<1>9. /\ Heard(s)' = Heard(s) \cup {status}
      /\ \A t : Heard(t) \subseteq Heard(t)' /\ (t # s => Heard(t)' = Heard(t))
  BY <1>1, <1>2 DEF Heard
<1>10. RowsLinked'
  BY <1>2, <1>5 DEF NoticeInv, RowsLinked
<1>11. StoredOnce' /\ LinksTaken'
  BY <1>2, <1>6 DEF NoticeInv, StoredOnce, LinksTaken
<1>12. FoundFresh'
  <2>1. \A v \in Requests : req[v].pc = "update" =>
          req[v].message \in Messages /\ messages[req[v].message].whatsappMessageId = req[v].id
    BY DEF NoticeInv, TypeOK
  <2>2. ASSUME NEW v \in Requests \ {w}, req[v].pc = "update"
        PROVE  /\ req[v].times \subseteq HeardIn(handled', req[v].id)
               /\ req[v].id \notin blurred =>
                    /\ req[v].times = messages'[req[v].message].times
                    /\ \A u \in Requests \ {w} :
                         req[u].pc = "update" /\ req[u].id = req[v].id => u = v
    <3>1. req[v].times \subseteq HeardIn(handled', req[v].id)
      BY <1>9, <2>2 DEF NoticeInv, FoundFresh, Heard, HeardIn
    <3>2. CASE req[v].id = s
      BY <1>8, <2>2, <3>1, <3>2 DEF NoticeInv, FoundFresh
    <3>3. CASE req[v].id # s
      <4>1. messages'[req[v].message] = messages[req[v].message]
        BY <1>2, <1>4, <2>1, <2>2, <3>3
      <4>2. QED BY <2>2, <3>1, <4>1 DEF NoticeInv, FoundFresh
    <3>4. QED BY <3>2, <3>3
  <2>3. QED BY <1>2, <1>6, <2>2 DEF FoundFresh, Heard, HeardIn
<1>13. AnsweredRow'
  BY <1>2, <1>5 DEF NoticeInv, AnsweredRow
<1>14. NoticesKept'
  <2>1. s \notin blurred => r.times = Timed \cap Heard(s)'
    BY <1>2, <1>3, <1>8, <1>9 DEF NoticeInv, NoticesKept
  <2>2. QED BY <1>2, <1>3, <1>4, <1>7, <1>9, <2>1 DEF NoticeInv, NoticesKept
<1>15. RowsOfSends'
  <2>1. /\ r.whatsappMessageId = s /\ r.times \subseteq Heard(s)'
        /\ r.status \in (IF Heard(s)' = {} THEN {"SENT"} ELSE Heard(s)')
        /\ r.status \in Timed => r.status \in r.times
    BY <1>3, <1>8, <1>9
  <2>2. ASSUME NEW n \in Messages, origin[n] # None, n # m
        PROVE  \/ /\ messages'[n].whatsappMessageId = origin[n]
                  /\ messages'[n].times \subseteq Heard(origin[n])
                  /\ messages'[n].status
                       \in (IF Heard(origin[n]) = {} THEN {"SENT"} ELSE Heard(origin[n]))
                  /\ messages'[n].status \in Timed => messages'[n].status \in messages'[n].times
               \/ origin[n] \in broken /\ Heard(origin[n]) = {} /\ messages'[n] = FailedRow
    BY <1>4, <2>2 DEF NoticeInv, RowsOfSends
  <2>3. /\ HeardIn(handled', s) = Heard(s)'
        /\ \A k : k # s => HeardIn(handled', k) = Heard(k)
    BY <1>9 DEF Heard, HeardIn
  <2>4. \A n, k \in Messages : origin'[n] # None /\ origin'[n] = origin'[k] => n = k
    BY <1>2 DEF NoticeInv, RowsOfSends
  <2>5. \A n \in Messages : n # m => origin[n] # s
    BY <1>7
  <2>6. ASSUME NEW n \in Messages, origin'[n] # None
        PROVE  \/ /\ messages'[n].whatsappMessageId = origin'[n]
                  /\ messages'[n].times \subseteq HeardIn(handled', origin'[n])
                  /\ messages'[n].status
                       \in (IF HeardIn(handled', origin'[n]) = {} THEN {"SENT"}
                            ELSE HeardIn(handled', origin'[n]))
                  /\ messages'[n].status \in Timed => messages'[n].status \in messages'[n].times
               \/ /\ origin'[n] \in broken' /\ HeardIn(handled', origin'[n]) = {}
                  /\ messages'[n] = FailedRow
    <3>1. CASE n = m
      <4>1. origin'[n] = s /\ messages'[n] = r
        BY <1>2, <1>4, <1>7, <3>1
      <4>2. QED BY <2>1, <2>3, <4>1
    <3>2. CASE n # m
      <4>1. origin'[n] = origin[n] /\ broken' = broken
        BY <1>2
      <4>2. HeardIn(handled', origin'[n]) = Heard(origin[n])
        BY <2>3, <2>5, <3>2, <4>1
      <4>3. QED BY <2>2, <2>6, <3>2, <4>1, <4>2
    <3>3. QED BY <3>1, <3>2
  <2>7. QED BY <2>4, <2>6, RowsOfSendsNext
<1>16. QED BY <1>10, <1>11, <1>12, <1>13, <1>14, <1>15 DEF NoticeInv

LEMMA NextNotice == NoticeInv /\ [Next]_vars => NoticeInv'
<1> SUFFICES ASSUME NoticeInv, [Next]_vars PROVE NoticeInv'
  OBVIOUS
<1>0. TypeOK' /\ req \in [Requests -> Request]
  BY NextType DEF NoticeInv, TypeOK
<1>1. ASSUME NEW s \in Sends, NEW notice \in Notices, Report(s, notice)
      PROVE  NoticeInv'
  BY <1>0, <1>1, ReportNotice
<1>2. ASSUME NEW w \in Requests, NEW s \in Sends, CallAccepted(w, s)
      PROVE  NoticeInv'
  BY <1>0, <1>2, CallAcceptedNotice
<1>3. ASSUME NEW w \in Requests, NEW s \in Sends, NEW notice \in Notices, NEW m \in Messages,
             StatusFind(w, s, notice, m)
      PROVE  NoticeInv'
  BY <1>0, <1>3, StatusFindNotice
<1>4. ASSUME NEW w \in Requests, StatusUpdate(w)
      PROVE  NoticeInv'
  BY <1>0, <1>4, StatusUpdateNotice
<1>5. ASSUME NEW w \in Requests, NEW m \in Messages, StoreSent(w, m)
      PROVE  NoticeInv'
  BY <1>0, <1>5, RowNotice DEF StoreSent, SentRow
<1>6. ASSUME NEW w \in Requests, NEW m \in Messages, StoreFailed(w, m)
      PROVE  NoticeInv'
  BY <1>0, <1>6, RowNotice DEF StoreFailed, FailedRow
<1>7. ASSUME NEW w \in Requests, NEW m \in Messages, ReceiveStore(w, m)
      PROVE  NoticeInv'
  <2>1. req[w].id \in Inbounds
    BY <1>7 DEF ReceiveStore, NoticeInv, TypeOK
  <2>2. QED BY <1>0, <1>7, <2>1, RowNotice DEF ReceiveStore, ReceivedRow, links
<1>8. ASSUME NEW w \in Requests, CallFails(w) \/ StoreFails(w)
      PROVE  NoticeInv'
  BY <1>0, <1>8, CallFailsNotice, StoreFailsNotice
<1>9. ASSUME NEW w \in Requests,
             \/ \E flag \in Flags : CreateAccountFind(w, flag)
             \/ \E a \in Accounts : CreateAccountCommit(w, a)
             \/ \E template \in Templates : SendBegin(w, template)
             \/ \E i \in Inbounds : Receive(w, i)
             \/ Abort(w)
      PROVE  NoticeInv'
  <2>1. UNCHANGED <<messages, accepted, reported, handled, origin, broken, blurred>>
    BY <1>9 DEF CreateAccountFind, CreateAccountCommit, SendBegin, Receive, Abort, links
  <2>2. \E q : q.pc \notin {"store", "storeFailed", "update"} /\ req' = [req EXCEPT ![w] = q]
    <3>1. CASE \E flag \in Flags : CreateAccountFind(w, flag)
      BY <3>1 DEF CreateAccountFind, Idle
    <3>2. CASE (\E a \in Accounts : CreateAccountCommit(w, a)) \/ Abort(w)
      BY <3>2, IdleIsRequest DEF CreateAccountCommit, Abort
    <3>3. CASE \E template \in Templates : SendBegin(w, template)
      BY <3>3 DEF SendBegin, Idle
    <3>4. CASE \E i \in Inbounds : Receive(w, i)
      BY <3>4 DEF Receive, Idle
    <3>5. QED BY <1>9, <3>1, <3>2, <3>3, <3>4
  <2>3. QED BY <1>0, <2>1, <2>2, NoNotice
<1>10. CASE UNCHANGED vars
  <2>1. UNCHANGED <<messages, accepted, req, handled, origin, broken, blurred>>
    BY <1>10 DEF vars, links
  <2>2. RowsLinked' /\ StoredOnce' /\ LinksTaken' /\ AnsweredRow'
    BY <2>1 DEF NoticeInv, RowsLinked, StoredOnce, LinksTaken, AnsweredRow
  <2>3. NoticesKept' /\ RowsOfSends' /\ FoundFresh'
    BY <2>1, HeardOf DEF NoticeInv, NoticesKept, RowsOfSends, FoundFresh
  <2>4. QED BY <1>0, <2>2, <2>3 DEF NoticeInv
<1>11. QED BY <1>1, <1>2, <1>3, <1>4, <1>5, <1>6, <1>7, <1>8, <1>9, <1>10 DEF Next, Serve

(* Delivered, read and failed notices that were answered stay in the row of *)
(* their message, in whatever order and however often they came, unless two *)
(* of the message were handled at once (processStatuses).                   *)
THEOREM NoticesAlwaysKept == Spec => []NoticesKept
<1>1. NoticeInv => NoticesKept
  BY DEF NoticeInv
<1>2. QED BY <1>1, InitNotice, NextNotice, PTL DEF Spec

(* Of a message the provider took there is one row at most, which shows     *)
(* what answered notices of that very message said and the time with it,    *)
(* or says FAILED without an id because the answer or the insert failed     *)
(* (processStatuses, the catch of sendOrderCreated).                        *)
THEOREM RowsOfSendsTrue == Spec => []RowsOfSends
<1>1. NoticeInv => RowsOfSends
  BY DEF NoticeInv
<1>2. QED BY <1>1, InitNotice, NextNotice, PTL DEF Spec
=============================================================================
