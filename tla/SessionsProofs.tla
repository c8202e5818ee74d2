--------------------------- MODULE SessionsProofs ---------------------------
(***************************************************************************)
(* What holds of Sessions for any browsers, users, sessions, requests and  *)
(* lifetimes.                                                              *)
(***************************************************************************)
EXTENDS Sessions, TLAPS

USE SessionsAssumption

LEMMA InitType == Init => TypeOK
  BY DEF Init, TypeOK, Seconds, Row, Unborn, Tokens, Temporary, Deadlines, Cookie, NoCookie,
         Request, Idle, Carrying

LEMMA RotatedType ==
  ASSUME NEW row \in Row, NEW iat \in Tokens, NEW expires \in Deadlines
  PROVE  RotatedRow(row, iat, expires) \in Row
  BY DEF RotatedRow, Row

LEMMA NextType == TypeOK /\ [Next]_vars => TypeOK'
<1> SUFFICES ASSUME TypeOK, [Next]_vars PROVE TypeOK'
  OBVIOUS
<1> USE DEF TypeOK
<1>a. now \in Int /\ now >= 0 /\ now <= MaxTime /\ now \in Tokens
  BY DEF Seconds, Tokens
<1>b. now + RowLifetime \in Deadlines
  BY <1>a DEF Deadlines
<1>c. \A w \in Requests : req[w] \in Request
  OBVIOUS
<1>d. Idle \in Request
  BY DEF Idle, Request, Carrying, Tokens, Temporary, Deadlines
<1>e. \A b \in Browsers : jar[b] # NoCookie => jar[b].session \in SessionIds /\ jar[b].iat \in Seconds
  BY DEF Cookie
<1>f. NoCookie \in Cookie
  BY DEF Cookie
<1>1. CASE UNCHANGED vars
  BY <1>1 DEF vars, history
<1>2. ASSUME NEW w \in Requests, NEW b \in Browsers, NEW u \in Users, LoginBegin(w, b, u)
      PROVE  TypeOK'
  <2>1. [Idle EXCEPT !.pc = "create", !.browser = b, !.user = u,
                     !.expires = now + RowLifetime] \in Request
    BY <1>b DEF Idle, Request, Carrying, Tokens, Temporary
  <2>2. QED BY <1>2, <2>1 DEF LoginBegin, history
<1>3. ASSUME NEW w \in Requests, NEW s \in SessionIds, LoginCreate(w, s)
      PROVE  TypeOK'
  <2>1. [req[w] EXCEPT !.pc = "rotate", !.session = s, !.iat = now] \in Request
    BY <1>3, <1>a, <1>c DEF LoginCreate, Request, Carrying
  <2>2. [status |-> "ACTIVE", user |-> req[w].user, browser |-> req[w].browser,
         hash |-> Temporary, expires |-> req[w].expires] \in Row
    BY <1>3, <1>c DEF LoginCreate, Request, Row, Tokens
  <2>3. QED BY <1>3, <2>1, <2>2 DEF LoginCreate, history
<1>4. ASSUME NEW w \in Requests, NEW b \in Browsers, RefreshVerify(w, b)
      PROVE  TypeOK'
  <2>1. [Idle EXCEPT !.pc = "verified", !.browser = b, !.session = jar[b].session] \in Request
    BY <1>4, <1>d, <1>e DEF RefreshVerify, Request, Carrying
  <2>2. QED BY <1>4, <1>e, <2>1 DEF RefreshVerify, history
<1>5. ASSUME NEW w \in Requests, NEW b \in Browsers, RefreshFindsExpired(w, b)
      PROVE  TypeOK'
  <2>1. [Idle EXCEPT !.pc = "expire", !.browser = b, !.session = jar[b].session] \in Request
    BY <1>5, <1>d, <1>e DEF RefreshFindsExpired, Request, Carrying
  <2>2. QED BY <1>5, <2>1 DEF RefreshFindsExpired, history
<1>6. ASSUME NEW w \in Requests, MarkExpired(w)
      PROVE  TypeOK'
  <2>1. \A s \in SessionIds : [sessions[s] EXCEPT !.status = "EXPIRED"] \in Row
    BY DEF Row
  <2>2. req[w].session \in SessionIds
    BY <1>6, <1>c DEF MarkExpired, Request
  <2>3. QED BY <1>6, <1>d, <2>1, <2>2 DEF MarkExpired, history
<1>7. ASSUME NEW w \in Requests, RefreshSign(w)
      PROVE  TypeOK'
  <2>1. [req[w] EXCEPT !.pc = "rotate", !.iat = now, !.expires = now + RowLifetime] \in Request
    BY <1>7, <1>a, <1>b, <1>c DEF RefreshSign, Request, Carrying
  <2>2. QED BY <1>7, <2>1 DEF RefreshSign, history
<1>8. ASSUME NEW w \in Requests, Rotate(w)
      PROVE  TypeOK'
  <2>1. [req[w] EXCEPT !.pc = "respond"] \in Request
    BY <1>8, <1>c DEF Rotate, Request, Carrying
  <2>2. req[w].iat \in Tokens /\ req[w].expires \in Deadlines
    BY <1>c DEF Request
  <2>3. \A s \in SessionIds : RotatedRow(sessions[s], req[w].iat, req[w].expires) \in Row
    BY <2>2, RotatedType
  <2>4. req[w].session \in SessionIds
    BY <1>8, <1>c DEF Rotate, Request, Carrying
  <2>5. /\ undelivered' \in [SessionIds -> Requests \cup {None}]
        /\ astray' \in SUBSET SessionIds /\ renewed' \in SUBSET SessionIds
    BY <1>8, <2>4 DEF Rotate
  <2>6. QED BY <1>8, <2>1, <2>3, <2>5 DEF Rotate
<1>9. ASSUME NEW w \in Requests, Respond(w)
      PROVE  TypeOK'
  <2>1. /\ req[w].session \in SessionIds /\ req[w].iat \in Seconds /\ req[w].browser \in Browsers
    BY <1>9, <1>c DEF Respond, Request, Carrying
  <2>2. [session |-> req[w].session, iat |-> req[w].iat] \in Cookie
    BY <2>1 DEF Cookie
  <2>3. /\ undelivered' \in [SessionIds -> Requests \cup {None}]
        /\ astray' \in SUBSET SessionIds
    BY <1>9, <2>1 DEF Respond
  <2>4. QED BY <1>9, <1>d, <2>1, <2>2, <2>3 DEF Respond
<1>10. ASSUME NEW w \in Requests, NEW b \in Browsers, Logout(w, b)
       PROVE  TypeOK'
  <2>1. \A s \in SessionIds : RevokedRow(sessions[s]) \in Row
    BY DEF RevokedRow, Row
  <2>2. [Idle EXCEPT !.pc = "clear", !.browser = b] \in Request
    BY <1>d DEF Request, Carrying
  <2>3. QED BY <1>10, <2>1, <2>2 DEF Logout, history
<1>11. ASSUME NEW w \in Requests, NEW b \in Browsers, LogoutAll(w, b)
       PROVE  TypeOK'
  <2>1. \A s \in SessionIds : RevokedRow(sessions[s]) \in Row
    BY DEF RevokedRow, Row
  <2>2. [Idle EXCEPT !.pc = "clear", !.browser = b] \in Request
    BY <1>d DEF Request, Carrying
  <2>3. QED BY <1>11, <2>1, <2>2 DEF LogoutAll, history
<1>12. ASSUME NEW w \in Requests, RespondClear(w)
       PROVE  TypeOK'
  BY <1>12, <1>d, <1>f DEF RespondClear, history
<1>13. ASSUME NEW w \in Requests, Abort(w)
       PROVE  TypeOK'
  <2>1. /\ undelivered' \in [SessionIds -> Requests \cup {None}]
        /\ astray' \in SUBSET SessionIds
    BY <1>13, <1>c DEF Abort, Request, Carrying
  <2>2. QED BY <1>13, <1>d, <2>1 DEF Abort
<1>14. ASSUME NEW b \in Browsers, DropCookie(b)
       PROVE  TypeOK'
  BY <1>14, <1>f DEF DropCookie, history
<1>15. CASE Tick
  BY <1>15 DEF Tick, Seconds, history
<1>16. QED
  BY <1>1, <1>2, <1>3, <1>4, <1>5, <1>6, <1>7, <1>8, <1>9, <1>10, <1>11, <1>12, <1>13,
     <1>14, <1>15
  DEF Next, Serve

\* The table, the cookies and the requests keep to their columns' types.
THEOREM TypeCorrect == Spec => []TypeOK
<1>1. Init => TypeOK
  BY InitType
<1>2. TypeOK /\ [Next]_vars => TypeOK'
  BY NextType
<1>3. QED BY <1>1, <1>2, PTL DEF Spec

----------------------------------------------------------------------------
(* Sessions end for good. *)

LEMMA StepEnds ==
  ASSUME TypeOK, [Next]_vars, NEW s \in SessionIds,
         sessions[s].status \in {"EXPIRED", "REVOKED"}
  PROVE  sessions'[s].status \in {"EXPIRED", "REVOKED"}
<1>0. sessions \in [SessionIds -> Row] /\ sessions[s] \in Row
  BY DEF TypeOK
<1>1. ASSUME NEW w \in Requests, MarkExpired(w)
      PROVE  sessions'[s].status \in {"EXPIRED", "REVOKED"}
  BY <1>0, <1>1 DEF MarkExpired, Row
<1>2. ASSUME NEW w \in Requests, Rotate(w)
      PROVE  sessions'[s].status \in {"EXPIRED", "REVOKED"}
  BY <1>0, <1>2 DEF Rotate, RotatedRow, Row
<1>3. ASSUME NEW w \in Requests, NEW b \in Browsers, Logout(w, b)
      PROVE  sessions'[s].status \in {"EXPIRED", "REVOKED"}
  BY <1>0, <1>3 DEF Logout, RevokedRow, Row
<1>4. ASSUME NEW w \in Requests, NEW b \in Browsers, LogoutAll(w, b)
      PROVE  sessions'[s].status \in {"EXPIRED", "REVOKED"}
  BY <1>0, <1>4 DEF LogoutAll, RevokedRow, Row
<1>5. ASSUME NEW w \in Requests, NEW t \in SessionIds, LoginCreate(w, t)
      PROVE  sessions'[s].status \in {"EXPIRED", "REVOKED"}
  BY <1>0, <1>5 DEF LoginCreate
<1>6. QED
  BY <1>1, <1>2, <1>3, <1>4, <1>5
  DEF Next, Serve, vars, LoginBegin, RefreshVerify, RefreshFindsExpired, RefreshSign, Respond,
      RespondClear, Abort, DropCookie, Tick

\* A session that was revoked or has expired is never active again, whatever
\* requests that read it earlier still write.
THEOREM SessionsEndForGood == Spec => EndedForGood
<1>1. TypeOK /\ [Next]_vars =>
        [\A s \in SessionIds : sessions[s].status \in {"EXPIRED", "REVOKED"} =>
           sessions'[s].status \in {"EXPIRED", "REVOKED"}]_vars
  BY StepEnds
<1>2. QED BY <1>1, TypeCorrect, PTL DEF Spec, EndedForGood

----------------------------------------------------------------------------
(* The cookie.  CookieGood says nothing while an answer is on its way, so it   *)
(* is not inductive: that the answer on its way is the one with the stored     *)
(* token must be known as well, and that only the browser that logged in ever  *)
(* holds or presents the session's token.                                      *)

\* The requests that carry s between verifying or creating it and answering.
Carriers(s) == {w \in Requests : req[w].pc \in Carrying /\ req[w].session = s}

\* Sessions that browsers and requests name were created, for that browser.
Owned(s) ==
  /\ \A b \in Browsers : jar[b] # NoCookie /\ jar[b].session = s =>
       sessions[s].status # "NONE" /\ sessions[s].browser = b
  /\ \A w \in Carriers(s) : sessions[s].status # "NONE" /\ sessions[s].browser = req[w].browser

\* Who wrote the token of s and has not answered is about to answer with it.
Pending(s) ==
  undelivered[s] # None =>
    /\ undelivered[s] \in Carriers(s)
    /\ req[undelivered[s]].pc = "respond"
    /\ req[undelivered[s]].iat = sessions[s].hash

Delivered(s) ==
  \/ s \in astray
  \/ undelivered[s] # None
  \/ \A b \in Browsers : jar[b] # NoCookie /\ jar[b].session = s =>
       jar[b].iat = sessions[s].hash

Vouched(s) == Pending(s) /\ Delivered(s)

SessionInv == TypeOK /\ \A s \in SessionIds : Owned(s) /\ Vouched(s)

\* A request that does not carry s before or after the step.
LEMMA SameCarriers ==
  ASSUME TypeOK, NEW w \in Requests, NEW r, NEW s, req' = [req EXCEPT ![w] = r],
         w \notin Carriers(s), ~(r.pc \in Carrying /\ r.session = s)
  PROVE  /\ Carriers(s)' = Carriers(s)
         /\ \A v \in Carriers(s) : req'[v] = req[v]
  BY DEF TypeOK, Carriers

\* A step that leaves the row, the cookies and the carriers of s alone, or takes cookies away.
LEMMA Untouched ==
  ASSUME NEW s \in SessionIds, Owned(s), Vouched(s),
         Carriers(s)' = Carriers(s), \A v \in Carriers(s) : req'[v] = req[v],
         sessions'[s].status # "NONE" \/ sessions[s].status = "NONE",
         sessions'[s].browser = sessions[s].browser, sessions'[s].hash = sessions[s].hash,
         \A b \in Browsers : jar'[b] = jar[b] \/ jar'[b] = NoCookie,
         undelivered'[s] = undelivered[s], s \in astray => s \in astray'
  PROVE  Owned(s)' /\ Vouched(s)'
<1>1. Owned(s)'
  BY DEF Owned
<1>2. Pending(s)'
  BY DEF Vouched, Pending
<1>3. Delivered(s)'
  BY DEF Vouched, Delivered
<1>4. QED BY <1>1, <1>2, <1>3 DEF Vouched

LEMMA NextSession == SessionInv /\ [Next]_vars => SessionInv'
<1> SUFFICES ASSUME SessionInv, [Next]_vars, NEW s \in SessionIds
             PROVE  Owned(s)' /\ Vouched(s)'
  BY NextType DEF SessionInv
<1>0. TypeOK /\ Owned(s) /\ Vouched(s)
  BY DEF SessionInv
<1>t. /\ sessions \in [SessionIds -> Row] /\ sessions[s] \in Row
      /\ req \in [Requests -> Request] /\ jar \in [Browsers -> Cookie]
      /\ undelivered \in [SessionIds -> Requests \cup {None}]
  BY <1>0 DEF TypeOK
<1>i. Idle.pc = "idle" /\ "idle" \notin Carrying /\ "create" \notin Carrying
      /\ "clear" \notin Carrying /\ "expire" \notin Carrying
  BY DEF Idle, Carrying
\* A request moves to a step that carries no session.
<1>a. ASSUME NEW w \in Requests, NEW r, req' = [req EXCEPT ![w] = r],
             req[w].pc \notin Carrying, r.pc \notin Carrying,
             sessions'[s].status # "NONE" \/ sessions[s].status = "NONE",
             sessions'[s].browser = sessions[s].browser, sessions'[s].hash = sessions[s].hash,
             \A b \in Browsers : jar'[b] = jar[b] \/ jar'[b] = NoCookie,
             UNCHANGED history
      PROVE  Owned(s)' /\ Vouched(s)'
  <2>1. w \notin Carriers(s)
    BY <1>a DEF Carriers
  <2>2. undelivered'[s] = undelivered[s] /\ astray' = astray
    BY <1>a DEF history
  <2>3. QED BY <1>0, <1>a, <2>1, <2>2, SameCarriers, Untouched
<1>1. CASE UNCHANGED vars
  BY <1>0, <1>1 DEF vars, history, Owned, Vouched, Pending, Delivered, Carriers
<1>2. ASSUME NEW w \in Requests, NEW b \in Browsers, NEW u \in Users, LoginBegin(w, b, u)
      PROVE  Owned(s)' /\ Vouched(s)'
  <2> DEFINE r == [Idle EXCEPT !.pc = "create", !.browser = b, !.user = u,
                               !.expires = now + RowLifetime]
  <2>1. r.pc = "create" /\ req' = [req EXCEPT ![w] = r]
    BY <1>2 DEF LoginBegin, Idle
  <2> HIDE DEF r
  <2>2. /\ req[w].pc \notin Carrying /\ r.pc \notin Carrying
        /\ sessions' = sessions /\ jar' = jar /\ UNCHANGED history
    BY <1>2, <1>i, <2>1 DEF LoginBegin
  <2>3. QED BY <1>a, <2>1, <2>2
<1>3. ASSUME NEW w \in Requests, NEW t \in SessionIds, LoginCreate(w, t)
      PROVE  Owned(s)' /\ Vouched(s)'
  <2> DEFINE r == [req[w] EXCEPT !.pc = "rotate", !.session = t, !.iat = now]
  <2>1. /\ r.pc = "rotate" /\ r.session = t /\ r.browser = req[w].browser
        /\ req' = [req EXCEPT ![w] = r]
    BY <1>3, <1>t DEF LoginCreate, Request
  <2> HIDE DEF r
  <2>2. w \notin Carriers(s)
    BY <1>3, <1>i DEF LoginCreate, Carriers
  <2>3. jar' = jar /\ undelivered' = undelivered /\ astray' = astray
    BY <1>3 DEF LoginCreate, history
  <2>4. CASE s # t
    <3>1. sessions'[s] = sessions[s]
      BY <1>3, <1>t, <2>4 DEF LoginCreate
    <3>2. ~(r.pc \in Carrying /\ r.session = s)
      BY <2>1, <2>4
    <3>3. Carriers(s)' = Carriers(s) /\ \A v \in Carriers(s) : req'[v] = req[v]
      BY <1>0, <2>1, <2>2, <3>2, SameCarriers
    <3>4. QED BY <1>0, <2>3, <3>1, <3>3, Untouched
  <2>5. CASE s = t
    <3>1. Carriers(s) = {} /\ \A b \in Browsers : jar[b] # NoCookie => jar[b].session # s
      BY <1>0, <1>3, <2>5 DEF LoginCreate, Owned
    <3>2. Carriers(s)' = {w} /\ req'[w] = r
      BY <1>t, <2>1, <2>5, <3>1 DEF Carriers, Carrying
    <3>3. sessions'[s].status = "ACTIVE" /\ sessions'[s].browser = req[w].browser
      BY <1>3, <1>t, <2>5 DEF LoginCreate
    <3>4. Owned(s)'
      BY <2>1, <2>3, <3>1, <3>2, <3>3 DEF Owned
    <3>5. undelivered[s] = None
      BY <1>0, <3>1 DEF Vouched, Pending
    <3>6. Vouched(s)'
      BY <2>3, <3>1, <3>5 DEF Vouched, Pending, Delivered
    <3>7. QED BY <3>4, <3>6
  <2>6. QED BY <2>4, <2>5
<1>4. ASSUME NEW w \in Requests, NEW b \in Browsers, RefreshVerify(w, b)
      PROVE  Owned(s)' /\ Vouched(s)'
  <2> DEFINE t == jar[b].session
             r == [Idle EXCEPT !.pc = "verified", !.browser = b, !.session = t]
  <2>1. r.pc = "verified" /\ r.session = t /\ r.browser = b /\ req' = [req EXCEPT ![w] = r]
    BY <1>4 DEF RefreshVerify, Idle
  <2>2. /\ w \notin Carriers(s) /\ sessions' = sessions /\ jar' = jar
        /\ undelivered' = undelivered /\ astray' = astray
    BY <1>4, <1>i DEF RefreshVerify, Carriers, history
  <2>3. jar[b] # NoCookie /\ sessions[t].status = "ACTIVE"
    BY <1>4 DEF RefreshVerify
  <2> HIDE DEF r, t
  <2>4. CASE s # t
    BY <1>0, <2>1, <2>2, <2>4, SameCarriers, Untouched
  <2>5. CASE s = t
    <3>1. Carriers(s)' = Carriers(s) \cup {w} /\ req'[w] = r
          /\ \A v \in Carriers(s) : req'[v] = req[v]
      BY <1>t, <2>1, <2>2, <2>5 DEF Carriers, Carrying
    <3>2. sessions[s].browser = b
      BY <1>0, <2>3, <2>5 DEF Owned, t
    <3>3. Owned(s)'
      BY <1>0, <2>1, <2>2, <2>3, <2>5, <3>1, <3>2 DEF Owned
    <3>4. Vouched(s)'
      BY <1>0, <2>2, <3>1 DEF Vouched, Pending, Delivered
    <3>5. QED BY <3>3, <3>4
  <2>6. QED BY <2>4, <2>5
<1>5. ASSUME NEW w \in Requests, NEW b \in Browsers, RefreshFindsExpired(w, b)
      PROVE  Owned(s)' /\ Vouched(s)'
  <2> DEFINE r == [Idle EXCEPT !.pc = "expire", !.browser = b, !.session = jar[b].session]
  <2>1. r.pc = "expire" /\ req' = [req EXCEPT ![w] = r]
    BY <1>5 DEF RefreshFindsExpired, Idle
  <2> HIDE DEF r
  <2>2. /\ req[w].pc \notin Carrying /\ r.pc \notin Carrying
        /\ sessions' = sessions /\ jar' = jar /\ UNCHANGED history
    BY <1>5, <1>i, <2>1 DEF RefreshFindsExpired
  <2>3. QED BY <1>a, <2>1, <2>2
<1>6. ASSUME NEW w \in Requests, MarkExpired(w)
      PROVE  Owned(s)' /\ Vouched(s)'
  <2>1. /\ sessions'[s].browser = sessions[s].browser /\ sessions'[s].hash = sessions[s].hash
        /\ sessions'[s].status # "NONE" \/ sessions[s].status = "NONE"
    BY <1>6, <1>t DEF MarkExpired, Row
  <2>2. QED BY <1>6, <1>a, <1>i, <2>1 DEF MarkExpired
<1>7. ASSUME NEW w \in Requests, RefreshSign(w)
      PROVE  Owned(s)' /\ Vouched(s)'
  <2> DEFINE r == [req[w] EXCEPT !.pc = "rotate", !.iat = now, !.expires = now + RowLifetime]
  <2>1. /\ r.pc = "rotate" /\ r.session = req[w].session /\ r.browser = req[w].browser
        /\ req' = [req EXCEPT ![w] = r] /\ req[w].pc = "verified"
    BY <1>7, <1>t DEF RefreshSign, Request
  <2>2. sessions' = sessions /\ jar' = jar /\ undelivered' = undelivered /\ astray' = astray
    BY <1>7 DEF RefreshSign, history
  <2> HIDE DEF r
  <2>3. /\ \A v \in Requests : req'[v] = IF v = w THEN r ELSE req[v]
        /\ Carriers(s)' = Carriers(s)
    BY <1>t, <2>1 DEF Carriers, Carrying
  <2>4. Owned(s)'
    BY <1>0, <2>1, <2>2, <2>3 DEF Owned, Carriers
  <2>5. Pending(s)'
    <3>1. undelivered[s] # w /\ (undelivered[s] # None => undelivered[s] \in Requests)
      BY <1>0, <1>t, <2>1 DEF Vouched, Pending
    <3>2. QED BY <1>0, <2>2, <2>3, <3>1 DEF Vouched, Pending
  <2>6. Delivered(s)'
    BY <1>0, <2>2 DEF Vouched, Delivered
  <2>7. QED BY <2>4, <2>5, <2>6 DEF Vouched
<1>8. ASSUME NEW w \in Requests, Rotate(w)
      PROVE  Owned(s)' /\ Vouched(s)'
  <2> DEFINE r == [req[w] EXCEPT !.pc = "respond"]
             t == req[w].session
  <2>1. /\ r.pc = "respond" /\ r.session = t /\ r.browser = req[w].browser /\ r.iat = req[w].iat
        /\ req' = [req EXCEPT ![w] = r] /\ req[w].pc = "rotate" /\ jar' = jar
    BY <1>8, <1>t DEF Rotate, Request
  <2>2. /\ sessions'[s].status = sessions[s].status
        /\ sessions'[s].browser = sessions[s].browser
        /\ sessions'[s].hash = IF s = t THEN req[w].iat ELSE sessions[s].hash
    BY <1>8, <1>t DEF Rotate, RotatedRow, Row
  <2>3. /\ undelivered'[s] = IF s = t THEN w ELSE undelivered[s]
        /\ s # t => (s \in astray => s \in astray')
    BY <1>8, <1>t DEF Rotate
  <2> HIDE DEF r
  <2>4. /\ \A v \in Requests : req'[v] = IF v = w THEN r ELSE req[v]
        /\ Carriers(s)' = Carriers(s)
    BY <1>t, <2>1 DEF Carriers, Carrying
  <2>5. Owned(s)'
    BY <1>0, <2>1, <2>2, <2>4 DEF Owned, Carriers
  <2>6. CASE s # t
    <3>1. w \notin Carriers(s) /\ \A v \in Carriers(s) : req'[v] = req[v]
      BY <2>4, <2>6 DEF Carriers
    <3>2. QED BY <1>0, <2>1, <2>2, <2>3, <2>4, <2>6, <3>1, Untouched
  <2>7. CASE s = t
    <3>1. w \in Carriers(s)' /\ req'[w].pc = "respond" /\ req'[w].iat = sessions'[s].hash
      BY <2>1, <2>2, <2>4, <2>7 DEF Carriers, Carrying
    <3>2. undelivered'[s] = w /\ w # None
      BY <2>3, <2>7
    <3>3. QED BY <2>5, <3>1, <3>2 DEF Vouched, Pending, Delivered
  <2>8. QED BY <2>6, <2>7
<1>9. ASSUME NEW w \in Requests, Respond(w)
      PROVE  Owned(s)' /\ Vouched(s)'
  <2> DEFINE t == req[w].session
             b == req[w].browser
  <2>1. /\ req[w].pc = "respond" /\ t \in SessionIds /\ b \in Browsers /\ req[w].iat \in Seconds
        /\ sessions' = sessions
        /\ jar' = [jar EXCEPT ![b] = [session |-> t, iat |-> req[w].iat]]
        /\ req' = [req EXCEPT ![w] = Idle]
    BY <1>9, <1>t DEF Respond, Request, Carrying
  <2>2. /\ \A v \in Requests : req'[v] = IF v = w THEN Idle ELSE req[v]
        /\ \A c \in Browsers : jar'[c] = IF c = b THEN [session |-> t, iat |-> req[w].iat]
                                                  ELSE jar[c]
        /\ Carriers(s)' = Carriers(s) \ {w}
    BY <1>t, <1>i, <2>1 DEF Carriers
  <2>3. /\ undelivered'[s] = IF s = t /\ undelivered[t] = w THEN None ELSE undelivered[s]
        /\ s \in astray => s \in astray'
        /\ s = t /\ undelivered[s] = None => s \in astray'
    BY <1>9, <1>t DEF Respond
  <2>4. \A v \in Carriers(s) : v # w => v \in Carriers(s)' /\ req'[v] = req[v]
    BY <2>2 DEF Carriers
  <2>5. CASE s # t
    <3>1. Carriers(s)' = Carriers(s) /\ \A v \in Carriers(s) : req'[v] = req[v]
      BY <2>2, <2>5 DEF Carriers
    <3>2. \A c \in Browsers : jar'[c] # NoCookie /\ jar'[c].session = s => jar'[c] = jar[c]
      BY <2>2, <2>5
    <3>3. Owned(s)'
      BY <1>0, <2>1, <3>1, <3>2 DEF Owned
    <3>4. undelivered'[s] = undelivered[s]
      BY <2>3, <2>5
    <3>5. Vouched(s)'
      BY <1>0, <2>1, <2>3, <3>1, <3>2, <3>4 DEF Vouched, Pending, Delivered
    <3>6. QED BY <3>3, <3>5
  <2>6. CASE s = t
    <3>1. w \in Carriers(s) /\ sessions[s].status # "NONE" /\ sessions[s].browser = b
      BY <1>0, <2>1, <2>6 DEF Carriers, Carrying, Owned
    <3>2. \A v \in Carriers(s)' : v \in Carriers(s) /\ req'[v] = req[v]
      BY <2>2 DEF Carriers
    <3>3. Owned(s)'
      BY <1>0, <2>1, <2>2, <3>1, <3>2 DEF Owned
    <3>4. CASE undelivered[s] = w
      <4>1. undelivered'[s] = None /\ req[w].iat = sessions[s].hash
        BY <1>0, <2>3, <2>6, <3>4 DEF Vouched, Pending
      <4>2. \A c \in Browsers : jar'[c] # NoCookie /\ jar'[c].session = s => c = b
        BY <1>0, <2>2, <3>1 DEF Owned
      <4>3. QED BY <2>1, <2>2, <3>3, <4>1, <4>2 DEF Vouched, Pending, Delivered
    <3>5. CASE undelivered[s] # w
      <4>1. undelivered'[s] = undelivered[s]
        BY <2>3, <2>6, <3>5
      <4>2. Pending(s)'
        BY <1>0, <2>1, <2>4, <3>5, <4>1 DEF Vouched, Pending
      <4>3. Delivered(s)'
        BY <2>3, <2>6, <4>1 DEF Delivered
      <4>4. QED BY <3>3, <4>2, <4>3 DEF Vouched
    <3>6. QED BY <3>4, <3>5
  <2>7. QED BY <2>5, <2>6
<1>10. ASSUME NEW w \in Requests, NEW b \in Browsers, Logout(w, b) \/ LogoutAll(w, b)
       PROVE  Owned(s)' /\ Vouched(s)'
  <2> DEFINE r == [Idle EXCEPT !.pc = "clear", !.browser = b]
  <2>1. r.pc = "clear" /\ req' = [req EXCEPT ![w] = r]
    BY <1>10 DEF Logout, LogoutAll, Idle
  <2>2. /\ sessions'[s].browser = sessions[s].browser /\ sessions'[s].hash = sessions[s].hash
        /\ sessions'[s].status # "NONE" \/ sessions[s].status = "NONE"
    BY <1>10, <1>t DEF Logout, LogoutAll, RevokedRow, Row
  <2> HIDE DEF r
  <2>3. /\ req[w].pc \notin Carrying /\ r.pc \notin Carrying
        /\ jar' = jar /\ UNCHANGED history
    BY <1>10, <1>i, <2>1 DEF Logout, LogoutAll
  <2>4. QED BY <1>a, <2>1, <2>2, <2>3
<1>11. ASSUME NEW w \in Requests, RespondClear(w)
       PROVE  Owned(s)' /\ Vouched(s)'
  <2>1. \A b \in Browsers : jar'[b] = jar[b] \/ jar'[b] = NoCookie
    BY <1>11, <1>t DEF RespondClear
  <2>2. QED BY <1>11, <1>a, <1>i, <2>1 DEF RespondClear
<1>12. ASSUME NEW w \in Requests, Abort(w)
       PROVE  Owned(s)' /\ Vouched(s)'
  <2>1. /\ sessions' = sessions /\ jar' = jar
        /\ \A v \in Requests : req'[v] = IF v = w THEN Idle ELSE req[v]
        /\ Carriers(s)' = Carriers(s) \ {w}
    BY <1>12, <1>t, <1>i DEF Abort, Carriers
  <2>2. \A v \in Carriers(s)' : v \in Carriers(s) /\ req'[v] = req[v]
    BY <2>1 DEF Carriers
  <2>3. \A v \in Carriers(s) : v # w => v \in Carriers(s)' /\ req'[v] = req[v]
    BY <2>1 DEF Carriers
  <2>4. Owned(s)'
    BY <1>0, <2>1, <2>2 DEF Owned
  <2>5. CASE undelivered[s] = w
    <3>1. req[w].pc = "respond" /\ req[w].session = s
      BY <1>0, <2>5 DEF Vouched, Pending, Carriers
    <3>2. undelivered'[s] = None /\ s \in astray'
      BY <1>12, <1>t, <2>5, <3>1 DEF Abort
    <3>3. QED BY <2>4, <3>2 DEF Vouched, Pending, Delivered
  <2>6. CASE undelivered[s] # w
    <3>1. undelivered'[s] = undelivered[s] /\ (s \in astray => s \in astray')
      BY <1>12, <1>t, <2>6 DEF Abort
    <3>2. Pending(s)'
      BY <1>0, <2>1, <2>3, <2>6, <3>1 DEF Vouched, Pending
    <3>3. Delivered(s)'
      BY <1>0, <2>1, <3>1 DEF Vouched, Delivered
    <3>4. QED BY <2>4, <3>2, <3>3 DEF Vouched
  <2>7. QED BY <2>5, <2>6
<1>13. ASSUME NEW b \in Browsers, DropCookie(b)
       PROVE  Owned(s)' /\ Vouched(s)'
  <2>1. /\ \A c \in Browsers : jar'[c] = jar[c] \/ jar'[c] = NoCookie
        /\ Carriers(s)' = Carriers(s) /\ req' = req /\ sessions' = sessions
        /\ undelivered' = undelivered /\ astray' = astray
    BY <1>13, <1>t DEF DropCookie, Carriers, history
  <2>2. QED BY <1>0, <2>1, Untouched
<1>14. CASE Tick
  BY <1>0, <1>14 DEF Tick, history, Owned, Vouched, Pending, Delivered, Carriers
<1>15. QED
  BY <1>1, <1>2, <1>3, <1>4, <1>5, <1>6, <1>7, <1>8, <1>9, <1>10, <1>11, <1>12, <1>13, <1>14
  DEF Next, Serve

\* A browser's cookie is the token the table knows, or the answer with that token is on
\* its way, or it was lost or overtaken: refreshes that overlap do no other harm.
THEOREM CookieStaysGood == Spec => []CookieGood
<1>1. Init => SessionInv
  BY InitType DEF Init, SessionInv, Owned, Vouched, Pending, Delivered, Carriers, Carrying, Idle
<1>2. SessionInv /\ [Next]_vars => SessionInv'
  BY NextSession
<1>3. SessionInv => CookieGood
  <2> SUFFICES ASSUME SessionInv, NEW b \in Browsers, jar[b] # NoCookie,
                      jar[b].session \notin astray, undelivered[jar[b].session] = None
               PROVE  sessions[jar[b].session].hash = jar[b].iat
    BY DEF CookieGood
  <2>1. jar[b].session \in SessionIds
    BY DEF SessionInv, TypeOK, Cookie
  <2>2. QED BY <2>1 DEF SessionInv, Vouched, Delivered
<1>4. QED BY <1>1, <1>2, <1>3, PTL DEF Spec

----------------------------------------------------------------------------
(* Lifetimes.  RefreshesInTime compares the clock with a token that was signed *)
(* some requests ago, while the code compares it with the row's deadline: the  *)
(* invariant ties the two columns of a row together, and the two that each     *)
(* request has computed and not written.                                       *)

\* What request w has computed: a login its deadline before its token, a refresh both at once.
DatesTogether(w) ==
  /\ req[w].pc = "create" => req[w].expires <= now + RowLifetime
  /\ req[w].pc = "verified" => req[w].user = None
  /\ req[w].pc = "rotate" =>
       /\ req[w].expires <= req[w].iat + RowLifetime
       /\ req[w].user = None => req[w].expires = req[w].iat + RowLifetime

ColumnsTogether(s) ==
  sessions[s].hash # Temporary =>
    /\ sessions[s].expires <= sessions[s].hash + RowLifetime
    /\ s \in renewed => sessions[s].expires = sessions[s].hash + RowLifetime

LifetimeInv ==
  /\ TypeOK
  /\ \A w \in Requests : DatesTogether(w)
  /\ \A s \in SessionIds : ColumnsTogether(s)

LEMMA Numbers ==
  ASSUME TypeOK
  PROVE  /\ now \in Int /\ RowLifetime \in Int
         /\ \A s \in SessionIds : sessions[s].hash \in Int /\ sessions[s].expires \in Int
         /\ \A w \in Requests : req[w].iat \in Int /\ req[w].expires \in Int
  BY DEF TypeOK, Seconds, Request, Row, Tokens, Temporary, Deadlines

\* A request other than w keeps its dates while the clock stands still.
LEMMA OthersTogether ==
  ASSUME TypeOK, NEW w \in Requests, NEW r, req' = [req EXCEPT ![w] = r], now' = now,
         \A v \in Requests : DatesTogether(v), DatesTogether(w)'
  PROVE  \A v \in Requests : DatesTogether(v)'
<1>1. \A v \in Requests : v # w => req'[v] = req[v]
  BY DEF TypeOK
<1>2. QED BY <1>1 DEF DatesTogether

LEMMA NextDates ==
  ASSUME LifetimeInv, [Next]_vars
  PROVE  \A w \in Requests : DatesTogether(w)'
<1>0. TypeOK /\ \A w \in Requests : DatesTogether(w)
  BY DEF LifetimeInv
<1>t. /\ req \in [Requests -> Request] /\ now \in Int /\ RowLifetime \in Int
      /\ \A w \in Requests : req[w].iat \in Int /\ req[w].expires \in Int
  BY <1>0, Numbers DEF TypeOK
<1>i. Idle.pc = "idle" /\ Idle.user = None
  BY DEF Idle
\* A request goes where it has no dates.
<1>a. ASSUME NEW w \in Requests, NEW r, req' = [req EXCEPT ![w] = r], now' = now,
             r.pc \notin {"create", "verified", "rotate"}
      PROVE  \A v \in Requests : DatesTogether(v)'
  <2>1. req'[w] = r
    BY <1>t, <1>a
  <2>2. DatesTogether(w)'
    BY <1>a, <2>1 DEF DatesTogether
  <2>3. QED BY <1>0, <1>a, <2>2, OthersTogether
<1>1. CASE UNCHANGED <<req, now>>
  BY <1>0, <1>1 DEF DatesTogether
<1>2. ASSUME NEW w \in Requests, NEW b \in Browsers, NEW u \in Users, LoginBegin(w, b, u)
      PROVE  \A v \in Requests : DatesTogether(v)'
  <2> DEFINE r == [Idle EXCEPT !.pc = "create", !.browser = b, !.user = u,
                               !.expires = now + RowLifetime]
  <2>1. r.pc = "create" /\ r.expires = now + RowLifetime
    BY DEF Idle
  <2>2. req' = [req EXCEPT ![w] = r] /\ now' = now
    BY <1>2 DEF LoginBegin
  <2> HIDE DEF r
  <2>3. req'[w] = r
    BY <1>t, <2>2
  <2>4. DatesTogether(w)'
    BY <1>t, <2>1, <2>2, <2>3 DEF DatesTogether
  <2>5. QED BY <1>0, <2>2, <2>4, OthersTogether
<1>3. ASSUME NEW w \in Requests, NEW s \in SessionIds, LoginCreate(w, s)
      PROVE  \A v \in Requests : DatesTogether(v)'
  <2> DEFINE r == [req[w] EXCEPT !.pc = "rotate", !.session = s, !.iat = now]
  <2>1. /\ r.pc = "rotate" /\ r.iat = now /\ r.expires = req[w].expires
        /\ r.user = req[w].user /\ r.user # None
    BY <1>3, <1>t DEF LoginCreate, Request
  <2>2. req' = [req EXCEPT ![w] = r] /\ now' = now /\ req[w].pc = "create"
    BY <1>3 DEF LoginCreate
  <2> HIDE DEF r
  <2>3. req'[w] = r
    BY <1>t, <2>2
  <2>4. DatesTogether(w)'
    BY <1>0, <1>t, <2>1, <2>2, <2>3 DEF DatesTogether
  <2>5. QED BY <1>0, <2>2, <2>4, OthersTogether
<1>4. ASSUME NEW w \in Requests, NEW b \in Browsers, RefreshVerify(w, b)
      PROVE  \A v \in Requests : DatesTogether(v)'
  <2> DEFINE r == [Idle EXCEPT !.pc = "verified", !.browser = b, !.session = jar[b].session]
  <2>1. r.pc = "verified" /\ r.user = None
    BY DEF Idle
  <2>2. req' = [req EXCEPT ![w] = r] /\ now' = now
    BY <1>4 DEF RefreshVerify
  <2> HIDE DEF r
  <2>3. req'[w] = r
    BY <1>t, <2>2
  <2>4. DatesTogether(w)'
    BY <2>1, <2>3 DEF DatesTogether
  <2>5. QED BY <1>0, <2>2, <2>4, OthersTogether
<1>5. ASSUME NEW w \in Requests, NEW b \in Browsers, RefreshFindsExpired(w, b)
      PROVE  \A v \in Requests : DatesTogether(v)'
  <2> DEFINE r == [Idle EXCEPT !.pc = "expire", !.browser = b, !.session = jar[b].session]
  <2>1. r.pc = "expire"
    BY DEF Idle
  <2> HIDE DEF r
  <2>2. req' = [req EXCEPT ![w] = r] /\ now' = now
    BY <1>5 DEF RefreshFindsExpired, r
  <2>3. QED BY <1>a, <2>1, <2>2
<1>6. ASSUME NEW w \in Requests, RefreshSign(w)
      PROVE  \A v \in Requests : DatesTogether(v)'
  <2> DEFINE r == [req[w] EXCEPT !.pc = "rotate", !.iat = now, !.expires = now + RowLifetime]
  <2>1. r.pc = "rotate" /\ r.iat = now /\ r.expires = now + RowLifetime
    BY <1>t DEF Request
  <2> HIDE DEF r
  <2>2. req' = [req EXCEPT ![w] = r] /\ now' = now
    BY <1>6 DEF RefreshSign, r
  <2>3. req'[w] = r
    BY <1>t, <2>2
  <2>4. DatesTogether(w)'
    BY <1>t, <2>1, <2>3 DEF DatesTogether
  <2>5. QED BY <1>0, <2>2, <2>4, OthersTogether
<1>7. ASSUME NEW w \in Requests, Rotate(w)
      PROVE  \A v \in Requests : DatesTogether(v)'
  <2> DEFINE r == [req[w] EXCEPT !.pc = "respond"]
  <2>1. r.pc = "respond"
    BY <1>t DEF Request
  <2> HIDE DEF r
  <2>2. req' = [req EXCEPT ![w] = r] /\ now' = now
    BY <1>7 DEF Rotate, r
  <2>3. QED BY <1>a, <2>1, <2>2
<1>8. ASSUME NEW w \in Requests, NEW b \in Browsers, Logout(w, b) \/ LogoutAll(w, b)
      PROVE  \A v \in Requests : DatesTogether(v)'
  <2> DEFINE r == [Idle EXCEPT !.pc = "clear", !.browser = b]
  <2>1. r.pc = "clear"
    BY DEF Idle
  <2> HIDE DEF r
  <2>2. req' = [req EXCEPT ![w] = r] /\ now' = now
    BY <1>8 DEF Logout, LogoutAll, r
  <2>3. QED BY <1>a, <2>1, <2>2
<1>9. ASSUME NEW w \in Requests,
             MarkExpired(w) \/ Respond(w) \/ RespondClear(w) \/ Abort(w)
      PROVE  \A v \in Requests : DatesTogether(v)'
  <2>1. req' = [req EXCEPT ![w] = Idle] /\ now' = now
    BY <1>9 DEF MarkExpired, Respond, RespondClear, Abort
  <2>2. QED BY <1>a, <1>i, <2>1
<1>10. CASE Tick
  <2>1. req' = req /\ now' = now + 1
    BY <1>10 DEF Tick
  <2>2. QED BY <1>0, <1>t, <2>1 DEF DatesTogether
<1>11. CASE \E b \in Browsers : DropCookie(b)
  BY <1>1, <1>11 DEF DropCookie
<1>12. CASE UNCHANGED vars
  BY <1>1, <1>12 DEF vars
<1>13. QED
  BY <1>2, <1>3, <1>4, <1>5, <1>6, <1>7, <1>8, <1>9, <1>10, <1>11, <1>12 DEF Next, Serve

LEMMA NextColumns ==
  ASSUME LifetimeInv, [Next]_vars, NEW s \in SessionIds
  PROVE  ColumnsTogether(s)'
<1>0. TypeOK /\ ColumnsTogether(s)
  BY DEF LifetimeInv
<1>t. sessions \in [SessionIds -> Row] /\ sessions[s] \in Row
  BY <1>0 DEF TypeOK
<1>a. ASSUME sessions'[s].hash = sessions[s].hash, sessions'[s].expires = sessions[s].expires,
             s \in renewed' <=> s \in renewed
      PROVE  ColumnsTogether(s)'
  BY <1>0, <1>a DEF ColumnsTogether
<1>1. ASSUME NEW w \in Requests, MarkExpired(w)
      PROVE  ColumnsTogether(s)'
  BY <1>1, <1>a, <1>t DEF MarkExpired, Row, history
<1>2. ASSUME NEW w \in Requests, NEW b \in Browsers, Logout(w, b) \/ LogoutAll(w, b)
      PROVE  ColumnsTogether(s)'
  BY <1>2, <1>a, <1>t DEF Logout, LogoutAll, RevokedRow, Row, history
<1>3. ASSUME NEW w \in Requests, NEW t \in SessionIds, LoginCreate(w, t)
      PROVE  ColumnsTogether(s)'
  <2>1. CASE s = t
    <3>1. sessions'[s].hash = Temporary
      BY <1>3, <1>t, <2>1 DEF LoginCreate
    <3>2. QED BY <3>1 DEF ColumnsTogether
  <2>2. CASE s # t
    BY <1>3, <1>a, <1>t, <2>2 DEF LoginCreate, history
  <2>3. QED BY <2>1, <2>2
<1>4. ASSUME NEW w \in Requests, Rotate(w)
      PROVE  ColumnsTogether(s)'
  <2>1. CASE s = req[w].session
    <3>1. sessions'[s].hash = req[w].iat /\ sessions'[s].expires = req[w].expires
      BY <1>4, <1>t, <2>1 DEF Rotate, RotatedRow, Row
    <3>2. s \in renewed' => req[w].user = None
      BY <1>4, <2>1 DEF Rotate
    <3>3. DatesTogether(w) /\ req[w].pc = "rotate"
      BY <1>4 DEF Rotate, LifetimeInv
    <3>4. QED BY <3>1, <3>2, <3>3 DEF ColumnsTogether, DatesTogether
  <2>2. CASE s # req[w].session
    <3>1. sessions'[s] = sessions[s]
      BY <1>4, <1>t, <2>2 DEF Rotate
    <3>2. s \in renewed' <=> s \in renewed
      BY <1>4, <2>2 DEF Rotate
    <3>3. QED BY <1>a, <3>1, <3>2
  <2>3. QED BY <2>1, <2>2
<1>5. CASE sessions' = sessions /\ renewed' = renewed
  BY <1>a, <1>5
<1>6. QED
  BY <1>1, <1>2, <1>3, <1>4, <1>5
  DEF vars, history, Next, Serve, LoginBegin, RefreshVerify, RefreshFindsExpired, RefreshSign,
      Respond, RespondClear, Abort, DropCookie, Tick

LEMMA NextLifetime == LifetimeInv /\ [Next]_vars => LifetimeInv'
  BY NextType, NextDates, NextColumns DEF LifetimeInv

\* Who leaves idle with a token that was looked at did so in one of the two refresh steps.
LEMMA WhoPresents ==
  ASSUME TypeOK, [Next]_vars, NEW w \in Requests, req[w].pc = "idle"
  PROVE  /\ req'[w].pc = "verified" => RefreshVerify(w, req'[w].browser)
         /\ req'[w].pc = "expire" => RefreshFindsExpired(w, req'[w].browser)
<1>0. req \in [Requests -> Request] /\ Idle.pc = "idle"
  BY DEF TypeOK, Idle
<1>a. ASSUME NEW v \in Requests, NEW r, req' = [req EXCEPT ![v] = r],
             v = w => r.pc \notin {"verified", "expire"}
      PROVE  req'[w].pc \notin {"verified", "expire"}
  BY <1>0, <1>a
<1>1. ASSUME NEW v \in Requests, NEW b \in Browsers, RefreshVerify(v, b)
      PROVE  \/ req'[w].pc \notin {"verified", "expire"}
             \/ req'[w].pc = "verified" /\ RefreshVerify(w, req'[w].browser)
  <2> DEFINE r == [Idle EXCEPT !.pc = "verified", !.browser = b, !.session = jar[b].session]
  <2>1. r.pc = "verified" /\ r.browser = b
    BY DEF Idle
  <2>2. req' = [req EXCEPT ![v] = r]
    BY <1>1 DEF RefreshVerify
  <2> HIDE DEF r
  <2>3. CASE v = w
    BY <1>0, <1>1, <2>1, <2>2, <2>3
  <2>4. CASE v # w
    BY <1>a, <2>2, <2>4
  <2>5. QED BY <2>3, <2>4
<1>2. ASSUME NEW v \in Requests, NEW b \in Browsers, RefreshFindsExpired(v, b)
      PROVE  \/ req'[w].pc \notin {"verified", "expire"}
             \/ req'[w].pc = "expire" /\ RefreshFindsExpired(w, req'[w].browser)
  <2> DEFINE r == [Idle EXCEPT !.pc = "expire", !.browser = b, !.session = jar[b].session]
  <2>1. r.pc = "expire" /\ r.browser = b
    BY DEF Idle
  <2>2. req' = [req EXCEPT ![v] = r]
    BY <1>2 DEF RefreshFindsExpired
  <2> HIDE DEF r
  <2>3. CASE v = w
    BY <1>0, <1>2, <2>1, <2>2, <2>3
  <2>4. CASE v # w
    BY <1>a, <2>2, <2>4
  <2>5. QED BY <2>3, <2>4
<1>3. ASSUME NEW v \in Requests, NEW b \in Browsers, NEW u \in Users, LoginBegin(v, b, u)
      PROVE  req'[w].pc \notin {"verified", "expire"}
  <2>1. [Idle EXCEPT !.pc = "create", !.browser = b, !.user = u,
                     !.expires = now + RowLifetime].pc = "create"
    BY DEF Idle
  <2>2. QED BY <1>3, <1>a, <2>1 DEF LoginBegin
<1>4. ASSUME NEW v \in Requests, NEW b \in Browsers, Logout(v, b) \/ LogoutAll(v, b)
      PROVE  req'[w].pc \notin {"verified", "expire"}
  <2>1. [Idle EXCEPT !.pc = "clear", !.browser = b].pc = "clear"
    BY DEF Idle
  <2>2. QED BY <1>4, <1>a, <2>1 DEF Logout, LogoutAll
\* The other steps are taken by requests that are not idle.
<1>5. ASSUME NEW v \in Requests, NEW r, req' = [req EXCEPT ![v] = r], req[v].pc # "idle"
      PROVE  req'[w].pc \notin {"verified", "expire"}
  BY <1>0, <1>5
<1>6. ASSUME NEW v \in Requests,
             \/ \E s \in SessionIds : LoginCreate(v, s)
             \/ RefreshSign(v) \/ Rotate(v)
             \/ MarkExpired(v) \/ Respond(v) \/ RespondClear(v) \/ Abort(v)
      PROVE  req'[w].pc \notin {"verified", "expire"}
  BY <1>5, <1>6 DEF LoginCreate, RefreshSign, Rotate, MarkExpired, Respond, RespondClear, Abort
<1>7. CASE UNCHANGED req
  BY <1>7
<1>8. QED
  BY <1>1, <1>2, <1>3, <1>4, <1>6, <1>7 DEF vars, Next, Serve, DropCookie, Tick

\* A refresh is granted only within RowLifetime of the signing of the token presented,
\* and the stored token of a refresh is not turned down as expired before, whichever
\* refreshes overlapped and whichever answers were lost.
THEOREM RefreshesComeInTime == Spec => RefreshesInTime
<1>1. Init => LifetimeInv
  <2> SUFFICES ASSUME Init PROVE LifetimeInv
    OBVIOUS
  <2>1. \A w \in Requests : req[w].pc = "idle"
    BY DEF Init, Idle
  <2>2. \A s \in SessionIds : sessions[s].hash = Temporary
    BY DEF Init, Unborn
  <2>3. QED BY <2>1, <2>2, InitType DEF LifetimeInv, DatesTogether, ColumnsTogether
<1>2. LifetimeInv /\ [Next]_vars => LifetimeInv'
  BY NextLifetime
<1>3. LifetimeInv /\ [Next]_vars =>
        [\A w \in Requests : req[w].pc = "idle" =>
           LET c == jar[req'[w].browser]
           IN /\ req'[w].pc = "verified" => now <= c.iat + RowLifetime
              /\ req'[w].pc = "expire" /\ c.session \in renewed
                   /\ sessions[c.session].hash = c.iat => now > c.iat + RowLifetime]_vars
  <2> SUFFICES ASSUME LifetimeInv, [Next]_vars, NEW w \in Requests, req[w].pc = "idle"
               PROVE  /\ req'[w].pc = "verified" =>
                           now <= jar[req'[w].browser].iat + RowLifetime
                      /\ /\ req'[w].pc = "expire"
                         /\ jar[req'[w].browser].session \in renewed
                         /\ sessions[jar[req'[w].browser].session].hash
                              = jar[req'[w].browser].iat
                         => now > jar[req'[w].browser].iat + RowLifetime
    OBVIOUS
  <2> DEFINE b == req'[w].browser
             s == jar[b].session
  <2>1. TypeOK /\ TypeOK'
    BY NextType DEF LifetimeInv
  <2>2. req'[w] \in Request
    BY <2>1 DEF TypeOK
  <2>3. ASSUME req'[w].pc \in {"verified", "expire"}
        PROVE  /\ s \in SessionIds /\ jar[b].iat \in Seconds /\ ColumnsTogether(s)
               /\ sessions[s].hash \in Int /\ sessions[s].expires \in Int
    <3>1. b \in Browsers /\ jar[b] # NoCookie
      BY <2>1, <2>2, <2>3, WhoPresents DEF Request, RefreshVerify, RefreshFindsExpired
    <3>2. s \in SessionIds /\ jar[b].iat \in Seconds
      BY <2>1, <3>1 DEF TypeOK, Cookie
    <3>3. QED BY <2>1, <3>2, Numbers DEF LifetimeInv
  <2>4. now \in Int /\ RowLifetime \in Int /\ (jar[b].iat \in Seconds => jar[b].iat # Temporary)
    BY <2>1, Numbers DEF Seconds, Temporary
  <2>5. ASSUME req'[w].pc = "verified" PROVE now <= jar[b].iat + RowLifetime
    <3>1. sessions[s].expires >= now /\ sessions[s].hash = jar[b].iat
      BY <2>1, <2>5, WhoPresents DEF RefreshVerify
    <3>2. QED BY <2>3, <2>4, <2>5, <3>1 DEF ColumnsTogether
  <2>6. ASSUME req'[w].pc = "expire", s \in renewed, sessions[s].hash = jar[b].iat
        PROVE  now > jar[b].iat + RowLifetime
    <3>1. sessions[s].expires < now
      BY <2>1, <2>6, WhoPresents DEF RefreshFindsExpired
    <3>2. QED BY <2>3, <2>4, <2>6, <3>1 DEF ColumnsTogether
  <2>7. QED BY <2>5, <2>6
<1>4. QED BY <1>1, <1>2, <1>3, PTL DEF Spec, RefreshesInTime
=============================================================================
