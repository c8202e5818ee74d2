------------------------------ MODULE Sessions ------------------------------
(***************************************************************************)
(* Login sessions and their refresh tokens (auth.service.ts,               *)
(* sessions.service.ts, the auth command handlers).                        *)
(*                                                                         *)
(* The sessions table keeps the hash of the one refresh token that is good *)
(* and the browser keeps the token in a cookie.  A refresh reads the row,  *)
(* signs a new token, writes its hash and answers with a new cookie, each  *)
(* in a step of its own, so the two copies come apart when refreshes of a  *)
(* session overlap or an answer is lost.                                   *)
(*                                                                         *)
(* Abstractions.  A token is a JWT over the session and the second it was  *)
(* signed in, so two tokens of a session signed in the same second are the *)
(* same text: the second stands for the token, and for its hash.  A row's *)
(* deadline is computed on the line before the token is signed: one step.  *)
(* Passwords and memberships are outside: the checks of them may fail at   *)
(* any time (Abort).  Access tokens are not checked against the table; a   *)
(* browser that was given one may log out with it.                         *)
(***************************************************************************)
EXTENDS Integers

CONSTANTS Browsers,     \* each with a cookie jar
          Users,
          SessionIds,   \* a bound on how many sessions are ever created
          Requests,     \* requests being served at the same time
          RowLifetime,  \* seconds calculateRefreshExpiryDate adds (7 days)
          JwtLifetime,  \* seconds of jwtRefreshExpiresIn
          MaxTime,      \* a bound on the clock
          None

ASSUME SessionsAssumption ==
  /\ RowLifetime \in Nat /\ JwtLifetime \in Nat /\ MaxTime \in Nat
  /\ None \notin SessionIds \cup Browsers \cup Users \cup Requests

VARIABLES now,       \* the clock, in seconds
          sessions,  \* the sessions table
          jar,       \* each browser's refresh_token cookie
          access,    \* the session of the access token each browser holds
          req,       \* where each request being served stands
          undelivered,  \* history: who wrote a session's token and has not answered
          astray,    \* history: sessions whose last written token never arrived
          renewed    \* history: sessions whose row was last written by a refresh

history == <<undelivered, astray, renewed>>
vars == <<now, sessions, jar, access, req, history>>

Seconds   == 0 .. MaxTime
Temporary == -1   \* the token createSession is given: it names no session
Tokens    == Seconds \cup {Temporary}
Deadlines == 0 .. (MaxTime + RowLifetime)

\* A request that has found the session's token good and has not answered yet.
Carrying == {"verified", "rotate", "respond"}

Unborn   == [status |-> "NONE", user |-> None, browser |-> None, hash |-> Temporary,
             expires |-> 0]
NoCookie == [session |-> None, iat |-> Temporary]
Idle     == [pc |-> "idle", browser |-> None, user |-> None, session |-> None,
             iat |-> Temporary, expires |-> 0]

Row == [status : {"NONE", "ACTIVE", "EXPIRED", "REVOKED"}, user : Users \cup {None},
        browser : Browsers \cup {None}, hash : Tokens, expires : Deadlines]
Cookie == {NoCookie} \cup [session : SessionIds, iat : Seconds]
Request == {r \in [pc : {"idle", "create", "expire", "clear"} \cup Carrying,
                   browser : Browsers \cup {None}, user : Users \cup {None},
                   session : SessionIds \cup {None}, iat : Tokens, expires : Deadlines] :
              /\ r.pc # "idle" => r.browser \in Browsers
              /\ r.pc = "create" => r.user \in Users
              /\ r.pc \in Carrying \cup {"expire"} => r.session \in SessionIds
              /\ r.pc \in {"rotate", "respond"} => r.iat \in Seconds}

TypeOK ==
  /\ now \in Seconds
  /\ sessions \in [SessionIds -> Row]
  /\ jar \in [Browsers -> Cookie]
  /\ access \in [Browsers -> SessionIds \cup {None}]
  /\ req \in [Requests -> Request]
  /\ undelivered \in [SessionIds -> Requests \cup {None}]
  /\ astray \in SUBSET SessionIds
  /\ renewed \in SUBSET SessionIds

Init ==
  /\ now = 0
  /\ sessions = [s \in SessionIds |-> Unborn]
  /\ jar = [b \in Browsers |-> NoCookie]
  /\ access = [b \in Browsers |-> None]
  /\ req = [w \in Requests |-> Idle]
  /\ undelivered = [s \in SessionIds |-> None]
  /\ astray = {}
  /\ renewed = {}

----------------------------------------------------------------------------
(* Login: issueSession. *)

\* The deadline is computed before the row is created and the token signed.
LoginBegin(w, b, u) ==
  /\ req[w].pc = "idle"
  /\ req' = [req EXCEPT ![w] = [Idle EXCEPT !.pc = "create", !.browser = b, !.user = u,
                                            !.expires = now + RowLifetime]]
  /\ UNCHANGED <<now, sessions, jar, access, history>>

\* The row is created with the hash of a temporary token, and the token the
\* browser will get is signed as soon as the row's id is known.
\* (LoginCreateTemporary is a mistake: the temporary token is answered with.)
LoginCreateTemporary(w, s) ==
  /\ req[w].pc = "create" /\ sessions[s].status = "NONE"
  /\ sessions' = [sessions EXCEPT ![s] =
       [status |-> "ACTIVE", user |-> req[w].user, browser |-> req[w].browser,
        hash |-> Temporary, expires |-> req[w].expires]]
  /\ req' = [req EXCEPT ![w] = [req[w] EXCEPT !.pc = "rotate", !.session = s]]
  /\ UNCHANGED <<now, jar, access, history>>
LoginCreate(w, s) ==
  /\ req[w].pc = "create" /\ sessions[s].status = "NONE"
  /\ sessions' = [sessions EXCEPT ![s] =
       [status |-> "ACTIVE", user |-> req[w].user, browser |-> req[w].browser,
        hash |-> Temporary, expires |-> req[w].expires]]
  /\ req' = [req EXCEPT ![w] = [req[w] EXCEPT !.pc = "rotate", !.session = s, !.iat = now]]
  /\ UNCHANGED <<now, jar, access, history>>

----------------------------------------------------------------------------
(* Refresh: refreshSession. *)

JwtGood(c) == now < c.iat + JwtLifetime

\* verifyRefreshToken reads the row, looks at its status and deadline and compares
\* the hash, all of the one row it read.
RefreshVerify(w, b) ==
  LET s == jar[b].session
  IN /\ req[w].pc = "idle" /\ jar[b] # NoCookie /\ JwtGood(jar[b])
     /\ sessions[s].status = "ACTIVE" /\ sessions[s].expires >= now
     /\ sessions[s].hash = jar[b].iat
     /\ req' = [req EXCEPT ![w] = [Idle EXCEPT !.pc = "verified", !.browser = b,
                                               !.session = s]]
     /\ UNCHANGED <<now, sessions, jar, access, history>>

RefreshFindsExpired(w, b) ==
  LET s == jar[b].session
  IN /\ req[w].pc = "idle" /\ jar[b] # NoCookie /\ JwtGood(jar[b])
     /\ sessions[s].status = "ACTIVE" /\ sessions[s].expires < now
     /\ req' = [req EXCEPT ![w] = [Idle EXCEPT !.pc = "expire", !.browser = b,
                                               !.session = s]]
     /\ UNCHANGED <<now, sessions, jar, access, history>>

\* The row is written whatever became of it since it was read.
MarkExpired(w) ==
  /\ req[w].pc = "expire"
  /\ sessions' = [sessions EXCEPT ![req[w].session] =
                    [sessions[req[w].session] EXCEPT !.status = "EXPIRED"]]
  /\ req' = [req EXCEPT ![w] = Idle]
  /\ UNCHANGED <<now, jar, access, history>>

RefreshSign(w) ==
  /\ req[w].pc = "verified"
  /\ req' = [req EXCEPT ![w] = [req[w] EXCEPT !.pc = "rotate", !.iat = now,
                                              !.expires = now + RowLifetime]]
  /\ UNCHANGED <<now, sessions, jar, access, history>>

\* rotateRefreshToken writes hash and deadline, whatever the status is by now.
\* (RevivedRow, LaterRow and ExtendedRow are mistakes: the session is active again, a
\* token older than the stored one is not written, a deadline is never moved back.)
RevivedRow(row, iat, expires) ==
  [row EXCEPT !.hash = iat, !.expires = expires, !.status = "ACTIVE"]
LaterRow(row, iat, expires) ==
  IF iat < row.hash THEN row ELSE [row EXCEPT !.hash = iat, !.expires = expires]
ExtendedRow(row, iat, expires) ==
  [row EXCEPT !.hash = iat, !.expires = IF expires < row.expires THEN row.expires ELSE expires]
RotatedRow(row, iat, expires) == [row EXCEPT !.hash = iat, !.expires = expires]

Rotate(w) ==
  LET s == req[w].session
  IN /\ req[w].pc = "rotate"
     /\ sessions' = [sessions EXCEPT ![s] = RotatedRow(sessions[s], req[w].iat, req[w].expires)]
     /\ req' = [req EXCEPT ![w] = [req[w] EXCEPT !.pc = "respond"]]
     /\ undelivered' = [undelivered EXCEPT ![s] = w]
     /\ astray' = astray \ {s}
     /\ renewed' = IF req[w].user = None THEN renewed \cup {s} ELSE renewed \ {s}
     /\ UNCHANGED <<now, jar, access>>

\* The answer to a login or a refresh reaches the browser with its cookie.  One that
\* comes after the answer of a later write has overtaken it puts an old token back.
Respond(w) ==
  LET b == req[w].browser
      s == req[w].session
  IN /\ req[w].pc = "respond"
     /\ jar' = [jar EXCEPT ![b] = [session |-> s, iat |-> req[w].iat]]
     /\ access' = [access EXCEPT ![b] = s]
     /\ req' = [req EXCEPT ![w] = Idle]
     /\ undelivered' = IF undelivered[s] = w THEN [undelivered EXCEPT ![s] = None]
                                             ELSE undelivered
     /\ astray' = IF undelivered[s] = None THEN astray \cup {s} ELSE astray
     /\ UNCHANGED <<now, sessions, renewed>>

----------------------------------------------------------------------------
(* Logout: revokeSession and revokeAllForUser; the answer clears the cookie. *)

RevokedRow(row) == [row EXCEPT !.status = "REVOKED"]

Logout(w, b) ==
  LET s == access[b]
  IN /\ req[w].pc = "idle" /\ s # None
     /\ sessions' = [sessions EXCEPT ![s] = RevokedRow(sessions[s])]
     /\ req' = [req EXCEPT ![w] = [Idle EXCEPT !.pc = "clear", !.browser = b]]
     /\ UNCHANGED <<now, jar, access, history>>

LogoutAll(w, b) ==
  /\ req[w].pc = "idle" /\ access[b] # None
  /\ sessions' = [s \in SessionIds |->
       IF sessions[s].user = sessions[access[b]].user /\ sessions[s].status = "ACTIVE"
       THEN RevokedRow(sessions[s]) ELSE sessions[s]]
  /\ req' = [req EXCEPT ![w] = [Idle EXCEPT !.pc = "clear", !.browser = b]]
  /\ UNCHANGED <<now, jar, access, history>>

RespondClear(w) ==
  /\ req[w].pc = "clear"
  /\ jar' = [jar EXCEPT ![req[w].browser] = NoCookie]
  /\ req' = [req EXCEPT ![w] = Idle]
  /\ UNCHANGED <<now, sessions, access, history>>

----------------------------------------------------------------------------
(* Around them. *)

\* The request fails or its answer is lost.  What matters is whether the token it had
\* written still stands: then the browser is left with one the table does not know.
Abort(w) ==
  LET s == req[w].session
      lost == req[w].pc = "respond" /\ undelivered[s] = w
  IN /\ req[w].pc # "idle"
     /\ req' = [req EXCEPT ![w] = Idle]
     /\ undelivered' = IF lost THEN [undelivered EXCEPT ![s] = None] ELSE undelivered
     /\ astray' = IF lost THEN astray \cup {s} ELSE astray
     /\ UNCHANGED <<now, sessions, jar, access, renewed>>

\* The cookie reaches its maxAge, or is removed.
DropCookie(b) ==
  /\ jar[b] # NoCookie
  /\ jar' = [jar EXCEPT ![b] = NoCookie]
  /\ UNCHANGED <<now, sessions, access, req, history>>

Tick ==
  /\ now < MaxTime
  /\ now' = now + 1
  /\ UNCHANGED <<sessions, jar, access, req, history>>

Serve(w) ==
  \/ \E b \in Browsers, u \in Users : LoginBegin(w, b, u)
  \/ \E s \in SessionIds : LoginCreate(w, s)
  \/ \E b \in Browsers : RefreshVerify(w, b) \/ RefreshFindsExpired(w, b)
  \/ MarkExpired(w) \/ RefreshSign(w) \/ Rotate(w) \/ Respond(w)
  \/ \E b \in Browsers : Logout(w, b) \/ LogoutAll(w, b)
  \/ RespondClear(w) \/ Abort(w)

Next == (\E w \in Requests : Serve(w)) \/ (\E b \in Browsers : DropCookie(b)) \/ Tick

Spec == Init /\ [][Next]_vars

----------------------------------------------------------------------------
(* Properties. *)

\* The cookie a browser holds is the token whose hash the table holds, unless the
\* answer of the request that wrote it is on its way.  So two tabs whose refreshes
\* overlap (rotateRefreshToken writes the row whatever it holds by then) do not lose
\* the session, whichever writes last and whatever fails before it has written.  The
\* exceptions, in astray, are the answer with the stored token being lost and its
\* being overtaken by the answer of an earlier write.
CookieGood ==
  \A b \in Browsers : jar[b] # NoCookie =>
    LET s == jar[b].session
    IN s \in astray \/ undelivered[s] # None \/ sessions[s].hash = jar[b].iat

\* A session that has ended is not active again, though verifyRefreshToken and
\* rotateRefreshToken write the row without looking at it again.
EndedForGood ==
  [][\A s \in SessionIds : sessions[s].status \in {"EXPIRED", "REVOKED"} =>
       sessions'[s].status \in {"EXPIRED", "REVOKED"}]_vars

\* A session lives RowLifetime seconds from the signing of the token that is good, and
\* no longer, however long the JWT itself would be: a refresh is granted only within
\* them, and a browser that presents the stored token of a refresh is not told that the
\* session has expired before they are over.  Token and deadline sit in two columns
\* that refreshes write long after they computed them and in any order, so this holds
\* only as long as the two of one refresh stay together.
RefreshesInTime ==
  [][\A w \in Requests : req[w].pc = "idle" =>
       LET c == jar[req'[w].browser]
       IN /\ req'[w].pc = "verified" => now <= c.iat + RowLifetime
          /\ req'[w].pc = "expire" /\ c.session \in renewed
               /\ sessions[c.session].hash = c.iat => now > c.iat + RowLifetime]_vars
=============================================================================
