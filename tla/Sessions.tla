------------------------------ MODULE Sessions ------------------------------
(***************************************************************************)
(* Signed cookies: lib/auth/session.ts with the login, logout and /api/me  *)
(* routes and the browser that keeps the cookie.  A session is a cookie.   *)
(* Several instances of the server answer, and they share no memory: each  *)
(* keeps the sessions that were logged out at it, forgets them when it is  *)
(* started again, and without a SESSION_SECRET signs with a key of its     *)
(* own.  A request is a step for the browser that sends it, a step for the *)
(* instance that serves it and a step for the browser that takes the       *)
(* answer, and answers arrive in any order.                                *)
(***************************************************************************)
EXTENDS Integers, FiniteSets

CONSTANTS
  Instances,      \* the processes of the server
  Ttl,            \* DEFAULT_TTL_MS: the sliding window
  Cap,            \* MAX_SESSION_AGE_MS: the ceiling
  MaxTime,        \* bound on the clock
  MaxRequests,    \* bound on the requests of the browser
  MaxRestarts,    \* bound on the restarts of each instance
  MaxAir,         \* bound on the requests in the air at once
  None

ASSUME WindowAssumption == Ttl \in Nat /\ Cap \in Nat /\ 0 < Ttl /\ Ttl <= Cap
ASSUME BoundAssumption == MaxTime \in Nat /\ MaxRequests \in Nat /\ MaxRestarts \in Nat

VARIABLES
  now,
  secret,     \* SESSION_SECRET is "set", or not: keys are "random", and in production "missing"
  life,       \* how often each instance was started again
  revoked,    \* the sids logged out at each instance since it started
  requests,   \* how many were sent
  flights,    \* the requests and answers in the air
  jar,        \* the cookie the browser keeps, or None
  until,      \* when its Max-Age is over
  (* history *)
  seen,       \* when the answer that the browser has last of each session was given
  left,       \* the logouts: whose, at which instance, in which of its lives
  overtaken   \* an answer arrived after one of the same session that was given later

server  == <<secret, life, revoked>>
browser == <<jar, until>>
history == <<seen, left, overtaken>>
vars == <<now, server, requests, flights, browser, history>>

\* A session is named by the request that began it, a key by the process that drew it.
Sids    == 1..MaxRequests
Keys    == (Instances \cup {None}) \X Nat
Cookies == [sid : Sids, iat : Nat, exp : Nat, key : Keys]

\* getSecret: the key that instance i signs and verifies with.
Key(i) == IF secret = "set" THEN <<None, 0>> ELSE <<i, life[i]>>

Lesser(a, b) == IF a <= b THEN a ELSE b

\* makeCitizenSession, makeGovSession: the routes ask for no lifetime of their own.
MakeSession(i, sid) == [sid |-> sid, iat |-> now, exp |-> now + Lesser(Ttl, Cap), key |-> Key(i)]

\* Mutant of Refreshed: the old expiry has a say, as it had in an earlier version.
RefreshedNever(i, c) ==
  [c EXCEPT !.exp = Lesser(@, Lesser(now + Ttl, c.iat + Cap)), !.key = Key(i)]

\* The cookie buildSetCookie writes: the window slides, up to the ceiling.
Refreshed(i, c) == [c EXCEPT !.exp = Lesser(now + Ttl, c.iat + Cap), !.key = Key(i)]

\* decodeSession.
Accepted(i, c) ==
  /\ c # None
  /\ c.key = Key(i)
  /\ c.exp > c.iat
  /\ now <= c.exp
  /\ now <= c.iat + Cap
  /\ c.sid \notin revoked[i]

\* What the browser sends.
Sent == IF jar # None /\ now < until THEN jar ELSE None

NoCookie    == [sets |-> FALSE, cookie |-> None, maxAge |-> 0, at |-> 0]
ClearCookie == [sets |-> TRUE, cookie |-> None, maxAge |-> 0, at |-> 0]
SetCookie(i, c) ==
  [sets |-> TRUE, cookie |-> Refreshed(i, c), maxAge |-> Refreshed(i, c).exp - now, at |-> now]

Init ==
  /\ now = 0
  /\ secret \in {"set", "random", "missing"}
  /\ life = [i \in Instances |-> 0] /\ revoked = [i \in Instances |-> {}]
  /\ requests = 0 /\ flights = {}
  /\ jar = None /\ until = 0
  /\ seen = [s \in Sids |-> 0] /\ left = {} /\ overtaken = FALSE

Tick ==
  /\ now < MaxTime
  /\ now' = now + 1
  /\ UNCHANGED <<server, requests, flights, browser, history>>

-----------------------------------------------------------------------------
\* The form, the chip, the framing or the button sends a request.
Send ==
  /\ requests < MaxRequests /\ Cardinality(flights) < MaxAir
  /\ requests' = requests + 1
  /\ \E what \in {"login", "me", "logout"} :
       flights' = flights \cup
         {[id |-> requests + 1, what |-> what, cookie |-> Sent,
           answered |-> FALSE, answer |-> NoCookie]}
  /\ UNCHANGED <<now, server, browser, history>>

Answer(f, a) == flights' = (flights \ {f}) \cup {[f EXCEPT !.answered = TRUE, !.answer = a]}

\* One entry of a roster matches, or the answer is 400, 404 or 401; and 500 where the
\* server refuses to sign.
Login(i, f) ==
  /\ f.what = "login" /\ ~f.answered
  /\ \/ secret # "missing" /\ Answer(f, SetCookie(i, MakeSession(i, f.id)))
     \/ Answer(f, NoCookie)
  /\ UNCHANGED <<now, server, requests, browser, history>>

\* GET /api/me says who is signed in and slides the window.
Me(i, f) ==
  /\ f.what = "me" /\ ~f.answered
  /\ Answer(f, IF Accepted(i, f.cookie) THEN SetCookie(i, f.cookie) ELSE NoCookie)
  /\ UNCHANGED <<now, server, requests, browser, history>>

\* The session that a logout ends, as the history has it.
Leaves(i, f) ==
  {[sid |-> s, by |-> i, life |-> life[i]] :
     s \in {s \in Sids : Accepted(i, f.cookie) /\ s = f.cookie.sid}}

\* Mutant of Logout: the cookie is cleared, the session goes on.
LogoutHere(i, f) ==
  /\ f.what = "logout" /\ ~f.answered
  /\ Answer(f, ClearCookie)
  /\ left' = left \cup Leaves(i, f)
  /\ UNCHANGED <<now, server, requests, browser, seen, overtaken>>

\* POST /api/auth/logout clears the cookie, whoever asks.
Logout(i, f) ==
  /\ f.what = "logout" /\ ~f.answered
  /\ Answer(f, ClearCookie)
  /\ revoked' = [revoked EXCEPT ![i] = @ \cup {l.sid : l \in Leaves(i, f)}]
  /\ left' = left \cup Leaves(i, f)
  /\ UNCHANGED <<now, secret, life, requests, browser, seen, overtaken>>

\* Max-Age counts from the arrival, and a Max-Age of 0 removes the cookie.
Arrive(f) ==
  /\ f.answered
  /\ flights' = flights \ {f}
  /\ IF f.answer.sets
     THEN /\ jar' = IF f.answer.maxAge > 0 THEN f.answer.cookie ELSE None
          /\ until' = now + f.answer.maxAge
     ELSE UNCHANGED browser
  /\ IF f.answer.cookie # None
     THEN LET s == f.answer.cookie.sid IN
            /\ overtaken' = (overtaken \/ f.answer.at < seen[s])
            /\ seen' = [seen EXCEPT ![s] = IF @ < f.answer.at THEN f.answer.at ELSE @]
     ELSE UNCHANGED <<seen, overtaken>>
  /\ UNCHANGED <<now, server, requests, left>>

\* The answer is lost.
Lose(f) ==
  /\ f.answered
  /\ flights' = flights \ {f}
  /\ UNCHANGED <<now, server, requests, browser, history>>

\* A new process in the place of an instance.
Restart(i) ==
  /\ life[i] < MaxRestarts
  /\ life' = [life EXCEPT ![i] = @ + 1]
  /\ revoked' = [revoked EXCEPT ![i] = {}]
  /\ UNCHANGED <<now, secret, requests, flights, browser, history>>

Next ==
  \/ Tick
  \/ Send
  \/ \E f \in flights :
       \/ \E i \in Instances : Login(i, f) \/ Me(i, f) \/ Logout(i, f)
       \/ Arrive(f) \/ Lose(f)
  \/ \E i \in Instances : Restart(i)

Spec == Init /\ [][Next]_vars

-----------------------------------------------------------------------------
(* What must hold *)

\* Every cookie in the browser, on its way to it or on its way back.
Everywhere ==
  {jar} \cup {f.cookie : f \in flights} \cup {f.answer.cookie : f \in flights}
Issued == Everywhere \ {None}

\* The check of the age, when a cookie is read, and the ceiling, when it is written,
\* never disagree (lib/auth/session.ts:232-236): a cookie that is not expired is not
\* too old, however often it was refreshed, and none is born malformed.
AgeAgrees == \A c \in Issued : c.iat < c.exp /\ c.exp <= c.iat + Cap

Left(sid) == \E l \in left : l.sid = sid

\* Whoever was answered within the window is signed in, until the ceiling
\* (lib/auth/session.ts:315-322: the session must not end when the first window is
\* up, regardless of activity), at every instance that has the key of the cookie; unless
\* he left, or an older answer came later.
ActiveStaysIn ==
  \/ jar = None \/ overtaken \/ Left(jar.sid)
  \/ now >= Lesser(seen[jar.sid] + Ttl, jar.iat + Cap)
  \/ \A i \in Instances : jar.key = Key(i) => Accepted(i, Sent)

\* A session that was logged out is over everywhere, whatever answers of /api/me arrive
\* later (app/api/auth/logout/route.ts:14-17), but for instances that share the secret
\* and not the memory: one with a key of its own never takes it back, started again or
\* not, and no instance does that carried out the logout, while it runs.
OutUnlessForgotten ==
  \A c \in Issued, i \in Instances :
    Left(c.sid) /\ Accepted(i, c) =>
      secret = "set" /\ [sid |-> c.sid, by |-> i, life |-> life[i]] \notin left

=============================================================================
