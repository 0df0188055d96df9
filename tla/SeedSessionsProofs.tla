------------------------- MODULE SeedSessionsProofs -------------------------
(***************************************************************************)
(* What is proved of the sessions, for every window, ceiling and bound:    *)
(* the two checks of the age agree, an active session goes on, and a       *)
(* session that was logged out is over wherever it can be known.  And of   *)
(* the seeding scripts, for any projects, runs and faults: rows are made   *)
(* of their own extract, what is ready is whole, and what is being         *)
(* generated is being worked on.  The two have no name in common.          *)
(***************************************************************************)
EXTENDS Sessions, Seed, TLAPS

Optional == Cookies \cup {None}
Answers  == [sets : BOOLEAN, cookie : Optional, maxAge : Int, at : Nat]
Flights  == [id : Sids, what : {"login", "me", "logout"}, cookie : Optional,
             answered : BOOLEAN, answer : Answers]

Logouts  == [sid : Sids, by : Instances, life : Nat]

TypeOK ==
  /\ now \in Nat
  /\ secret \in {"set", "random", "missing"}
  /\ life \in [Instances -> Nat] /\ revoked \in [Instances -> SUBSET Sids]
  /\ requests \in Nat
  /\ flights \subseteq Flights
  /\ jar \in Optional /\ until \in Int
  /\ seen \in [Sids -> Nat] /\ left \subseteq Logouts /\ overtaken \in BOOLEAN

\* A cookie that instance i would verify, of a session that was left, was left there.
Dead(i, c) == c.key = Key(i) /\ Left(c.sid) => c.sid \in revoked[i]

\* What is so of every cookie, wherever it is.  Without a shared secret it is signed with the
\* key of some life of an instance, and after a logout no instance takes it.
Sound(c) ==
  /\ c.iat < c.exp /\ c.exp <= c.iat + Cap
  /\ c.iat <= now /\ c.sid <= requests
  /\ secret # "set" => \A i \in Instances :
       /\ c.key[1] = i => c.key[2] <= life[i]
       /\ Dead(i, c)

\* Without a shared secret the cookies of a session are all signed with one key.
OneKey ==
  secret # "set" => \A c, d \in Issued : c.sid = d.sid => c.key = d.key

\* A logout is remembered while the instance runs.
Remembered(l) ==
  /\ l.sid <= requests
  /\ l.life <= life[l.by]
  /\ l.life = life[l.by] => l.sid \in revoked[l.by]

\* A login that is not answered yet names a session that nobody has heard of.
Unborn(f) ==
  f.what = "login" /\ ~f.answered =>
    /\ ~Left(f.id)
    /\ \A c \in Issued : c.sid # f.id

\* What the answers say of the time they were given.
Timely(f) ==
  /\ f.answer.cookie # None =>
       /\ f.answer.sets
       /\ f.answer.cookie.exp = Lesser(f.answer.at + Ttl, f.answer.cookie.iat + Cap)
       /\ f.answer.maxAge = f.answer.cookie.exp - f.answer.at
       /\ f.answer.at <= now
  /\ f.id <= requests

JarTimely ==
  jar # None =>
    /\ jar.exp <= until
    /\ overtaken \/ jar.exp = Lesser(seen[jar.sid] + Ttl, jar.iat + Cap)

IInv ==
  /\ TypeOK
  /\ \A i \in Instances : \A s \in revoked[i] : Left(s)
  /\ \A l \in left : Remembered(l)
  /\ \A c \in Issued : Sound(c)
  /\ OneKey
  /\ \A f \in flights : Unborn(f) /\ Timely(f)
  /\ \A f, g \in flights : f.id = g.id => f = g
  /\ JarTimely

-----------------------------------------------------------------------------
LEMMA IssuedTyped ==
  ASSUME TypeOK
  PROVE  Issued \subseteq Cookies
<1>1. \A f \in flights : f.cookie \in Optional /\ f.answer.cookie \in Optional
  BY DEF TypeOK, Flights, Answers
<1> QED BY <1>1 DEF Issued, Everywhere, TypeOK, Optional

LEMMA LesserIs ==
  ASSUME NEW a \in Int, NEW b \in Int
  PROVE  /\ Lesser(a, b) \in Int /\ Lesser(a, b) <= a /\ Lesser(a, b) <= b
         /\ Lesser(a, b) = a \/ Lesser(a, b) = b
BY DEF Lesser

LEMMA KeyTyped ==
  ASSUME TypeOK, NEW i \in Instances
  PROVE  Key(i) \in Keys
BY DEF TypeOK, Key, Keys

\* A cookie that is written now is sound, and dated now.
LEMMA Written ==
  ASSUME IInv, NEW i \in Instances, NEW c \in Cookies, c.iat <= now, now <= c.iat + Cap
  PROVE  LET d == Refreshed(i, c) IN
           /\ d \in Cookies
           /\ d.sid = c.sid /\ d.iat = c.iat /\ d.key = Key(i)
           /\ d.exp = Lesser(now + Ttl, c.iat + Cap)
           /\ now <= d.exp /\ d.iat < d.exp /\ d.exp <= d.iat + Cap
<1>1. now \in Nat /\ Key(i) \in Keys BY KeyTyped DEF IInv, TypeOK
<1>2. c.iat \in Nat BY DEF Cookies
<1>3. Ttl \in Nat /\ Cap \in Nat /\ 0 < Ttl /\ Ttl <= Cap BY WindowAssumption
<1> DEFINE e == Lesser(now + Ttl, c.iat + Cap)
<1>4. e \in Nat /\ e <= c.iat + Cap /\ now <= e /\ c.iat < e
  BY <1>1, <1>2, <1>3 DEF Lesser
<1>5. Refreshed(i, c) = [c EXCEPT !.exp = e, !.key = Key(i)] BY DEF Refreshed
<1> HIDE DEF e
<1>6. /\ Refreshed(i, c) \in Cookies
      /\ Refreshed(i, c).sid = c.sid /\ Refreshed(i, c).iat = c.iat
      /\ Refreshed(i, c).exp = e /\ Refreshed(i, c).key = Key(i)
  BY <1>1, <1>4, <1>5 DEF Cookies
<1> QED BY <1>4, <1>6 DEF e

\* An answer replaces the request it answers, and nothing else.
LEMMA Answering ==
  ASSUME IInv, NEW f \in flights, NEW a \in Answers, Answer(f, a), jar' = jar,
         UNCHANGED <<now, requests>>
  PROVE  LET g == [f EXCEPT !.answered = TRUE, !.answer = a] IN
           /\ flights' \subseteq Flights
           /\ \A h \in flights' : h = g \/ (h \in flights /\ h # f)
           /\ g.id = f.id /\ g.what = f.what /\ g.answered = TRUE /\ g.answer = a
           /\ Issued' \subseteq Issued \cup {a.cookie}
           /\ \A h, k \in flights' : h.id = k.id => h = k
<1> DEFINE g == [f EXCEPT !.answered = TRUE, !.answer = a]
<1>1. f \in Flights BY DEF IInv, TypeOK
<1>2. /\ g \in Flights /\ g.id = f.id /\ g.what = f.what /\ g.answered = TRUE
      /\ g.answer = a /\ g.cookie = f.cookie
  BY <1>1 DEF Flights
<1>3. flights' = (flights \ {f}) \cup {g} BY DEF Answer
<1> HIDE DEF g
<1>4. flights' \subseteq Flights BY <1>2, <1>3 DEF IInv, TypeOK
<1>5. \A h \in flights' : h = g \/ (h \in flights /\ h # f) BY <1>3
<1>6. ASSUME NEW c \in Issued', c # a.cookie PROVE c \in Issued
  <2>1. c # None /\ c \in Everywhere' BY <1>6 DEF Issued
  <2>2. CASE c = jar' BY <2>1, <2>2 DEF Issued, Everywhere
  <2>3. CASE \E h \in flights' : c = h.cookie \/ c = h.answer.cookie
    <3>1. PICK h \in flights' : c = h.cookie \/ c = h.answer.cookie BY <2>3
    <3>2. \E k \in flights : c = k.cookie \/ c = k.answer.cookie
      BY <1>2, <1>5, <1>6, <3>1
    <3> QED BY <2>1, <3>2 DEF Issued, Everywhere
  <2> QED BY <2>1, <2>2, <2>3 DEF Everywhere
<1>7. Issued' \subseteq Issued \cup {a.cookie} BY <1>6
<1>8. \A h, k \in flights' : h.id = k.id => h = k BY <1>2, <1>5 DEF IInv
<1> QED BY <1>2, <1>4, <1>5, <1>7, <1>8 DEF g

LEMMA TickStep == IInv /\ Tick => IInv'
<1> SUFFICES ASSUME IInv, Tick PROVE IInv' OBVIOUS
<1> USE DEF Tick, server, browser, history
<1>1. TypeOK' BY DEF IInv, TypeOK
<1>2. Issued' = Issued BY DEF Issued, Everywhere
<1>3. Issued \subseteq Cookies BY IssuedTyped DEF IInv
<1>4. now \in Nat /\ now' = now + 1 BY DEF IInv, TypeOK
<1>5. \A c \in Issued' : Sound(c)'
  <2> SUFFICES ASSUME NEW c \in Issued PROVE Sound(c)' BY <1>2
  <2>1. Sound(c) BY DEF IInv
  <2>2. c.iat \in Nat BY <1>3 DEF Cookies
  <2>3. c.iat <= now' BY <1>4, <2>1, <2>2 DEF Sound
  <2> QED BY <2>1, <2>3 DEF Sound, Dead, Key, Left
<1>6. \A f \in flights' : Unborn(f)' /\ Timely(f)'
  <2> SUFFICES ASSUME NEW f \in flights PROVE Unborn(f)' /\ Timely(f)' OBVIOUS
  <2>1. Unborn(f) /\ Timely(f) BY DEF IInv
  <2>2. Unborn(f)' BY <1>2, <2>1 DEF Unborn, Left
  <2>3. f.answer.at \in Nat BY DEF IInv, TypeOK, Flights, Answers
  <2>4. Timely(f)' BY <1>4, <2>1, <2>3 DEF Timely
  <2> QED BY <2>2, <2>4
<1>7. JarTimely' BY DEF IInv, JarTimely
<1>8. OneKey' BY <1>2 DEF IInv, OneKey
<1>9. \A l \in left' : Remembered(l)' BY DEF IInv, Remembered
<1>10. (\A i \in Instances : \A s \in revoked[i] : Left(s))' BY DEF IInv, Left
<1> QED BY <1>1, <1>5, <1>6, <1>7, <1>8, <1>9, <1>10 DEF IInv

LEMMA SendStep == IInv /\ Send => IInv'
<1> SUFFICES ASSUME IInv, Send PROVE IInv' OBVIOUS
<1> USE DEF Send, server, browser, history
<1>1. PICK what \in {"login", "me", "logout"} :
        flights' = flights \cup
          {[id |-> requests + 1, what |-> what, cookie |-> Sent,
            answered |-> FALSE, answer |-> NoCookie]}
  OBVIOUS
<1>0. PICK g : g = [id |-> requests + 1, what |-> what, cookie |-> Sent,
                    answered |-> FALSE, answer |-> NoCookie]
  OBVIOUS
<1>2. requests \in Nat /\ requests' = requests + 1 /\ requests + 1 \in Sids
  BY BoundAssumption DEF IInv, TypeOK, Sids
<1>3. Sent \in {jar, None} BY DEF Sent
<1>4. NoCookie \in Answers BY DEF NoCookie, Answers, Optional
<1>5. g \in Flights BY <1>0, <1>2, <1>3, <1>4 DEF Flights, IInv, TypeOK, Optional
<1>6. /\ g.id = requests + 1 /\ g.cookie = Sent /\ g.answer = NoCookie
      /\ NoCookie.cookie = None
  BY <1>0 DEF NoCookie
<1>7. flights' = flights \cup {g} BY <1>0, <1>1
<1>8. TypeOK' BY <1>2, <1>5, <1>7 DEF IInv, TypeOK
<1>9. Issued' \subseteq Issued
  <2> SUFFICES ASSUME NEW c \in Issued' PROVE c \in Issued OBVIOUS
  <2>1. c # None /\ c \in Everywhere' BY DEF Issued
  <2>2. CASE c = jar' BY <2>1, <2>2 DEF Issued, Everywhere
  <2>3. CASE \E h \in flights' : c = h.cookie \/ c = h.answer.cookie
    <3>1. PICK h \in flights' : c = h.cookie \/ c = h.answer.cookie BY <2>3
    <3>2. CASE h = g
      <4>1. c = jar BY <1>3, <1>6, <2>1, <3>1, <3>2
      <4> QED BY <2>1, <4>1 DEF Issued, Everywhere
    <3>3. CASE h \in flights BY <2>1, <3>1, <3>3 DEF Issued, Everywhere
    <3> QED BY <1>7, <3>2, <3>3
  <2> QED BY <2>1, <2>2, <2>3 DEF Everywhere
<1>10. Issued \subseteq Cookies BY IssuedTyped DEF IInv
<1>11. \A c \in Issued' : Sound(c)'
  <2> SUFFICES ASSUME NEW c \in Issued PROVE Sound(c)' BY <1>9
  <2>1. Sound(c) BY DEF IInv
  <2>2. c.sid \in Nat BY <1>10 DEF Cookies, Sids
  <2>3. c.sid <= requests' BY <1>2, <2>1, <2>2 DEF Sound
  <2> QED BY <2>1, <2>3 DEF Sound, Dead, Key, Left
<1>12. \A l \in left' : Remembered(l)'
  <2> SUFFICES ASSUME NEW l \in left PROVE Remembered(l)' OBVIOUS
  <2>1. l.sid \in Nat /\ l.sid <= requests BY DEF IInv, TypeOK, Logouts, Sids, Remembered
  <2>2. l.sid <= requests' BY <1>2, <2>1
  <2> QED BY <2>2 DEF IInv, Remembered
<1>13. \A f \in flights : f.id \in Nat /\ f.id <= requests
  BY DEF IInv, TypeOK, Flights, Sids, Timely
<1>14. \A f, h \in flights' : f.id = h.id => f = h
  <2>1. \A f \in flights : f.id # g.id BY <1>2, <1>6, <1>13
  <2> QED BY <1>7, <2>1 DEF IInv
<1>15. \A f \in flights' : Unborn(f)' /\ Timely(f)'
  <2>1. ASSUME NEW f \in flights PROVE Unborn(f)' /\ Timely(f)'
    <3>1. Unborn(f) /\ Timely(f) BY DEF IInv
    <3>2. Unborn(f)' BY <1>9, <3>1 DEF Unborn, Left
    <3>3. f.id <= requests' BY <1>2, <1>13
    <3> QED BY <3>1, <3>2, <3>3 DEF Timely
  <2>2. Timely(g)' BY <1>2, <1>6 DEF Timely
  <2>3. Unborn(g)'
    <3>1. ~Left(g.id)'
      <4>1. ASSUME NEW l \in left PROVE l.sid # g.id
        <5>1. l.sid \in Nat /\ l.sid <= requests BY DEF IInv, TypeOK, Logouts, Sids, Remembered
        <5> QED BY <1>2, <1>6, <5>1
      <4> QED BY <4>1 DEF Left
    <3>2. ASSUME NEW c \in Issued PROVE c.sid # g.id
      <4>1. Sound(c) BY DEF IInv
      <4>2. c.sid \in Nat /\ c.sid <= requests BY <1>10, <4>1 DEF Cookies, Sids, Sound
      <4> QED BY <1>2, <1>6, <4>2
    <3> QED BY <1>9, <3>1, <3>2 DEF Unborn
  <2> QED BY <1>7, <2>1, <2>2, <2>3
<1>16. JarTimely' BY DEF IInv, JarTimely
<1>17. OneKey' BY <1>9 DEF IInv, OneKey
<1>18. (\A i \in Instances : \A s \in revoked[i] : Left(s))' BY DEF IInv, Left
<1> QED BY <1>8, <1>11, <1>12, <1>14, <1>15, <1>16, <1>17, <1>18 DEF IInv

\* A step that answers f with a, and logs nobody out: what is left to show is that a is sound
\* and timely, and signed as the other cookies of its session.
LEMMA AnswerStep ==
  ASSUME IInv, NEW f \in flights, NEW a \in Answers, Answer(f, a), ~f.answered,
         UNCHANGED <<now, server, requests, browser, history>>,
         a.cookie # None =>
           /\ a.cookie \in Cookies /\ Sound(a.cookie)
           /\ secret # "set" => \A c \in Issued : c.sid = a.cookie.sid => c.key = a.cookie.key
           /\ (\E c \in Issued : c.sid = a.cookie.sid) \/
                (f.what = "login" /\ a.cookie.sid = f.id)
           /\ a.sets
           /\ a.cookie.exp = Lesser(a.at + Ttl, a.cookie.iat + Cap)
           /\ a.maxAge = a.cookie.exp - a.at
           /\ a.at <= now
  PROVE  IInv'
<1> USE DEF server, browser, history
<1>0. PICK g : g = [f EXCEPT !.answered = TRUE, !.answer = a] OBVIOUS
<1>1. /\ flights' \subseteq Flights
      /\ \A h \in flights' : h = g \/ (h \in flights /\ h # f)
      /\ g.id = f.id /\ g.what = f.what /\ g.answered = TRUE /\ g.answer = a
      /\ Issued' \subseteq Issued \cup {a.cookie}
      /\ \A h, k \in flights' : h.id = k.id => h = k
  BY <1>0, Answering
<1>2. Issued \subseteq Cookies BY IssuedTyped DEF IInv
<1>3. None \notin Issued' BY DEF Issued
<1>4. \A c \in Issued' : Sound(c)'
  <2> SUFFICES ASSUME NEW c \in Issued' PROVE Sound(c)' OBVIOUS
  <2>1. Sound(c) BY <1>1, <1>3 DEF IInv
  <2> QED BY <2>1 DEF Sound, Dead, Key, Left
<1>5. \A h \in flights' : Timely(h)'
  <2> SUFFICES ASSUME NEW h \in flights' PROVE Timely(h)' OBVIOUS
  <2>1. CASE h = g
    <3>1. f.id <= requests BY DEF IInv, Timely
    <3> QED BY <1>1, <2>1, <3>1 DEF Timely
  <2>2. CASE h \in flights
    <3>1. Timely(h) BY <2>2 DEF IInv
    <3> QED BY <3>1 DEF Timely
  <2> QED BY <1>1, <2>1, <2>2
<1>6. \A h \in flights' : Unborn(h)'
  <2> SUFFICES ASSUME NEW h \in flights', h.what = "login", ~h.answered
               PROVE  ~Left(h.id)' /\ \A c \in Issued' : c.sid # h.id
    BY DEF Unborn
  <2>1. h \in flights /\ h # f BY <1>1
  <2>2. ~Left(h.id) /\ \A c \in Issued : c.sid # h.id BY <2>1 DEF IInv, Unborn
  <2>3. h.id # f.id BY <2>1 DEF IInv
  <2>4. ~Left(h.id)' BY <2>2 DEF Left
  <2>5. a.cookie # None => a.cookie.sid # h.id BY <2>2, <2>3
  <2> QED BY <1>1, <1>3, <2>2, <2>4, <2>5
<1>7. JarTimely' BY DEF IInv, JarTimely
<1>8. TypeOK' BY <1>1 DEF IInv, TypeOK
<1>9. OneKey'
  <2> SUFFICES ASSUME secret # "set", NEW c \in Issued', NEW d \in Issued', c.sid = d.sid
               PROVE  c.key = d.key
    BY DEF OneKey
  <2>1. (c \in Issued \/ c = a.cookie) /\ (d \in Issued \/ d = a.cookie) BY <1>1
  <2>2. c # None /\ d # None BY <1>3
  <2>3. \A x, y \in Issued : x.sid = y.sid => x.key = y.key BY DEF IInv, OneKey
  <2> QED BY <2>1, <2>2, <2>3
<1>10. \A l \in left' : Remembered(l)' BY DEF IInv, Remembered
<1>11. (\A i \in Instances : \A s \in revoked[i] : Left(s))' BY DEF IInv, Left
<1> QED BY <1>1, <1>4, <1>5, <1>6, <1>7, <1>8, <1>9, <1>10, <1>11 DEF IInv

LEMMA NoCookieTyped == NoCookie \in Answers /\ NoCookie.cookie = None
BY DEF NoCookie, Answers, Optional

LEMMA ClearCookieTyped == ClearCookie \in Answers /\ ClearCookie.cookie = None
BY DEF ClearCookie, Answers, Optional

LEMMA SetCookieTyped ==
  ASSUME IInv, NEW i \in Instances, NEW c \in Cookies, c.iat <= now, now <= c.iat + Cap
  PROVE  /\ SetCookie(i, c) \in Answers /\ SetCookie(i, c).cookie = Refreshed(i, c)
         /\ SetCookie(i, c).sets /\ SetCookie(i, c).at = now
         /\ SetCookie(i, c).maxAge = Refreshed(i, c).exp - now
<1>1. Refreshed(i, c) \in Cookies BY Written
<1>2. now \in Nat /\ Refreshed(i, c).exp - now \in Int BY <1>1 DEF Cookies, IInv, TypeOK
<1> QED BY <1>1, <1>2 DEF SetCookie, Answers, Optional

\* The key of an instance names it and its life, where no secret is shared.
LEMMA OwnKey ==
  ASSUME TypeOK, secret # "set", NEW i \in Instances
  PROVE  /\ Key(i)[1] = i /\ Key(i)[2] = life[i]
         /\ \A j \in Instances : Key(j) = Key(i) => j = i
BY DEF Key, TypeOK

\* A cookie signed by an instance, of a session that nobody left or that was left there.
LEMMA Signed ==
  ASSUME IInv, NEW i \in Instances, NEW c \in Cookies, c.key = Key(i),
         c.iat < c.exp, c.exp <= c.iat + Cap, c.iat <= now, c.sid <= requests,
         secret # "set" /\ Left(c.sid) => c.sid \in revoked[i]
  PROVE  Sound(c)
<1>1. TypeOK BY DEF IInv
<1> SUFFICES ASSUME secret # "set", NEW j \in Instances
             PROVE  (c.key[1] = j => c.key[2] <= life[j]) /\ Dead(j, c)
  BY DEF Sound
<1>2. c.key[1] = i /\ c.key[2] = life[i] /\ (Key(j) = Key(i) => j = i) BY <1>1, OwnKey
<1>3. life[i] \in Nat BY <1>1 DEF TypeOK
<1>4. c.key[1] = j => c.key[2] <= life[j] BY <1>2, <1>3
<1>5. Dead(j, c) BY <1>2 DEF Dead
<1> QED BY <1>4, <1>5

LEMMA LoginStep ==
  ASSUME NEW i \in Instances, NEW f \in flights, IInv, Login(i, f)
  PROVE  IInv'
<1> USE DEF Login
<1>1. CASE Answer(f, NoCookie) BY <1>1, NoCookieTyped, AnswerStep
<1>2. CASE Answer(f, SetCookie(i, MakeSession(i, f.id)))
  <2>0. PICK c : c = MakeSession(i, f.id) OBVIOUS
  <2>1. f.id \in Sids /\ now \in Nat /\ Key(i) \in Keys
    BY KeyTyped DEF IInv, TypeOK, Flights
  <2>2. Lesser(Ttl, Cap) \in Nat BY WindowAssumption DEF Lesser
  <2>3. c \in Cookies /\ c.sid = f.id /\ c.iat = now
    BY <2>0, <2>1, <2>2 DEF MakeSession, Cookies
  <2>4. c.iat <= now /\ now <= c.iat + Cap BY <2>1, <2>3, WindowAssumption
  <2>a. PICK a : a = SetCookie(i, c) OBVIOUS
  <2>5. /\ a \in Answers /\ a.cookie = Refreshed(i, c) /\ a.sets /\ a.at = now
        /\ a.maxAge = a.cookie.exp - a.at
    BY <2>a, <2>3, <2>4, SetCookieTyped
  <2>6. /\ a.cookie \in Cookies
        /\ a.cookie.sid = f.id /\ a.cookie.iat = now /\ a.cookie.key = Key(i)
        /\ a.cookie.exp = Lesser(now + Ttl, a.cookie.iat + Cap)
        /\ a.cookie.iat < a.cookie.exp /\ a.cookie.exp <= a.cookie.iat + Cap
    BY <2>3, <2>4, <2>5, Written
  <2>7. Answer(f, a) BY <1>2, <2>0, <2>a
  <2>8. /\ ~Left(f.id) /\ f.id <= requests
        /\ \A d \in Issued : d.sid # f.id BY DEF IInv, Unborn, Timely
  <2>9. now <= now BY <2>1
  <2>10. Sound(a.cookie) BY <2>6, <2>8, <2>9, Signed
  <2> QED BY <2>5, <2>6, <2>7, <2>8, <2>9, <2>10, AnswerStep
<1> QED BY <1>1, <1>2

LEMMA MeStep ==
  ASSUME NEW i \in Instances, NEW f \in flights, IInv, Me(i, f)
  PROVE  IInv'
<1> USE DEF Me
<1>1. CASE ~Accepted(i, f.cookie) BY <1>1, NoCookieTyped, AnswerStep
<1>2. CASE Accepted(i, f.cookie)
  <2>1. PICK c : c = f.cookie OBVIOUS
  <2>2. c \in Issued BY <1>2, <2>1 DEF Accepted, Issued, Everywhere
  <2>3. c \in Cookies /\ Sound(c) BY <2>2, IssuedTyped DEF IInv
  <2>4. c.iat <= now /\ now <= c.iat + Cap /\ c.sid \notin revoked[i] /\ c.key = Key(i)
    BY <1>2, <2>1, <2>3 DEF Accepted, Sound
  <2>a. PICK a : a = SetCookie(i, c) OBVIOUS
  <2>5. /\ a \in Answers /\ a.cookie = Refreshed(i, c) /\ a.sets /\ a.at = now
        /\ a.maxAge = a.cookie.exp - a.at
    BY <2>a, <2>3, <2>4, SetCookieTyped
  <2>6. /\ a.cookie \in Cookies
        /\ a.cookie.sid = c.sid /\ a.cookie.iat = c.iat /\ a.cookie.key = c.key
        /\ a.cookie.exp = Lesser(now + Ttl, a.cookie.iat + Cap)
        /\ a.cookie.iat < a.cookie.exp /\ a.cookie.exp <= a.cookie.iat + Cap
    BY <2>3, <2>4, <2>5, Written
  <2>7. Answer(f, a) BY <1>2, <2>1, <2>a
  <2>8. secret # "set" => ~Left(c.sid) BY <2>3, <2>4 DEF Sound, Dead
  <2>9. now <= now BY DEF IInv, TypeOK
  <2>10. Sound(a.cookie) BY <2>3, <2>4, <2>6, <2>8, Signed DEF Sound
  <2>11. secret # "set" => \A d \in Issued : d.sid = a.cookie.sid => d.key = a.cookie.key
    BY <2>2, <2>6 DEF IInv, OneKey
  <2> QED BY <2>2, <2>5, <2>6, <2>7, <2>9, <2>10, <2>11, AnswerStep
<1> QED BY <1>1, <1>2

\* The answer of a logout carries no cookie, and is a step of its own without the revocation.
LEMMA LogoutStep ==
  ASSUME NEW i \in Instances, NEW f \in flights, IInv, Logout(i, f)
  PROVE  IInv'
<1> USE DEF Logout, browser
<1>0. TypeOK BY DEF IInv
<1>1. PICK g : g = [f EXCEPT !.answered = TRUE, !.answer = ClearCookie] OBVIOUS
<1>2. /\ flights' \subseteq Flights
      /\ \A h \in flights' : h = g \/ (h \in flights /\ h # f)
      /\ g.id = f.id /\ g.what = f.what /\ g.answered = TRUE /\ g.answer = ClearCookie
      /\ Issued' \subseteq Issued \cup {None}
      /\ \A h, k \in flights' : h.id = k.id => h = k
  <2>1. PICK a \in Answers : a = ClearCookie /\ a.cookie = None BY ClearCookieTyped
  <2>2. Answer(f, a) /\ jar' = jar /\ now' = now /\ requests' = requests BY <2>1
  <2>3. g = [f EXCEPT !.answered = TRUE, !.answer = a] BY <1>1, <2>1
  <2>5. UNCHANGED <<now, requests>> BY <2>2
  <2>4. /\ flights' \subseteq Flights
        /\ \A h \in flights' : h = g \/ (h \in flights /\ h # f)
        /\ g.id = f.id /\ g.what = f.what /\ g.answered = TRUE /\ g.answer = a
        /\ Issued' \subseteq Issued \cup {a.cookie}
        /\ \A h, k \in flights' : h.id = k.id => h = k
    <3> HIDE DEF Logout, browser
    <3> DEFINE x == [f EXCEPT !.answered = TRUE, !.answer = a]
    <3>1. /\ flights' \subseteq Flights
          /\ \A h \in flights' : h = x \/ (h \in flights /\ h # f)
          /\ x.id = f.id /\ x.what = f.what /\ x.answered = TRUE /\ x.answer = a
          /\ Issued' \subseteq Issued \cup {a.cookie}
          /\ \A h, k \in flights' : h.id = k.id => h = k
      BY <2>2, <2>5, Answering
    <3> HIDE DEF x
    <3>2. g = x BY <2>3 DEF x
    <3> QED BY <3>1, <3>2
  <2> QED BY <2>1, <2>4
<1>3. Issued' \subseteq Issued BY <1>2 DEF Issued
<1>4. \A l \in Leaves(i, f) :
        /\ l \in Logouts /\ l.by = i /\ l.life = life[i]
        /\ l.sid = f.cookie.sid /\ Accepted(i, f.cookie)
  BY <1>0 DEF Leaves, Logouts, TypeOK
<1>5. Accepted(i, f.cookie) => f.cookie \in Issued BY DEF Accepted, Issued, Everywhere
<1>6. PICK gone \in SUBSET Sids : gone = {l.sid : l \in Leaves(i, f)}
  BY <1>4 DEF Logouts
<1>7. /\ revoked' = [revoked EXCEPT ![i] = @ \cup gone] /\ left' = left \cup Leaves(i, f)
      /\ UNCHANGED <<now, secret, life, requests, jar, until, seen, overtaken>>
  BY <1>6
<1>8. /\ revoked'[i] = revoked[i] \cup gone
      /\ \A j \in Instances \ {i} : revoked'[j] = revoked[j]
      /\ revoked' \in [Instances -> SUBSET Sids]
  BY <1>0, <1>6, <1>7 DEF TypeOK
<1>9. TypeOK' BY <1>0, <1>2, <1>4, <1>7, <1>8 DEF TypeOK
<1>10. \A s : Left(s)' <=> Left(s) \/ s \in gone BY <1>6, <1>7 DEF Left
<1>11. \A s \in gone : s = f.cookie.sid /\ f.cookie \in Issued /\ f.cookie.key = Key(i)
  BY <1>4, <1>5, <1>6 DEF Accepted
<1>12. (\A j \in Instances : \A s \in revoked[j] : Left(s))'
  <2> SUFFICES ASSUME NEW j \in Instances, NEW s \in revoked'[j] PROVE Left(s)' OBVIOUS
  <2>1. s \in revoked[j] \/ s \in gone BY <1>8
  <2> QED BY <1>10, <2>1 DEF IInv
<1>13. \A l \in left' : Remembered(l)'
  <2> SUFFICES ASSUME NEW l \in left' PROVE Remembered(l)' OBVIOUS
  <2>1. CASE l \in left
    <3>1. Remembered(l) /\ l.by \in Instances BY <2>1, <1>0 DEF IInv, TypeOK, Logouts
    <3> QED BY <1>7, <1>8, <3>1 DEF Remembered
  <2>2. CASE l \in Leaves(i, f)
    <3>1. l.sid \in gone /\ l.by = i /\ l.life = life[i] BY <1>4, <1>6, <2>2
    <3>2. l.sid <= requests BY <1>11, <3>1 DEF IInv, Sound
    <3>3. life[i] \in Nat BY <1>0 DEF TypeOK
    <3>4. l.life <= life[i] BY <3>1, <3>3
    <3> QED BY <1>7, <1>8, <3>1, <3>2, <3>4 DEF Remembered
  <2> QED BY <1>7, <2>1, <2>2
<1>14. OneKey' BY <1>3, <1>7 DEF IInv, OneKey
<1>15. \A c \in Issued' : Sound(c)'
  <2> SUFFICES ASSUME NEW c \in Issued PROVE Sound(c)' BY <1>3
  <2>1. Sound(c) BY DEF IInv
  <2>2. ASSUME secret # "set", NEW j \in Instances, c.key = Key(j), Left(c.sid)'
        PROVE  c.sid \in revoked'[j]
    <3>1. CASE Left(c.sid)
      <4>1. c.sid \in revoked[j] BY <2>1, <2>2, <3>1 DEF Sound, Dead
      <4> QED BY <1>8, <4>1
    <3>2. CASE c.sid \in gone
      <4>1. c.key = Key(i) BY <1>11, <2>2, <3>2 DEF IInv, OneKey
      <4>2. j = i BY <1>0, <2>2, <4>1, OwnKey
      <4> QED BY <1>8, <3>2, <4>2
    <3> QED BY <1>10, <2>2, <3>1, <3>2
  <2>3. \A j \in Instances : Key(j)' = Key(j) BY <1>7 DEF Key
  <2>4. secret # "set" => \A j \in Instances : Dead(j, c)' BY <2>2, <2>3 DEF Dead
  <2> QED BY <1>7, <2>1, <2>4 DEF Sound
<1>16. \A h \in flights' : Timely(h)'
  <2> SUFFICES ASSUME NEW h \in flights' PROVE Timely(h)' OBVIOUS
  <2>1. CASE h = g
    <3>1. f.id <= requests BY DEF IInv, Timely
    <3> QED BY <1>2, <1>7, <2>1, <3>1, ClearCookieTyped DEF Timely
  <2>2. CASE h \in flights
    <3>1. Timely(h) BY <2>2 DEF IInv
    <3> QED BY <1>7, <3>1 DEF Timely
  <2> QED BY <1>2, <2>1, <2>2
<1>17. \A h \in flights' : Unborn(h)'
  <2> SUFFICES ASSUME NEW h \in flights', h.what = "login", ~h.answered
               PROVE  ~Left(h.id)' /\ \A c \in Issued' : c.sid # h.id
    BY DEF Unborn
  <2>1. h \in flights /\ h # f BY <1>2
  <2>2. ~Left(h.id) /\ \A c \in Issued : c.sid # h.id BY <2>1 DEF IInv, Unborn
  <2>3. h.id \notin gone BY <1>11, <2>2
  <2> QED BY <1>3, <1>10, <2>2, <2>3
<1>18. JarTimely' BY <1>7 DEF IInv, JarTimely
<1> QED BY <1>2, <1>9, <1>12, <1>13, <1>14, <1>15, <1>16, <1>17, <1>18 DEF IInv

LEMMA ArriveStep == ASSUME NEW f \in flights, IInv, Arrive(f) PROVE IInv'
<1> USE DEF Arrive, server, browser
<1>1. f \in Flights /\ Timely(f) BY DEF IInv, TypeOK
<1>2. flights' = flights \ {f} OBVIOUS
<1>3. PICK a : a = f.answer OBVIOUS
<1>4. a \in Answers BY <1>1, <1>3 DEF Flights
<1>5. now \in Nat BY DEF IInv, TypeOK
<1>6. a.cookie # None => /\ a.cookie \in Issued /\ a.cookie \in Cookies /\ a.sets
                         /\ a.cookie.sid \in Sids
  <2>1. a.cookie # None => a.cookie \in Issued BY <1>3 DEF Issued, Everywhere
  <2> QED BY <1>1, <1>3, <2>1, IssuedTyped DEF IInv, Timely, Cookies
<1>7. jar' \in {jar, None, a.cookie} BY <1>3
<1>8. TypeOK'
  <2>1. jar' \in Optional BY <1>4, <1>7 DEF Answers, Optional, IInv, TypeOK
  <2>2. until' \in Int BY <1>3, <1>4, <1>5 DEF Answers, IInv, TypeOK
  <2>3. seen' \in [Sids -> Nat] /\ overtaken' \in BOOLEAN
    <3>1. CASE a.cookie = None BY <1>3, <3>1 DEF IInv, TypeOK
    <3>2. CASE a.cookie # None
      <4>1. a.at \in Nat BY <1>4 DEF Answers
      <4>2. seen' = [seen EXCEPT ![a.cookie.sid] = IF @ < a.at THEN a.at ELSE @]
        BY <1>3, <3>2
      <4> QED BY <1>3, <1>6, <3>2, <4>1, <4>2 DEF IInv, TypeOK
    <3> QED BY <3>1, <3>2
  <2> QED BY <2>1, <2>2, <2>3 DEF IInv, TypeOK
<1>9. Issued' \subseteq Issued
  <2> SUFFICES ASSUME NEW c \in Issued' PROVE c \in Issued OBVIOUS
  <2>1. c # None /\ c \in Everywhere' BY DEF Issued
  <2>2. CASE c = jar' BY <1>6, <1>7, <2>1, <2>2 DEF Issued, Everywhere
  <2>3. CASE \E h \in flights' : c = h.cookie \/ c = h.answer.cookie
    BY <1>2, <2>1, <2>3 DEF Issued, Everywhere
  <2> QED BY <2>1, <2>2, <2>3 DEF Everywhere
<1>10. \A c \in Issued' : Sound(c)' BY <1>9 DEF IInv, Sound, Dead, Key, Left
<1>11. \A h \in flights' : Unborn(h)' /\ Timely(h)'
  <2> SUFFICES ASSUME NEW h \in flights PROVE Unborn(h)' /\ Timely(h)' BY <1>2
  <2>1. Unborn(h) /\ Timely(h) BY DEF IInv
  <2> QED BY <1>9, <2>1 DEF Unborn, Timely, Left
<1>12. JarTimely'
  <2> SUFFICES ASSUME jar' # None
               PROVE  /\ jar'.exp <= until'
                      /\ overtaken' \/ jar'.exp = Lesser(seen'[jar'.sid] + Ttl, jar'.iat + Cap)
    BY DEF JarTimely
  <2>1. CASE ~a.sets
    <3>1. a.cookie = None BY <1>6, <2>1
    <3>2. UNCHANGED <<jar, until, seen, overtaken>> BY <1>3, <2>1, <3>1
    <3> QED BY <3>2 DEF IInv, JarTimely
  <2>2. CASE a.sets
    <3>1. jar' = a.cookie /\ until' = now + a.maxAge BY <1>3, <2>2
    <3>2. a.cookie # None BY <3>1
    <3>3. /\ a.cookie.exp = Lesser(a.at + Ttl, a.cookie.iat + Cap)
          /\ a.maxAge = a.cookie.exp - a.at /\ a.at <= now
      BY <1>1, <1>3, <3>2 DEF Timely
    <3>4. a.at \in Nat /\ a.cookie.exp \in Nat BY <1>4, <1>6, <3>2 DEF Answers, Cookies
    <3>5. jar'.exp <= until' BY <1>5, <3>1, <3>3, <3>4
    <3>6. PICK s : s = a.cookie.sid OBVIOUS
    <3>7. /\ overtaken' = (overtaken \/ a.at < seen[s])
          /\ seen' = [seen EXCEPT ![s] = IF @ < a.at THEN a.at ELSE @]
      BY <1>3, <3>2, <3>6
    <3>8. s \in Sids /\ seen[s] \in Nat /\ seen \in [Sids -> Nat]
      BY <1>6, <3>2, <3>6 DEF IInv, TypeOK
    <3>9. a.at < seen[s] \/ seen'[s] = a.at BY <3>4, <3>7, <3>8
    <3> QED BY <3>1, <3>3, <3>5, <3>6, <3>7, <3>9
  <2> QED BY <1>4, <2>1, <2>2 DEF Answers
<1>13. OneKey' BY <1>9 DEF IInv, OneKey
<1>14. \A l \in left' : Remembered(l)' BY DEF IInv, Remembered
<1>15. (\A i \in Instances : \A s \in revoked[i] : Left(s))' BY DEF IInv, Left
<1> QED BY <1>2, <1>8, <1>10, <1>11, <1>12, <1>13, <1>14, <1>15 DEF IInv

LEMMA LoseStep == ASSUME NEW f \in flights, IInv, Lose(f) PROVE IInv'
<1> USE DEF Lose, server, browser, history
<1>1. TypeOK' BY DEF IInv, TypeOK
<1>2. Issued' \subseteq Issued BY DEF Issued, Everywhere
<1>3. \A c \in Issued' : Sound(c)' BY <1>2 DEF IInv, Sound, Dead, Key, Left
<1>4. \A h \in flights' : Unborn(h)' /\ Timely(h)'
  <2> SUFFICES ASSUME NEW h \in flights PROVE Unborn(h)' /\ Timely(h)' OBVIOUS
  <2>1. Unborn(h) /\ Timely(h) BY DEF IInv
  <2> QED BY <1>2, <2>1 DEF Unborn, Timely, Left
<1>5. JarTimely' BY DEF IInv, JarTimely
<1>6. OneKey' BY <1>2 DEF IInv, OneKey
<1>7. \A l \in left' : Remembered(l)' BY DEF IInv, Remembered
<1>8. (\A i \in Instances : \A s \in revoked[i] : Left(s))' BY DEF IInv, Left
<1> QED BY <1>1, <1>3, <1>4, <1>5, <1>6, <1>7, <1>8 DEF IInv

\* Started again, an instance forgets the logouts, and no cookie has its new key.
LEMMA RestartStep == ASSUME NEW i \in Instances, IInv, Restart(i) PROVE IInv'
<1> USE DEF Restart, browser, history
<1>0. TypeOK BY DEF IInv
<1>1. /\ life'[i] = life[i] + 1 /\ revoked'[i] = {} /\ life[i] \in Nat
      /\ \A j \in Instances \ {i} : life'[j] = life[j] /\ revoked'[j] = revoked[j]
      /\ life' \in [Instances -> Nat] /\ revoked' \in [Instances -> SUBSET Sids]
  BY <1>0 DEF TypeOK
<1>2. TypeOK' BY <1>0, <1>1 DEF TypeOK
<1>3. Issued' = Issued BY DEF Issued, Everywhere
<1>4. \A c \in Issued' : Sound(c)'
  <2> SUFFICES ASSUME NEW c \in Issued PROVE Sound(c)' BY <1>3
  <2>1. Sound(c) /\ c \in Cookies BY <1>0, IssuedTyped DEF IInv
  <2>2. c.key[2] \in Nat BY <2>1 DEF Cookies, Keys
  <2>3. ASSUME secret # "set", NEW j \in Instances
        PROVE  (c.key[1] = j => c.key[2] <= life'[j]) /\ Dead(j, c)'
    <3>1. c.key[1] = j => c.key[2] <= life[j] BY <2>1, <2>3 DEF Sound
    <3>2. CASE j = i
      <4>1. c.key[1] = j => c.key[2] < life'[j] BY <1>1, <2>2, <3>1, <3>2
      <4>2. c.key # Key(j)' BY <1>1, <2>2, <2>3, <3>2, <4>1 DEF Key
      <4> QED BY <1>1, <2>2, <3>2, <4>1, <4>2 DEF Dead
    <3>3. CASE j # i
      <4>1. life'[j] = life[j] /\ revoked'[j] = revoked[j] BY <1>1, <3>3
      <4>2. Dead(j, c) BY <2>1, <2>3 DEF Sound
      <4> QED BY <3>1, <4>1, <4>2 DEF Dead, Key, Left
    <3> QED BY <3>2, <3>3
  <2> QED BY <2>1, <2>3 DEF Sound
<1>5. \A h \in flights' : Unborn(h)' /\ Timely(h)'
  <2> SUFFICES ASSUME NEW h \in flights PROVE Unborn(h)' /\ Timely(h)' OBVIOUS
  <2>1. Unborn(h) /\ Timely(h) BY DEF IInv
  <2> QED BY <1>3, <2>1 DEF Unborn, Timely, Left
<1>6. JarTimely' BY DEF IInv, JarTimely
<1>7. OneKey' BY <1>3 DEF IInv, OneKey
<1>8. \A l \in left' : Remembered(l)'
  <2> SUFFICES ASSUME NEW l \in left PROVE Remembered(l)' OBVIOUS
  <2>1. Remembered(l) /\ l.by \in Instances /\ l.life \in Nat
    BY <1>0 DEF IInv, TypeOK, Logouts
  <2>2. CASE l.by = i
    <3>1. l.life <= life'[i] /\ l.life # life'[i] BY <1>1, <2>1, <2>2 DEF Remembered
    <3> QED BY <2>1, <2>2, <3>1 DEF Remembered
  <2>3. CASE l.by # i BY <1>1, <2>1, <2>3 DEF Remembered
  <2> QED BY <2>2, <2>3
<1>9. (\A j \in Instances : \A s \in revoked[j] : Left(s))'
  <2> SUFFICES ASSUME NEW j \in Instances, NEW s \in revoked'[j] PROVE Left(s)' OBVIOUS
  <2>1. s \in revoked[j] BY <1>1
  <2> QED BY <2>1 DEF IInv, Left
<1> QED BY <1>2, <1>4, <1>5, <1>6, <1>7, <1>8, <1>9 DEF IInv

LEMMA Initially == Init => IInv
<1> SUFFICES ASSUME Init PROVE IInv OBVIOUS
<1> USE DEF Init
<1>1. TypeOK
  <2>1. /\ revoked \in [Instances -> SUBSET Sids] /\ life \in [Instances -> Nat]
        /\ flights \subseteq Flights /\ left \subseteq Logouts
    OBVIOUS
  <2>2. seen \in [Sids -> Nat] OBVIOUS
  <2>3. jar \in Optional BY DEF Optional
  <2>4. now \in Nat /\ requests \in Nat /\ until \in Int OBVIOUS
  <2>5. secret \in {"set", "random", "missing"} /\ overtaken \in BOOLEAN OBVIOUS
  <2> QED BY ONLY <2>1, <2>2, <2>3, <2>4, <2>5 DEF TypeOK
<1>2. Issued = {} BY DEF Issued, Everywhere
<1>3. JarTimely BY DEF JarTimely
<1>4. OneKey BY <1>2 DEF OneKey
<1>5. \A i \in Instances : revoked[i] = {} OBVIOUS
<1> QED BY <1>1, <1>2, <1>3, <1>4, <1>5 DEF IInv

LEMMA Preserved == IInv /\ [Next]_vars => IInv'
<1> SUFFICES ASSUME IInv, [Next]_vars PROVE IInv' OBVIOUS
<1>1. CASE Tick BY <1>1, TickStep
<1>2. CASE Send BY <1>2, SendStep
<1>3. ASSUME NEW f \in flights,
             (\E i \in Instances : Login(i, f) \/ Me(i, f) \/ Logout(i, f)) \/ Arrive(f) \/ Lose(f)
      PROVE  IInv'
  BY <1>3, LoginStep, MeStep, LogoutStep, ArriveStep, LoseStep
<1>4. CASE \E i \in Instances : Restart(i) BY <1>4, RestartStep
<1>5. CASE UNCHANGED vars
  <2> USE <1>5 DEF vars, server, browser, history
  <2>1. Issued' = Issued BY DEF Issued, Everywhere
  <2>2. \A c \in Issued' : Sound(c)' BY <2>1 DEF IInv, Sound, Dead, Key, Left
  <2>3. OneKey' BY <2>1 DEF IInv, OneKey
  <2>4. \A l \in left' : Remembered(l)' BY DEF IInv, Remembered
  <2>5. (\A i \in Instances : \A s \in revoked[i] : Left(s))' BY DEF IInv, Left
  <2>6. \A f \in flights' : Unborn(f)' /\ Timely(f)' BY <2>1 DEF IInv, Unborn, Timely, Left
  <2>7. JarTimely' /\ TypeOK' BY DEF IInv, JarTimely, TypeOK
  <2> QED BY <2>2, <2>3, <2>4, <2>5, <2>6, <2>7 DEF IInv
<1> QED BY <1>1, <1>2, <1>3, <1>4, <1>5 DEF Next

THEOREM Invariant == Spec => []IInv
<1> QED BY Initially, Preserved, PTL DEF Spec

-----------------------------------------------------------------------------
\* The two checks of a session's age agree, for any window and ceiling.
THEOREM AgeAgreesAlways == Spec => []AgeAgrees
<1>1. IInv => AgeAgrees BY DEF IInv, Sound, AgeAgrees
<1> QED BY <1>1, Invariant, PTL

\* Whoever was answered within the window is signed in, until the ceiling, at every instance
\* that has the key of the cookie.
THEOREM ActivityCounts == Spec => []ActiveStaysIn
<1>1. ASSUME IInv PROVE ActiveStaysIn
  <2> SUFFICES ASSUME jar # None, ~overtaken, ~Left(jar.sid),
                      ~(now >= Lesser(seen[jar.sid] + Ttl, jar.iat + Cap)),
                      NEW i \in Instances, jar.key = Key(i)
               PROVE  Accepted(i, Sent)
    BY DEF ActiveStaysIn
  <2>1. jar \in Issued BY DEF Issued, Everywhere
  <2>2. jar \in Cookies /\ Sound(jar) BY <1>1, <2>1, IssuedTyped DEF IInv
  <2>3. jar.exp <= until /\ jar.exp = Lesser(seen[jar.sid] + Ttl, jar.iat + Cap)
    BY <1>1 DEF IInv, JarTimely
  <2>4. now \in Nat /\ until \in Int /\ jar.exp \in Nat /\ jar.iat \in Nat
    BY <1>1, <2>2 DEF IInv, TypeOK, Cookies
  <2>5. now < jar.exp /\ now < until BY <2>3, <2>4
  <2>6. jar.iat < jar.exp /\ jar.exp <= jar.iat + Cap BY <2>2 DEF Sound
  <2>7. now <= jar.exp /\ now <= jar.iat + Cap BY <2>4, <2>5, <2>6, WindowAssumption
  <2>8. jar.sid \notin revoked[i] BY <1>1 DEF IInv
  <2>9. Sent = jar BY <2>5 DEF Sent
  <2> QED BY <2>4, <2>6, <2>7, <2>8, <2>9 DEF Accepted
<1> QED BY <1>1, Invariant, PTL

\* A session that was logged out is over at every instance, but for those that share the secret
\* and did not carry out the logout themselves in their present life.
THEOREM LogoutLasts == Spec => []OutUnlessForgotten
<1>1. ASSUME IInv PROVE OutUnlessForgotten
  <2> SUFFICES ASSUME NEW c \in Issued, NEW i \in Instances, Left(c.sid), Accepted(i, c)
               PROVE  secret = "set" /\ [sid |-> c.sid, by |-> i, life |-> life[i]] \notin left
    BY DEF OutUnlessForgotten
  <2>1. c.key = Key(i) /\ c.sid \notin revoked[i] BY DEF Accepted
  <2>2. secret = "set" BY <1>1, <2>1 DEF IInv, Sound, Dead
  <2>3. ASSUME NEW l \in left, l.sid = c.sid, l.by = i, l.life = life[i] PROVE FALSE
    BY <1>1, <2>1, <2>3 DEF IInv, Remembered
  <2> QED BY <2>2, <2>3
<1> QED BY <1>1, Invariant, PTL

-----------------------------------------------------------------------------
(* The steps of each kind of run of the scripts *)

Kinds == {"seed", "import"} \cup Alone

LEMMA StepsSeed ==
  /\ Len(Steps("seed")) = 20
  /\ Steps("seed")[1] = "fetch" /\ Steps("seed")[2] = "heights"
  /\ Steps("seed")[3] = "publish" /\ Steps("seed")[4] = "stage"
  /\ Steps("seed")[5] = "highways" /\ Steps("seed")[6] = "build"
  /\ Steps("seed")[7] = "publish" /\ Steps("seed")[8] = "lay"
  /\ Steps("seed")[9] = "publish" /\ Steps("seed")[10] = "highways"
  /\ Steps("seed")[11] = "plots" /\ Steps("seed")[12] = "join"
  /\ Steps("seed")[13] = "publish" /\ Steps("seed")[14] = "parcels.json"
  /\ Steps("seed")[15] = "survey_parcels.json" /\ Steps("seed")[16] = "utilities.json"
  /\ Steps("seed")[17] = "ready" /\ Steps("seed")[18] = "list"
  /\ Steps("seed")[19] = "merge" /\ Steps("seed")[20] = "write"
BY DEF Steps, Stage, Export, Files

LEMMA StepsImport ==
  /\ Len(Steps("import")) = 11
  /\ Steps("import")[1] = "publish" /\ Steps("import")[2] = "load"
  /\ Steps("import")[3] = "join" /\ Steps("import")[4] = "publish"
  /\ Steps("import")[5] = "parcels.json" /\ Steps("import")[6] = "survey_parcels.json"
  /\ Steps("import")[7] = "utilities.json" /\ Steps("import")[8] = "ready"
  /\ Steps("import")[9] = "list" /\ Steps("import")[10] = "merge"
  /\ Steps("import")[11] = "write"
BY DEF Steps, Stage, Export, Files

LEMMA StepsCadastre ==
  /\ Len(Steps("cadastre")) = 4
  /\ Steps("cadastre")[1] = "publish" /\ Steps("cadastre")[2] = "stage"
  /\ Steps("cadastre")[3] = "highways" /\ Steps("cadastre")[4] = "build"
BY DEF Steps, Stage, Export, Files

LEMMA StepsUtilities ==
  /\ Len(Steps("utilities")) = 2
  /\ Steps("utilities")[1] = "publish" /\ Steps("utilities")[2] = "lay"
BY DEF Steps, Stage, Export, Files

LEMMA StepsSurvey ==
  /\ Len(Steps("survey")) = 4
  /\ Steps("survey")[1] = "publish" /\ Steps("survey")[2] = "highways"
  /\ Steps("survey")[3] = "plots" /\ Steps("survey")[4] = "join"
BY DEF Steps, Stage, Export, Files

LEMMA StepsExport ==
  /\ Len(Steps("export")) = 8
  /\ Steps("export")[1] = "publish" /\ Steps("export")[2] = "parcels.json"
  /\ Steps("export")[3] = "survey_parcels.json" /\ Steps("export")[4] = "utilities.json"
  /\ Steps("export")[5] = "ready" /\ Steps("export")[6] = "list"
  /\ Steps("export")[7] = "merge" /\ Steps("export")[8] = "write"
BY DEF Steps, Stage, Export, Files

\* Which runs have a step, and where.
LEMMA Places ==
  ASSUME NEW kind \in Kinds, NEW k \in 1..Len(Steps(kind))
  PROVE  /\ Steps(kind)[k] = "fetch" <=> kind = "seed" /\ k = 1
         /\ Steps(kind)[k] = "heights" <=> kind = "seed" /\ k = 2
         /\ Steps(kind)[k] = "publish" <=> \/ kind = "seed" /\ k \in {3, 7, 9, 13}
                                           \/ kind = "import" /\ k \in {1, 4}
                                           \/ kind = "cadastre" /\ k = 1
                                           \/ kind = "utilities" /\ k = 1
                                           \/ kind = "survey" /\ k = 1
                                           \/ kind = "export" /\ k = 1
         /\ Steps(kind)[k] = "stage" <=> \/ kind = "seed" /\ k = 4
                                         \/ kind = "cadastre" /\ k = 2
         /\ Steps(kind)[k] = "highways" <=> \/ kind = "seed" /\ k \in {5, 10}
                                            \/ kind = "cadastre" /\ k = 3
                                            \/ kind = "survey" /\ k = 2
         /\ Steps(kind)[k] = "build" <=> \/ kind = "seed" /\ k = 6
                                         \/ kind = "cadastre" /\ k = 4
         /\ Steps(kind)[k] = "lay" <=> \/ kind = "seed" /\ k = 8
                                       \/ kind = "utilities" /\ k = 2
         /\ Steps(kind)[k] = "plots" <=> \/ kind = "seed" /\ k = 11
                                         \/ kind = "survey" /\ k = 3
         /\ Steps(kind)[k] = "join" <=> \/ kind = "seed" /\ k = 12
                                        \/ kind = "import" /\ k = 3
                                        \/ kind = "survey" /\ k = 4
         /\ Steps(kind)[k] = "parcels.json" <=> \/ kind = "seed" /\ k = 14
                                                \/ kind = "import" /\ k = 5
                                                \/ kind = "export" /\ k = 2
         /\ Steps(kind)[k] = "survey_parcels.json" <=> \/ kind = "seed" /\ k = 15
                                                       \/ kind = "import" /\ k = 6
                                                       \/ kind = "export" /\ k = 3
         /\ Steps(kind)[k] = "utilities.json" <=> \/ kind = "seed" /\ k = 16
                                                  \/ kind = "import" /\ k = 7
                                                  \/ kind = "export" /\ k = 4
         /\ Steps(kind)[k] = "ready" <=> \/ kind = "seed" /\ k = 17
                                         \/ kind = "import" /\ k = 8
                                         \/ kind = "export" /\ k = 5
         /\ Steps(kind)[k] = "list" <=> \/ kind = "seed" /\ k = 18
                                        \/ kind = "import" /\ k = 9
                                        \/ kind = "export" /\ k = 6
         /\ Steps(kind)[k] = "merge" <=> \/ kind = "seed" /\ k = 19
                                         \/ kind = "import" /\ k = 10
                                         \/ kind = "export" /\ k = 7
         /\ Steps(kind)[k] = "write" <=> \/ kind = "seed" /\ k = 20
                                         \/ kind = "import" /\ k = 11
                                         \/ kind = "export" /\ k = 8
         /\ Steps(kind)[k] = "load" <=> kind = "import" /\ k = 2
<1>1. CASE kind = "seed"
  <2>1. k \in 1..20
    BY <1>1, StepsSeed
  <2>2. CASE k \in {1, 2, 3, 4, 5}
    BY <1>1, <2>2, StepsSeed, SMTT(60)
  <2>3. CASE k \in {6, 7, 8, 9, 10}
    BY <1>1, <2>3, StepsSeed, SMTT(60)
  <2>4. CASE k \in {11, 12, 13, 14, 15}
    BY <1>1, <2>4, StepsSeed, SMTT(60)
  <2>5. CASE k \in {16, 17, 18, 19, 20}
    BY <1>1, <2>5, StepsSeed, SMTT(60)
  <2> QED BY <2>1, <2>2, <2>3, <2>4, <2>5
<1>2. CASE kind = "import"
  BY <1>2, StepsImport
<1>3. CASE kind = "cadastre"
  BY <1>3, StepsCadastre
<1>4. CASE kind = "utilities"
  BY <1>4, StepsUtilities
<1>5. CASE kind = "survey"
  BY <1>5, StepsSurvey
<1>6. CASE kind = "export"
  BY <1>6, StepsExport
<1> QED BY <1>1, <1>2, <1>3, <1>4, <1>5, <1>6 DEF Kinds, Alone

-----------------------------------------------------------------------------
(* The invariant *)

Sts == {"none", "generating", "ready", "failed"}

Jobs == [of : Projects \cup {Nothing}, kind : Kinds \cup {Nothing}, at : Nat, in : BOOLEAN,
         met : BOOLEAN, listed : [Projects -> Sts] \cup Listing \cup {Nothing}]

\* A run that is going has a kind, a project and a step of that kind.
JobsTyped ==
  /\ job \in [Runs -> Jobs]
  /\ \A r \in Runs : Active(r) => /\ Of(r) \in Projects /\ job[r].kind \in Kinds
                                  /\ job[r].at \in 1..Len(Steps(job[r].kind))

\* What is staged is of some project when it is built.
StagedFor ==
  \A r \in Runs : /\ job[r].kind = "seed" /\ job[r].at \in {5, 6} => staged.of \in Projects
                  /\ job[r].kind = "cadastre" /\ job[r].at \in {3, 4} => staged.of \in Projects

RowsTyped ==
  /\ ctx \in Scopes \cup {Nothing}
  /\ StagedFor
  /\ highways \in Projects \cup {Nothing}
  /\ cad \in [Projects -> Cads \cup {Nothing}]
  /\ util \in [Projects -> Utils \cup {Nothing}]
  /\ plots \in [Projects -> Lots \cup {Nothing}]

FilesTyped ==
  /\ status \in [Projects -> Sts]
  /\ api \in [Projects -> [FileSet -> Cads \cup Utils \cup Lots \cup {Nothing, Torn}]]
  /\ registry \in Listing \cup {Torn}
  /\ faults \in Nat /\ marred \subseteq Projects /\ cut \subseteq Projects
  /\ extract \in [Projects -> {"absent", "torn", "empty", "whole"}]
  /\ heights \in [Projects -> {"absent", "torn", "empty", "whole"}]

SeedTypeOK == JobsTyped /\ RowsTyped /\ FilesTyped

\* How many steps come before the first in the database.
Before(kind) == IF kind = "seed" THEN 3 ELSE 1

InDatabase ==
  \A r \in Runs : /\ job[r].in <=> job[r].at > Before(job[r].kind)
                  /\ Active(r) /\ job[r].met => job[r].in

\* Two runs in the database have met, and a run that has met, or does one stage, has
\* its project marred.
InTwos == \A r, s \in Runs : r # s /\ job[r].in /\ job[s].in => job[r].met

Marks ==
  \A r \in Runs : job[r].in /\ (job[r].met \/ job[r].kind \in Alone) => Of(r) \in marred

\* The scope is that of a run in the database, or of one it has met.
Scoped ==
  \A r \in Runs : job[r].in =>
    /\ ctx # Nothing
    /\ ctx.of = Of(r) \/ (job[r].met /\ ctx.of \in marred)

\* A run that shares the database with no other, and is to leave a whole project.
Clean(r) ==
  /\ job[r].in /\ ~job[r].met
  /\ job[r].kind = "seed" \/ (job[r].kind = "import" /\ Of(r) \notin marred)

\* How far a run is in its export.
Exporting(j) == IF j.kind = "seed" THEN j.at - 12 ELSE j.at - 3

\* What a seed has made of its project before step k.
Seeded(p, k) ==
  /\ k \in {5, 6} => staged.of = p
  /\ k >= 6 => highways = p
  /\ k >= 7 => cad[p] # Nothing /\ cad[p].of = p
  /\ k >= 9 => util[p] # Nothing /\ util[p].roads = p /\ util[p].on = cad[p]
  /\ k >= 12 => /\ plots[p] # Nothing /\ ~plots[p].official
                /\ plots[p].roads = p /\ plots[p].on = cad[p]

\* An import replaces the plots of what is whole.
Imported(p, k) ==
  /\ cad[p] # Nothing /\ util[p] # Nothing /\ util[p].on = cad[p] /\ plots[p] # Nothing
  /\ k >= 3 => plots[p].official

\* What an export has done before its step e.
Exported(p, e) ==
  /\ e >= 1 => Whole(p)
  /\ e >= 3 => api[p]["parcels.json"] = cad[p]
  /\ e >= 4 => api[p]["survey_parcels.json"] = plots[p]
  /\ e >= 5 => api[p]["utilities.json"] = util[p]
  /\ e \in 2..5 => p \in cut
  /\ IF e <= 5 THEN status[p] # "ready" ELSE status[p] # "generating"

Has(r) ==
  /\ job[r].kind = "seed" => Seeded(Of(r), job[r].at)
  /\ job[r].kind = "import" => Imported(Of(r), job[r].at)
  /\ Exported(Of(r), Exporting(job[r]))

Made == \A r \in Runs : Clean(r) => Has(r)

\* The files of a project are there, and of one export.
Filed(p) ==
  /\ \A f \in FileSet : api[p][f] \notin {Nothing, Torn}
  /\ api[p]["utilities.json"].on = api[p]["parcels.json"]

\* What is ready in a listing has its files.
Truthful(listing) ==
  \A p \in Projects \ (marred \cup cut) : listing[p] = "ready" => Filed(p)

\* A listing on its way to the registry is as true as the registry is.
Carries(r) ==
  /\ At(r, "merge") => job[r].listed \in [Projects -> Sts] /\ Truthful(job[r].listed)
  /\ At(r, "write") => job[r].listed \in Listing /\ Truthful(job[r].listed)

Listed == \A r \in Runs : Carries(r)

\* An emptied registry is about to be written by the run that emptied it.
LonerKept ==
  faults = 0 /\ ~Met =>
    /\ registry = Torn => \E r \in Runs : At(r, "write")
    /\ registry # Torn => registry[Loner] = "ready"
    /\ \A r \in Runs : At(r, "write") => job[r].listed[Loner] = "ready"

SeedInv ==
  /\ SeedTypeOK /\ InDatabase /\ InTwos /\ Marks /\ Scoped /\ Made
  /\ RowsAreOwn /\ RowsWhole
  /\ Listed /\ FilesWhole /\ LonerKept
  /\ GeneratedBySomeone

-----------------------------------------------------------------------------
(* How a run moves *)

LEMMA Lengths ==
  ASSUME NEW kind \in Kinds
  PROVE  Len(Steps(kind)) = IF kind = "seed" THEN 20 ELSE IF kind = "import" THEN 11
                            ELSE IF kind = "export" THEN 8 ELSE IF kind = "utilities" THEN 2 ELSE 4
BY StepsSeed, StepsImport, StepsCadastre, StepsUtilities, StepsSurvey, StepsExport
   DEF Kinds, Alone

LEMMA FileNames == FileSet = {"parcels.json", "survey_parcels.json", "utilities.json"}
<1>1. DOMAIN Files = 1..3 /\ Files[1] = "parcels.json" /\ Files[2] = "survey_parcels.json"
      /\ Files[3] = "utilities.json"
  BY DEF Files
<1> QED BY <1>1 DEF FileSet

\* A run goes on to its next step or ends; its project, its kind and what it met stay.
Moves(r) ==
  /\ job' \in [Runs -> Jobs]
  /\ \A s \in Runs \ {r} : job'[s] = job[s]
  /\ job'[r].of = job[r].of /\ job'[r].kind = job[r].kind /\ job'[r].met = job[r].met
  /\ \/ job'[r].at = 0 /\ ~job'[r].in
     \/ /\ job'[r].at = job[r].at + 1 /\ job'[r].at <= Len(Steps(job[r].kind))
        /\ job'[r].in <=> job[r].in

\* The values of a listing.
Lists == [Projects -> Sts] \cup Listing \cup {Nothing}

\* What the ends and the moves of a run do to its record.
LEMMA EndedGives ==
  ASSUME NEW j \in Jobs, NEW next, next = Ended(j)
  PROVE  /\ next \in Jobs
         /\ next.of = j.of /\ next.kind = j.kind /\ next.met = j.met /\ next.listed = j.listed
         /\ next.at = 0 /\ ~next.in
<1> DEFINE mid == [j EXCEPT !.at = 0]
<1>1. next = [mid EXCEPT !.in = FALSE]
  BY DEF Ended
<1>2. /\ mid \in Jobs /\ mid.of = j.of /\ mid.kind = j.kind /\ mid.met = j.met
      /\ mid.listed = j.listed /\ mid.at = 0
  BY DEF Jobs
<1> HIDE DEF mid
<1> QED BY <1>1, <1>2 DEF Jobs

LEMMA ForwardGives ==
  ASSUME NEW j \in Jobs, j.kind \in Kinds, j.at \in 1..Len(Steps(j.kind)), NEW next, next = Forward(j)
  PROVE  /\ next \in Jobs
         /\ next.of = j.of /\ next.kind = j.kind /\ next.met = j.met /\ next.listed = j.listed
         /\ j.at = Len(Steps(j.kind)) => next.at = 0 /\ ~next.in
         /\ j.at # Len(Steps(j.kind)) => next.at = j.at + 1 /\ (next.in <=> j.in)
<1>1. CASE j.at < Len(Steps(j.kind))
  <2>1. next = [j EXCEPT !.at = j.at + 1]
    BY <1>1, Zenon DEF Forward
  <2> QED BY <1>1, <2>1, Lengths DEF Jobs
<1>2. CASE ~(j.at < Len(Steps(j.kind)))
  <2>1. next = Ended(j)
    BY <1>2, Zenon DEF Forward
  <2>2. j.at = Len(Steps(j.kind))
    BY <1>2, Lengths
  <2> QED BY <2>1, <2>2, EndedGives
<1> QED BY <1>1, <1>2

LEMMA ListedGives ==
  ASSUME NEW j \in Jobs, NEW v \in Lists, NEW next, next = [j EXCEPT !.listed = v]
  PROVE  /\ next \in Jobs
         /\ next.of = j.of /\ next.kind = j.kind /\ next.met = j.met /\ next.listed = v
         /\ next.at = j.at /\ (next.in <=> j.in)
BY DEF Jobs, Lists

LEMMA JobMoves ==
  ASSUME JobsTyped, NEW r \in Runs, Active(r), NEW next \in Jobs,
         job' = [job EXCEPT ![r] = next],
         next.of = job[r].of, next.kind = job[r].kind, next.met = job[r].met,
         \/ next.at = 0 /\ ~next.in
         \/ /\ next.at = job[r].at + 1 /\ next.at <= Len(Steps(job[r].kind))
            /\ next.in <=> job[r].in
  PROVE  Moves(r) /\ job'[r] = next
<1>1. job \in [Runs -> Jobs]
  BY DEF JobsTyped
<1>2. job'[r] = next /\ job' \in [Runs -> Jobs] /\ \A s \in Runs \ {r} : job'[s] = job[s]
  BY <1>1
<1> QED BY <1>2 DEF Moves

LEMMA Stands ==
  ASSUME JobsTyped, NEW r \in Runs, Active(r)
  PROVE  /\ job[r] \in Jobs /\ job[r].kind \in Kinds
         /\ job[r].at \in 1..Len(Steps(job[r].kind)) /\ Of(r) \in Projects
BY DEF JobsTyped

LEMMA DoneMoves ==
  ASSUME JobsTyped, NEW r \in Runs, Active(r), Done(r)
  PROVE  /\ Moves(r) /\ job'[r].listed = job[r].listed
         /\ job'[r].at = IF job[r].at = Len(Steps(job[r].kind)) THEN 0 ELSE job[r].at + 1
<1> DEFINE next == Forward(job[r])
<1>1. job' = [job EXCEPT ![r] = next]
  BY DEF Done
<1>2. job[r] \in Jobs /\ job[r].kind \in Kinds /\ job[r].at \in 1..Len(Steps(job[r].kind))
  BY Stands
<1>3. /\ next \in Jobs
      /\ next.of = job[r].of /\ next.kind = job[r].kind /\ next.met = job[r].met
      /\ next.listed = job[r].listed
      /\ job[r].at = Len(Steps(job[r].kind)) => next.at = 0 /\ ~next.in
      /\ job[r].at # Len(Steps(job[r].kind)) => next.at = job[r].at + 1 /\ (next.in <=> job[r].in)
  BY <1>2, ForwardGives
<1> HIDE DEF next
<1>4. \/ next.at = 0 /\ ~next.in
      \/ /\ next.at = job[r].at + 1 /\ next.at <= Len(Steps(job[r].kind))
         /\ next.in <=> job[r].in
  BY <1>2, <1>3, Lengths
<1>5. Moves(r) /\ job'[r] = next
  BY <1>1, <1>3, <1>4, JobMoves
<1> QED BY <1>3, <1>5

LEMMA EndsMoves ==
  ASSUME JobsTyped, NEW r \in Runs, Active(r), Ends(r)
  PROVE  Moves(r) /\ job'[r].at = 0 /\ ~job'[r].in
<1> DEFINE next == Ended(job[r])
<1>1. job' = [job EXCEPT ![r] = next]
  BY DEF Ends
<1>2. job[r] \in Jobs
  BY Stands
<1>3. /\ next \in Jobs
      /\ next.of = job[r].of /\ next.kind = job[r].kind /\ next.met = job[r].met
      /\ next.listed = job[r].listed /\ next.at = 0 /\ ~next.in
  BY <1>2, EndedGives
<1> HIDE DEF next
<1>4. Moves(r) /\ job'[r] = next
  BY <1>1, <1>3, JobMoves
<1> QED BY <1>3, <1>4

\* A run that goes on with a listing.
LEMMA GoesOn ==
  ASSUME JobsTyped, NEW r \in Runs, Active(r), job[r].at # Len(Steps(job[r].kind)),
         NEW v \in Lists, job' = [job EXCEPT ![r] = [Forward(job[r]) EXCEPT !.listed = v]]
  PROVE  Moves(r) /\ job'[r].at = job[r].at + 1 /\ job'[r].listed = v
<1> DEFINE on == Forward(job[r])
           next == [on EXCEPT !.listed = v]
<1>1. job' = [job EXCEPT ![r] = next]
  OBVIOUS
<1>2. job[r] \in Jobs /\ job[r].kind \in Kinds /\ job[r].at \in 1..Len(Steps(job[r].kind))
  BY Stands
<1>3. /\ on \in Jobs
      /\ on.of = job[r].of /\ on.kind = job[r].kind /\ on.met = job[r].met
      /\ on.at = job[r].at + 1 /\ (on.in <=> job[r].in)
  BY <1>2, ForwardGives
<1> HIDE DEF on
<1>4. /\ next \in Jobs
      /\ next.of = on.of /\ next.kind = on.kind /\ next.met = on.met /\ next.listed = v
      /\ next.at = on.at /\ (next.in <=> on.in)
  BY <1>3, ListedGives
<1> HIDE DEF next
<1>5. next.at <= Len(Steps(job[r].kind))
  BY <1>2, <1>3, <1>4, Lengths
<1>7. /\ next.of = job[r].of /\ next.kind = job[r].kind /\ next.met = job[r].met
      /\ next.at = job[r].at + 1 /\ (next.in <=> job[r].in)
  BY <1>3, <1>4
<1>6. Moves(r) /\ job'[r] = next
  BY <1>1, <1>4, <1>5, <1>7, JobMoves
<1> QED BY <1>4, <1>6, <1>7

\* Only a write, or the last step of a stage run by itself, can be the last of a run.
LEMMA NotLast ==
  ASSUME NEW kind \in Kinds, NEW k \in 1..Len(Steps(kind)),
         Steps(kind)[k] \notin {"build", "lay", "join", "write"}
  PROVE  k # Len(Steps(kind))
<1>1. Steps(kind)[Len(Steps(kind))] \in {"build", "lay", "join", "write"}
  <2>1. Steps("seed")[20] = "write" /\ Len(Steps("seed")) = 20
    BY StepsSeed
  <2>2. Steps("import")[11] = "write" /\ Len(Steps("import")) = 11
    BY StepsImport
  <2>3. Steps("export")[8] = "write" /\ Len(Steps("export")) = 8
    BY StepsExport
  <2>4. Steps("cadastre")[4] = "build" /\ Len(Steps("cadastre")) = 4
    BY StepsCadastre
  <2>5. Steps("utilities")[2] = "lay" /\ Len(Steps("utilities")) = 2
    BY StepsUtilities
  <2>6. Steps("survey")[4] = "join" /\ Len(Steps("survey")) = 4
    BY StepsSurvey
  <2> QED BY <2>1, <2>2, <2>3, <2>4, <2>5, <2>6 DEF Kinds, Alone
<1> QED BY <1>1

LEMMA ListMoves ==
  ASSUME SeedTypeOK, NEW r \in Runs, List(r)
  PROVE  Moves(r) /\ job'[r].at = job[r].at + 1 /\ job'[r].listed = status
<1>1. JobsTyped /\ Active(r) /\ status \in Lists
  BY DEF SeedTypeOK, FilesTyped, List, At, Lists
<1>4. job[r] \in Jobs /\ job[r].kind \in Kinds /\ job[r].at \in 1..Len(Steps(job[r].kind))
  BY <1>1, Stands
<1>2. job[r].at # Len(Steps(job[r].kind))
  BY <1>4, NotLast DEF At, Step, List
<1>3. job' = [job EXCEPT ![r] = [Forward(job[r]) EXCEPT !.listed = status]]
  BY Zenon DEF List
<1> QED BY <1>1, <1>2, <1>3, GoesOn

LEMMA MergedTyped ==
  ASSUME NEW old \in Listing \cup {Torn}, NEW listed \in [Projects -> Sts]
  PROVE  Merged(old, listed) \in Listing
BY DEF Merged, Listing, Sts

LEMMA MergeMoves ==
  ASSUME SeedTypeOK, Listed, NEW r \in Runs, Merge(r)
  PROVE  /\ Moves(r) /\ job'[r].at = job[r].at + 1
         /\ job'[r].listed = Merged(registry, job[r].listed) /\ job'[r].listed \in Listing
<1> DEFINE merged == Merged(registry, job[r].listed)
<1>1. JobsTyped /\ Active(r) /\ At(r, "merge") /\ registry \in Listing \cup {Torn}
  BY DEF SeedTypeOK, FilesTyped, Merge, At
<1>4. job[r] \in Jobs /\ job[r].kind \in Kinds /\ job[r].at \in 1..Len(Steps(job[r].kind))
  BY <1>1, Stands
<1>2. job[r].at # Len(Steps(job[r].kind))
  BY <1>1, <1>4, NotLast DEF At, Step
<1>3. merged \in Listing
  BY <1>1, MergedTyped DEF Listed, Carries
<1>6. job' = [job EXCEPT ![r] = [Forward(job[r]) EXCEPT !.listed = merged]]
  BY Zenon DEF Merge
<1> HIDE DEF merged
<1>7. merged \in Lists
  BY <1>3 DEF Lists
<1>8. Moves(r) /\ job'[r].at = job[r].at + 1 /\ job'[r].listed = merged
  BY <1>1, <1>2, <1>6, <1>7, GoesOn
<1> QED BY <1>3, <1>8 DEF merged

LEMMA WriteMoves ==
  ASSUME SeedTypeOK, NEW r \in Runs, Write(r)
  PROVE  Moves(r) /\ job'[r].at = 0 /\ ~job'[r].in
<1> DEFINE over == Ended(job[r])
           next == [over EXCEPT !.listed = Nothing]
<1>1. job' = [job EXCEPT ![r] = next] /\ JobsTyped /\ Active(r)
  BY DEF Write, At, SeedTypeOK
<1>2. job[r] \in Jobs /\ Nothing \in Lists
  BY <1>1, Stands DEF Lists
<1>3. /\ over \in Jobs
      /\ over.of = job[r].of /\ over.kind = job[r].kind /\ over.met = job[r].met
      /\ over.at = 0 /\ ~over.in
  BY <1>2, EndedGives
<1> HIDE DEF over
<1>4. /\ next \in Jobs
      /\ next.of = over.of /\ next.kind = over.kind /\ next.met = over.met
      /\ next.at = over.at /\ (next.in <=> over.in)
  BY <1>2, <1>3, ListedGives
<1> HIDE DEF next
<1>5. Moves(r) /\ job'[r] = next
  BY <1>1, <1>3, <1>4, JobMoves
<1> QED BY <1>3, <1>4, <1>5

\* A move that is no publish keeps who is in the database and who has met.
LEMMA MovesKeep ==
  ASSUME JobsTyped, InDatabase, InTwos, NEW r \in Runs, Active(r), Moves(r),
         job'[r].at = 0 \/ ~At(r, "publish")
  PROVE  JobsTyped' /\ InDatabase' /\ InTwos' /\ (Met' <=> Met)
<1>1. job[r].kind \in Kinds /\ job[r].at \in 1..Len(Steps(job[r].kind)) /\ Of(r) \in Projects
  BY Stands
<1>2. At(r, "publish") \/ job[r].at # Before(job[r].kind)
  BY <1>1, Places DEF At, Step, Before, Kinds, Alone
<1>3. JobsTyped'
  <2> SUFFICES ASSUME NEW s \in Runs, job'[s].at # 0
               PROVE  /\ job'[s].of \in Projects /\ job'[s].kind \in Kinds
                      /\ job'[s].at \in 1..Len(Steps(job'[s].kind))
    BY DEF JobsTyped, Moves, Active, Of
  <2>1. CASE s = r
    <3>1. job'[r].at = job[r].at + 1 /\ job'[r].at <= Len(Steps(job[r].kind))
          /\ job'[r].kind = job[r].kind /\ job'[r].of = job[r].of
      BY <2>1 DEF Moves
    <3>2. job'[r].at \in 1..Len(Steps(job[r].kind))
      BY <1>1, <3>1, Lengths
    <3> QED BY <1>1, <2>1, <3>1, <3>2 DEF Of
  <2>2. CASE s # r
    BY <2>2 DEF JobsTyped, Moves, Active, Of
  <2> QED BY <2>1, <2>2
<1>4. InDatabase'
  <2> SUFFICES ASSUME NEW s \in Runs
               PROVE  /\ job'[s].in <=> job'[s].at > Before(job'[s].kind)
                      /\ job'[s].at # 0 /\ job'[s].met => job'[s].in
    BY DEF InDatabase, Active
  <2>1. CASE s # r
    BY <2>1 DEF Moves, InDatabase, Active
  <2>2. CASE s = r
    <3>1. Before(job[r].kind) \in {1, 3} /\ job[r].at \in Nat
      BY <1>1 DEF Before, Jobs, JobsTyped
    <3>2. job[r].in <=> job[r].at > Before(job[r].kind)
      BY DEF InDatabase
    <3>3. job[r].met => job[r].in
      BY DEF InDatabase
    <3>4. CASE job'[r].at = 0 /\ ~job'[r].in
      BY <2>2, <3>1, <3>4 DEF Moves
    <3>5. CASE job'[r].at = job[r].at + 1 /\ (job'[r].in <=> job[r].in)
      BY <2>2, <3>1, <3>2, <3>3, <3>5, <1>2 DEF Moves
    <3> QED BY <3>4, <3>5 DEF Moves
  <2> QED BY <2>1, <2>2
<1>5. InTwos'
  BY DEF InTwos, Moves
<1>6. Met' <=> Met
  BY DEF Met, Moves
<1> QED BY <1>3, <1>4, <1>5, <1>6

LEMMA MarksKeep ==
  ASSUME Marks, Scoped, NEW r \in Runs, Moves(r), marred' = marred,
         ctx' # Nothing \/ ctx' = ctx, ctx'.of = ctx.of
  PROVE  Marks' /\ Scoped'
BY DEF Marks, Scoped, Moves, Of

\* What a run in the database writes is its own, or marred already.
LEMMA Owner ==
  ASSUME SeedInv, NEW r \in Runs, job[r].in
  PROVE  /\ Of(r) \in Projects /\ ctx.of \in Projects
         /\ ctx.of \in marred \/ (Clean(r) /\ ctx.of = Of(r))
         /\ Of(r) \in marred \/ Clean(r)
         /\ \A s \in Runs \ {r} : ~Clean(s)
<1>1. Active(r)
  BY DEF SeedInv, InDatabase, Active, Before
<1>2. Of(r) \in Projects /\ job[r].kind \in Kinds
  BY <1>1, Stands DEF SeedInv, SeedTypeOK
<1>3. marred \subseteq Projects
  BY DEF SeedInv, SeedTypeOK, FilesTyped
<1>4. ctx.of = Of(r) \/ (job[r].met /\ ctx.of \in marred)
  BY DEF SeedInv, Scoped
<1>5. job[r].met \/ job[r].kind \in Alone => Of(r) \in marred
  BY DEF SeedInv, Marks
<1>6. \A s \in Runs \ {r} : ~Clean(s)
  BY DEF SeedInv, InTwos, Clean
<1> QED BY <1>2, <1>3, <1>4, <1>5, <1>6 DEF Clean, Kinds

-----------------------------------------------------------------------------
(* What a step keeps *)

\* A run is at the end of its export only after the step before.
LEMMA Successor ==
  ASSUME JobsTyped, NEW r \in Runs, Active(r), job'[r].kind = job[r].kind,
         job'[r].at = 0 \/ (job'[r].at = job[r].at + 1 /\ job'[r].at <= Len(Steps(job[r].kind)))
  PROVE  /\ At(r, "merge")' => At(r, "list")
         /\ At(r, "write")' => At(r, "merge")
<1>1. job[r].kind \in Kinds /\ job[r].at \in 1..Len(Steps(job[r].kind))
  BY Stands
<1> SUFFICES ASSUME job'[r].at = job[r].at + 1, job'[r].kind = job[r].kind,
                    job'[r].at <= Len(Steps(job[r].kind))
             PROVE  /\ At(r, "merge")' => At(r, "list")
                    /\ At(r, "write")' => At(r, "merge")
  BY DEF At, Active
<1> DEFINE kind == job[r].kind
           k == job[r].at
<1>2. k + 1 \in 1..Len(Steps(kind)) /\ k \in 1..Len(Steps(kind)) /\ kind \in Kinds
  BY <1>1, Lengths
<1>3. At(r, "merge")' => Steps(kind)[k + 1] = "merge"
  BY DEF At, Step
<1>4. At(r, "write")' => Steps(kind)[k + 1] = "write"
  BY DEF At, Step
<1>5. Steps(kind)[k] = "list" => At(r, "list")
  BY DEF At, Step
<1>6. Steps(kind)[k] = "merge" => At(r, "merge")
  BY DEF At, Step
<1> HIDE DEF kind, k
<1>7. k \in Nat
  BY <1>2, Lengths
<1>8. ASSUME Steps(kind)[k + 1] = "merge"
      PROVE  Steps(kind)[k] = "list"
  <2>1. \/ kind = "seed" /\ k = 18
        \/ kind = "import" /\ k = 9
        \/ kind = "export" /\ k = 6
    BY <1>2, <1>7, <1>8, Places
  <2> QED BY <2>1, StepsSeed, StepsImport, StepsExport
<1>9. ASSUME Steps(kind)[k + 1] = "write"
      PROVE  Steps(kind)[k] = "merge"
  <2>1. \/ kind = "seed" /\ k = 19
        \/ kind = "import" /\ k = 10
        \/ kind = "export" /\ k = 7
    BY <1>2, <1>7, <1>9, Places
  <2> QED BY <2>1, StepsSeed, StepsImport, StepsExport
<1> QED BY <1>3, <1>4, <1>5, <1>6, <1>8, <1>9

LEMMA Predecessor ==
  ASSUME JobsTyped, NEW r \in Runs, Active(r), Moves(r)
  PROVE  /\ At(r, "merge")' => At(r, "list")
         /\ At(r, "write")' => At(r, "merge")
BY Successor DEF Moves

\* The other runs stay where they are, whatever they may have met.
Others(r) ==
  \A s \in Runs \ {r} : /\ job'[s].of = job[s].of /\ job'[s].kind = job[s].kind
                       /\ job'[s].at = job[s].at /\ job'[s].listed = job[s].listed

LEMMA MovesOthers ==
  ASSUME NEW r \in Runs, Moves(r)
  PROVE  Others(r) /\ job'[r].of = job[r].of
BY DEF Moves, Others

\* What the other runs have made stays: there is none but r, or r changes nothing of it.
LEMMA OthersKeep ==
  ASSUME SeedInv, NEW r \in Runs, \A s \in Runs \ {r} : job'[s] = job[s], marred' = marred,
         \/ job[r].in
         \/ /\ UNCHANGED <<staged, highways, rows, api, cut>>
            /\ \A p \in Projects : status'[p] \in {status[p], "failed"}
  PROVE  \A s \in Runs \ {r} : Clean(s)' => Has(s)'
<1> SUFFICES ASSUME NEW s \in Runs \ {r}, Clean(s)'
             PROVE  Has(s)'
  OBVIOUS
<1>1. job'[s] = job[s] /\ Clean(s)
  BY DEF Clean, Of
<1>2. ~job[r].in
  BY <1>1, Owner
<1>3. Has(s) /\ Of(s) \in Projects
  BY <1>1, Owner DEF SeedInv, Made, Clean
<1>4. cad' = cad /\ util' = util /\ plots' = plots /\ api' = api /\ cut' = cut
      /\ staged' = staged /\ highways' = highways /\ status'[Of(s)] \in {status[Of(s)], "failed"}
  BY <1>2, <1>3 DEF rows
<1>5. Of(s)' = Of(s)
  BY <1>1 DEF Of
<1>6. Whole(Of(s))' <=> Whole(Of(s))
  BY <1>4, <1>5 DEF Whole
<1>7. Exported(Of(s), Exporting(job[s])) => Exported(Of(s), Exporting(job[s]))'
  BY <1>1, <1>4, <1>5, <1>6 DEF Exported, Exporting
<1>8. Seeded(Of(s), job[s].at) => Seeded(Of(s), job[s].at)'
  BY <1>1, <1>4, <1>5 DEF Seeded
<1>9. Imported(Of(s), job[s].at) => Imported(Of(s), job[s].at)'
  BY <1>1, <1>4, <1>5 DEF Imported
<1> QED BY <1>1, <1>3, <1>7, <1>8, <1>9 DEF Has

\* What is ready stays whole when a step leaves its rows and files, and makes none ready.
LEMMA WholeKeeps ==
  ASSUME SeedInv, marred' = marred,
         \A p \in Projects \ marred : status'[p] = "ready" =>
           /\ status[p] = "ready" /\ cad'[p] = cad[p] /\ util'[p] = util[p]
           /\ plots'[p] = plots[p] /\ api'[p] = api[p]
  PROVE  RowsWhole'
<1> SUFFICES ASSUME NEW p \in Projects \ marred, status'[p] = "ready"
             PROVE  Whole(p)' /\ \A f \in FileSet : api'[p][f] = Content(f, p)'
  BY DEF RowsWhole
<1>1. Whole(p) /\ \A f \in FileSet : api[p][f] = Content(f, p)
  BY DEF SeedInv, RowsWhole
<1>2. cad'[p] = cad[p] /\ util'[p] = util[p] /\ plots'[p] = plots[p] /\ api'[p] = api[p]
  OBVIOUS
<1>3. Whole(p)'
  BY <1>1, <1>2 DEF Whole
<1>4. ASSUME NEW f \in FileSet
      PROVE  api'[p][f] = Content(f, p)'
  BY <1>1, <1>2 DEF Content
<1> QED BY <1>3, <1>4

\* A listing stays true when the files of what is not marred or cut stay.
LEMMA TruthKeeps ==
  ASSUME NEW listing, Truthful(listing), marred \subseteq marred', cut \subseteq cut',
         \A p \in Projects \ (marred' \cup cut') : api'[p] = api[p]
  PROVE  Truthful(listing)'
<1> SUFFICES ASSUME NEW p \in Projects \ (marred' \cup cut'), listing[p] = "ready"
             PROVE  Filed(p)'
  BY DEF Truthful
<1>1. Filed(p) /\ api'[p] = api[p]
  BY DEF Truthful
<1> QED BY <1>1 DEF Filed

LEMMA FilesKeep ==
  ASSUME FilesWhole, marred \subseteq marred', cut \subseteq cut',
         \A p \in Projects \ (marred' \cup cut') : api'[p] = api[p], registry' = registry
  PROVE  FilesWhole'
<1> SUFFICES ASSUME NEW p \in Projects \ (marred' \cup cut'), registry # Torn, registry[p] = "ready"
             PROVE  /\ \A f \in FileSet : api'[p][f] \notin {Nothing, Torn}
                    /\ api'[p]["utilities.json"].on = api'[p]["parcels.json"]
  BY DEF FilesWhole
<1>1. api'[p] = api[p] /\ p \in Projects \ (marred \cup cut)
  OBVIOUS
<1>2. /\ \A f \in FileSet : api[p][f] \notin {Nothing, Torn}
      /\ api[p]["utilities.json"].on = api[p]["parcels.json"]
  BY <1>1 DEF FilesWhole
<1> QED BY <1>1, <1>2

\* What the others carry to the registry stays true.
LEMMA OthersCarry ==
  ASSUME SeedInv, NEW r \in Runs, Others(r), marred \subseteq marred', cut \subseteq cut',
         \A p \in Projects \ (marred' \cup cut') : api'[p] = api[p]
  PROVE  \A s \in Runs \ {r} : Carries(s)'
<1> SUFFICES ASSUME NEW s \in Runs \ {r}
             PROVE  Carries(s)'
  OBVIOUS
<1>1. /\ job'[s].of = job[s].of /\ job'[s].kind = job[s].kind
      /\ job'[s].at = job[s].at /\ job'[s].listed = job[s].listed
  BY DEF Others
<1>2. (At(s, "merge")' => At(s, "merge")) /\ (At(s, "write")' => At(s, "write"))
  BY <1>1 DEF At, Step, Active
<1>3. Carries(s)
  BY DEF SeedInv, Listed
<1>4. PICK l : l = job[s].listed
  OBVIOUS
<1>5. Truthful(l) => Truthful(l)'
  BY TruthKeeps
<1> QED BY <1>1, <1>2, <1>3, <1>4, <1>5 DEF Carries, Truthful

\* Where a run neither lists nor merges, nothing new is on its way.
LEMMA ListedKeeps ==
  ASSUME SeedInv, NEW r \in Runs, Others(r), ~At(r, "merge")', ~At(r, "write")',
         marred \subseteq marred', cut \subseteq cut',
         \A p \in Projects \ (marred' \cup cut') : api'[p] = api[p]
  PROVE  Listed'
<1>1. \A s \in Runs \ {r} : Carries(s)'
  BY OthersCarry
<1>2. Carries(r)'
  BY DEF Carries
<1> QED BY <1>1, <1>2 DEF Listed

\* The project of the registry alone is kept by who does not touch the registry.
LEMMA LonerKeeps ==
  ASSUME SeedInv, NEW r \in Runs, Others(r), Met => Met', registry' = registry,
         faults' = 0 => faults = 0 /\ ~At(r, "write") /\ ~At(r, "write")'
  PROVE  LonerKept'
<1> SUFFICES ASSUME faults' = 0, ~Met
             PROVE  /\ registry = Torn => \E s \in Runs : At(s, "write")'
                    /\ registry # Torn => registry[Loner] = "ready"
                    /\ \A s \in Runs : At(s, "write")' => job'[s].listed[Loner] = "ready"
  BY DEF LonerKept
<1>1. ~At(r, "write") /\ ~At(r, "write")'
  OBVIOUS
<1>2. /\ \A s \in Runs \ {r} : job'[s].of = job[s].of /\ job'[s].kind = job[s].kind
      /\ \A s \in Runs \ {r} : job'[s].at = job[s].at /\ job'[s].listed = job[s].listed
  BY DEF Others
<1>3. \A s \in Runs \ {r} : At(s, "write")' <=> At(s, "write")
  BY <1>2 DEF At, Step, Active
<1>4. /\ registry = Torn => \E s \in Runs : At(s, "write")
      /\ registry # Torn => registry[Loner] = "ready"
      /\ \A s \in Runs : At(s, "write") => job[s].listed[Loner] = "ready"
  BY DEF SeedInv, LonerKept
<1> QED BY <1>1, <1>2, <1>3, <1>4

\* A run that goes on, fails or ends leaves nobody's project generating unseen.
LEMMA GeneratedKeeps ==
  ASSUME SeedInv, NEW r \in Runs, Others(r), job'[r].of = job[r].of,
         marred \subseteq marred', silent \subseteq silent',
         \A p \in Projects : status'[p] = "generating" =>
           status[p] = "generating" \/ (p = Of(r) /\ job'[r].at # 0),
         job'[r].at = 0 => status'[Of(r)] # "generating" \/ Of(r) \in silent' \cup marred'
  PROVE  GeneratedBySomeone'
<1> SUFFICES ASSUME NEW p \in Projects, status'[p] = "generating"
             PROVE  \/ \E s \in Runs : Active(s)' /\ Of(s)' = p
                    \/ p \in silent' \cup marred'
  BY DEF GeneratedBySomeone
<1>4. CASE p = Of(r) /\ job'[r].at # 0
  BY <1>4 DEF Active, Of
<1> SUFFICES ASSUME status[p] = "generating"
             PROVE  \/ \E s \in Runs : Active(s)' /\ Of(s)' = p
                    \/ p \in silent' \cup marred'
  BY <1>4
<1>1. \/ \E s \in Runs : Active(s) /\ Of(s) = p
      \/ p \in silent \cup marred
  BY DEF SeedInv, GeneratedBySomeone
<1>2. CASE p \in silent \cup marred
  BY <1>2
<1>3. CASE \E s \in Runs : Active(s) /\ Of(s) = p
  <2>1. PICK s \in Runs : Active(s) /\ Of(s) = p
    BY <1>3
  <2>2. CASE s = r
    BY <2>1, <2>2 DEF Active, Of
  <2>3. CASE s # r
    BY <2>1, <2>3 DEF Others, Active, Of
  <2> QED BY <2>2, <2>3
<1> QED BY <1>1, <1>2, <1>3

\* A run comes to its build only from its own staging.
LEMMA StagedKeeps ==
  ASSUME SeedInv, NEW r \in Runs, Active(r), Moves(r),
         job'[r].at = 0 \/ ~At(r, "stage"), staged' = staged
  PROVE  StagedFor'
<1>1. RowsTyped /\ job[r].kind \in Kinds /\ job[r].at \in 1..Len(Steps(job[r].kind))
  BY Stands DEF SeedInv, SeedTypeOK
<1> SUFFICES ASSUME NEW s \in Runs
             PROVE  /\ job'[s].kind = "seed" /\ job'[s].at \in {5, 6} => staged.of \in Projects
                    /\ job'[s].kind = "cadastre" /\ job'[s].at \in {3, 4} => staged.of \in Projects
  BY DEF StagedFor
<1>2. CASE s # r
  BY <1>1, <1>2 DEF RowsTyped, StagedFor, Moves
<1>3. CASE s = r /\ job'[r].at = 0
  BY <1>3
<1>4. CASE s = r /\ job'[r].at # 0
  <2>1. job'[r].at = job[r].at + 1 /\ job'[r].kind = job[r].kind
    BY <1>4 DEF Moves
  <2>2. ~(job[r].kind = "seed" /\ job[r].at = 4) /\ ~(job[r].kind = "cadastre" /\ job[r].at = 2)
    BY <1>1, <1>4, StepsSeed, StepsCadastre DEF At, Step
  <2>3. job[r].at \in Nat
    BY <1>1, Lengths
  <2> QED BY <1>1, <1>4, <2>1, <2>2, <2>3 DEF RowsTyped, StagedFor
<1> QED BY <1>2, <1>3, <1>4

\* A step that leaves the scope, the staging and the rows.
LEMMA Still ==
  ASSUME SeedInv, NEW r \in Runs, Active(r), Moves(r),
         job'[r].at = 0 \/ (~At(r, "publish") /\ ~At(r, "stage")),
         UNCHANGED <<scope, rows, marred, cut>>,
         \A p \in Projects : status'[p] \in {status[p], "failed"},
         api' = api \/ (job[r].in /\ \A p \in Projects \ marred :
                                       api'[p] = api[p] \/ status[p] # "ready"),
         Clean(r)' => Has(r)'
  PROVE  /\ JobsTyped' /\ RowsTyped' /\ InDatabase' /\ InTwos' /\ (Met' <=> Met)
         /\ Marks' /\ Scoped' /\ Made' /\ RowsAreOwn' /\ RowsWhole'
<1>0. /\ ctx' = ctx /\ staged' = staged /\ highways' = highways
      /\ cad' = cad /\ util' = util /\ plots' = plots
  BY DEF scope, rows
<1>1. JobsTyped' /\ InDatabase' /\ InTwos' /\ (Met' <=> Met)
  BY MovesKeep DEF SeedInv, SeedTypeOK
<1>2. Marks' /\ Scoped'
  BY <1>0, MarksKeep DEF SeedInv
<1>3. RowsTyped'
  <2>1. StagedFor'
    BY <1>0, StagedKeeps
  <2> QED BY <1>0, <2>1 DEF SeedInv, SeedTypeOK, RowsTyped
<1>4. Made'
  <2>1. \A s \in Runs \ {r} : job'[s] = job[s]
    BY DEF Moves
  <2>2. \A s \in Runs \ {r} : Clean(s)' => Has(s)'
    BY <1>0, <2>1, OthersKeep
  <2> QED BY <2>2 DEF Made
<1>5. RowsAreOwn'
  BY <1>0 DEF SeedInv, RowsAreOwn
<1>6. RowsWhole'
  <2>1. ASSUME NEW p \in Projects \ marred, status'[p] = "ready"
        PROVE  status[p] = "ready" /\ api'[p] = api[p]
    BY <2>1
  <2> QED BY <1>0, <2>1, WholeKeeps
<1> QED BY <1>1, <1>2, <1>3, <1>4, <1>5, <1>6

\* A stage that fails leaves its project failed, or marred, or silent.
LEMMA Failed ==
  ASSUME SeedTypeOK, NEW r \in Runs, Of(r) \in Projects
  PROVE  /\ FailedStatus(r) \in [Projects -> Sts]
         /\ \A p \in Projects : FailedStatus(r)[p] \in {status[p], "failed"}
         /\ job[r].kind = "seed" => FailedStatus(r)[Of(r)] # "generating"
<1>1. status \in [Projects -> Sts]
  BY DEF SeedTypeOK, FilesTyped
<1>2. CASE job[r].kind = "seed" /\ status[Of(r)] # "none"
  BY <1>1, <1>2 DEF FailedStatus, Sts
<1>3. CASE ~(job[r].kind = "seed" /\ status[Of(r)] # "none")
  BY <1>1, <1>3 DEF FailedStatus, Sts
<1> QED BY <1>2, <1>3

-----------------------------------------------------------------------------
(* The steps outside the database, failures and kills *)

LEMMA FetchStep ==
  ASSUME SeedInv, NEW r \in Runs, Fetch(r)
  PROVE  SeedInv'
<1>1. /\ At(r, "fetch") /\ Active(r) /\ JobsTyped /\ SeedTypeOK
      /\ UNCHANGED <<heights, api, registry, scope, rows, faults, marred, cut, silent>>
  BY DEF Fetch, At, SeedInv, SeedTypeOK, told
<1>2. /\ job[r].kind \in Kinds /\ job[r].at \in 1..Len(Steps(job[r].kind)) /\ Of(r) \in Projects
  BY <1>1, Stands
<1>3. job[r].kind = "seed" /\ job[r].at = 1
  BY <1>1, <1>2, Places DEF At, Step
<1>4. /\ Moves(r)
      /\ \/ status' = status /\ job'[r].at = 2
         \/ status' = FailedStatus(r) /\ job'[r].at = 0
  <2>0. Done(r) => Moves(r) /\ job'[r].at = IF job[r].at = Len(Steps(job[r].kind)) THEN 0 ELSE job[r].at + 1
    BY <1>1, DoneMoves
  <2>1. Done(r) => Moves(r) /\ job'[r].at = 2
    BY <2>0, <1>3, StepsSeed
  <2>2. Ends(r) => Moves(r) /\ job'[r].at = 0
    BY <1>1, EndsMoves
  <2> QED BY <2>1, <2>2 DEF Fetch
<1>5. /\ status' \in [Projects -> Sts]
      /\ \A p \in Projects : status'[p] \in {status[p], "failed"}
      /\ job'[r].at = 0 => status'[Of(r)] # "generating"
  <2>1. status \in [Projects -> Sts]
    BY <1>1 DEF SeedTypeOK, FilesTyped
  <2> QED BY <1>1, <1>2, <1>3, <1>4, <2>1, Failed
<1>6. extract' \in [Projects -> {"absent", "torn", "empty", "whole"}]
  <2>1. extract \in [Projects -> {"absent", "torn", "empty", "whole"}]
    BY <1>1 DEF SeedTypeOK, FilesTyped
  <2>2. extract' = extract \/ \E found \in {"whole", "empty"} : extract' = [extract EXCEPT ![Of(r)] = found]
    BY DEF Fetch
  <2> QED BY <2>1, <2>2
<1>7. ~job[r].in
  BY <1>3 DEF SeedInv, InDatabase, Before
<1>8. ~Clean(r)'
  BY <1>4, <1>7 DEF Moves, Clean
<1>9. ~At(r, "publish") /\ ~At(r, "stage") /\ ~At(r, "list") /\ ~At(r, "merge") /\ ~At(r, "write")
  BY <1>1 DEF At
<1>10. ~At(r, "merge")' /\ ~At(r, "write")'
  BY <1>1, <1>4, <1>9, Predecessor
<1>11. /\ JobsTyped' /\ RowsTyped' /\ InDatabase' /\ InTwos' /\ (Met' <=> Met)
       /\ Marks' /\ Scoped' /\ Made' /\ RowsAreOwn' /\ RowsWhole'
  BY <1>1, <1>4, <1>5, <1>8, <1>9, Still
<1>12. FilesTyped'
  BY <1>1, <1>5, <1>6 DEF SeedTypeOK, FilesTyped
<1>13. Listed'
  BY <1>1, <1>4, <1>10, ListedKeeps, MovesOthers
<1>14. FilesWhole'
  BY <1>1, FilesKeep DEF SeedInv
<1>15. LonerKept'
  BY <1>1, <1>4, <1>9, <1>10, <1>11, LonerKeeps, MovesOthers
<1>16. GeneratedBySomeone'
  BY <1>1, <1>4, <1>5, GeneratedKeeps, MovesOthers
<1> QED BY <1>11, <1>12, <1>13, <1>14, <1>15, <1>16 DEF SeedInv, SeedTypeOK

LEMMA HeightsStep ==
  ASSUME SeedInv, NEW r \in Runs, Heights(r)
  PROVE  SeedInv'
<1>1. /\ At(r, "heights") /\ Active(r) /\ JobsTyped /\ SeedTypeOK /\ Done(r)
      /\ UNCHANGED <<extract, api, registry, status, scope, rows, faults, marred, cut, silent>>
  BY DEF Heights, At, SeedInv, SeedTypeOK, told
<1>2. /\ job[r].kind \in Kinds /\ job[r].at \in 1..Len(Steps(job[r].kind)) /\ Of(r) \in Projects
  BY <1>1, Stands
<1>3. job[r].kind = "seed" /\ job[r].at = 2
  BY <1>1, <1>2, Places DEF At, Step
<1>4. Moves(r) /\ job'[r].at = 3
  <2>1. Moves(r) /\ job'[r].at = IF job[r].at = Len(Steps(job[r].kind)) THEN 0 ELSE job[r].at + 1
    BY <1>1, DoneMoves
  <2> QED BY <2>1, <1>3, StepsSeed
<1>5. heights' \in [Projects -> {"absent", "torn", "empty", "whole"}]
  <2>1. heights \in [Projects -> {"absent", "torn", "empty", "whole"}]
    BY <1>1 DEF SeedTypeOK, FilesTyped
  <2> QED BY <2>1 DEF Heights
<1>7. ~job[r].in
  BY <1>3 DEF SeedInv, InDatabase, Before
<1>8. ~Clean(r)'
  BY <1>4, <1>7 DEF Moves, Clean
<1>9. ~At(r, "publish") /\ ~At(r, "stage") /\ ~At(r, "list") /\ ~At(r, "merge") /\ ~At(r, "write")
  BY <1>1 DEF At
<1>10. ~At(r, "merge")' /\ ~At(r, "write")'
  BY <1>1, <1>4, <1>9, Predecessor
<1>11. /\ JobsTyped' /\ RowsTyped' /\ InDatabase' /\ InTwos' /\ (Met' <=> Met)
       /\ Marks' /\ Scoped' /\ Made' /\ RowsAreOwn' /\ RowsWhole'
  BY <1>1, <1>4, <1>8, <1>9, Still
<1>12. FilesTyped'
  BY <1>1, <1>5 DEF SeedTypeOK, FilesTyped
<1>13. Listed'
  BY <1>1, <1>4, <1>10, ListedKeeps, MovesOthers
<1>14. FilesWhole'
  BY <1>1, FilesKeep DEF SeedInv
<1>15. LonerKept'
  BY <1>1, <1>4, <1>9, <1>10, <1>11, LonerKeeps, MovesOthers
<1>16. GeneratedBySomeone'
  BY <1>1, <1>4, GeneratedKeeps, MovesOthers
<1> QED BY <1>11, <1>12, <1>13, <1>14, <1>15, <1>16 DEF SeedInv, SeedTypeOK

LEMMA FailStep ==
  ASSUME SeedInv, NEW r \in Runs, Fail(r)
  PROVE  SeedInv'
<1>1. /\ Active(r) /\ JobsTyped /\ SeedTypeOK /\ Ends(r)
      /\ UNCHANGED <<extract, heights, api, registry, scope, rows, marred, cut>>
  BY DEF Fail, SeedInv, SeedTypeOK, disk
<1>2. job[r].kind \in Kinds /\ job[r].at \in 1..Len(Steps(job[r].kind)) /\ Of(r) \in Projects
  BY <1>1, Stands
<1>3. Moves(r) /\ job'[r].at = 0 /\ ~job'[r].in
  BY <1>1, EndsMoves
<1>4. /\ \/ status' = FailedStatus(r) /\ job[r].kind = "seed" /\ silent' = silent
         \/ status' = status /\ silent' = silent \cup {Of(r)}
  BY DEF Fail
<1>5. /\ status' \in [Projects -> Sts]
      /\ \A p \in Projects : status'[p] \in {status[p], "failed"}
      /\ status'[Of(r)] # "generating" \/ Of(r) \in silent'
      /\ silent \subseteq silent'
  <2>1. status \in [Projects -> Sts]
    BY <1>1 DEF SeedTypeOK, FilesTyped
  <2> QED BY <1>1, <1>2, <1>4, <2>1, Failed
<1>6. faults' \in Nat /\ (faults' = 0 => faults = 0 /\ ~At(r, "write"))
  <2>1. faults \in Nat
    BY <1>1 DEF SeedTypeOK, FilesTyped
  <2>2. CASE ~Passes(r) /\ faults' = faults
    <3>1. ~At(r, "write")
      BY <2>2 DEF Passes, At
    <3> QED BY <2>1, <2>2, <3>1
  <2>3. CASE faults' = faults + 1
    BY <2>1, <2>3
  <2> QED BY <2>2, <2>3 DEF Fail
<1>8. ~Clean(r)' /\ ~At(r, "merge")' /\ ~At(r, "write")'
  BY <1>3 DEF Clean, At, Active
<1>11. /\ JobsTyped' /\ RowsTyped' /\ InDatabase' /\ InTwos' /\ (Met' <=> Met)
       /\ Marks' /\ Scoped' /\ Made' /\ RowsAreOwn' /\ RowsWhole'
  BY <1>1, <1>3, <1>5, <1>8, Still
<1>12. FilesTyped'
  BY <1>1, <1>5, <1>6 DEF SeedTypeOK, FilesTyped
<1>13. Listed'
  BY <1>1, <1>3, <1>8, ListedKeeps, MovesOthers
<1>14. FilesWhole'
  BY <1>1, FilesKeep DEF SeedInv
<1>15. LonerKept'
  BY <1>1, <1>3, <1>6, <1>8, <1>11, LonerKeeps, MovesOthers
<1>16. GeneratedBySomeone'
  BY <1>1, <1>3, <1>5, GeneratedKeeps, MovesOthers
<1> QED BY <1>11, <1>12, <1>13, <1>14, <1>15, <1>16 DEF SeedInv, SeedTypeOK

\* A run that writes a file: its project is being exported.
LEMMA FileStep ==
  ASSUME SeedInv, NEW r \in Runs, Active(r), Step(r) \in FileSet
  PROVE  /\ job[r].in /\ Of(r) \in Projects
         /\ ~At(r, "publish") /\ ~At(r, "stage") /\ ~At(r, "list") /\ ~At(r, "merge") /\ ~At(r, "write")
         /\ \/ job[r].kind = "seed" /\ job[r].at \in {14, 15, 16}
            \/ job[r].kind = "import" /\ job[r].at \in {5, 6, 7}
            \/ job[r].kind = "export" /\ job[r].at \in {2, 3, 4}
         /\ Of(r) \in marred \/ (Clean(r) /\ Of(r) \in cut /\ status[Of(r)] # "ready")
<1>1. job[r].kind \in Kinds /\ job[r].at \in 1..Len(Steps(job[r].kind)) /\ Of(r) \in Projects
  BY Stands DEF SeedInv, SeedTypeOK
<1>2. \/ Step(r) = "parcels.json" \/ Step(r) = "survey_parcels.json" \/ Step(r) = "utilities.json"
  BY FileNames
<1>3. \/ job[r].kind = "seed" /\ job[r].at \in {14, 15, 16}
      \/ job[r].kind = "import" /\ job[r].at \in {5, 6, 7}
      \/ job[r].kind = "export" /\ job[r].at \in {2, 3, 4}
  BY <1>1, <1>2, Places DEF Step
<1>4. job[r].in
  BY <1>3 DEF SeedInv, InDatabase, Before
<1>5. ~At(r, "publish") /\ ~At(r, "stage") /\ ~At(r, "list") /\ ~At(r, "merge") /\ ~At(r, "write")
  BY <1>2 DEF At
<1>6. ASSUME Of(r) \notin marred
      PROVE  Clean(r) /\ Of(r) \in cut /\ status[Of(r)] # "ready"
  <2>1. Clean(r)
    BY <1>4, <1>6, Owner
  <2>2. job[r].kind = "seed" \/ job[r].kind = "import"
    BY <2>1 DEF Clean
  <2>3. Exporting(job[r]) \in {2, 3, 4}
    BY <1>3, <2>2 DEF Exporting
  <2>4. Exported(Of(r), Exporting(job[r]))
    BY <2>1 DEF SeedInv, Made, Has
  <2> QED BY <2>1, <2>3, <2>4 DEF Exported
<1> QED BY <1>1, <1>3, <1>4, <1>5, <1>6

LEMMA KillStep ==
  ASSUME SeedInv, NEW r \in Runs, Kill(r)
  PROVE  SeedInv'
<1>1. /\ Active(r) /\ JobsTyped /\ SeedTypeOK /\ Ends(r)
      /\ UNCHANGED <<registry, status, scope, rows, marred, cut>>
      /\ faults' = faults + 1 /\ silent' = silent \cup {Of(r)}
  BY DEF Kill, SeedInv, SeedTypeOK
<1>2. job[r].kind \in Kinds /\ job[r].at \in 1..Len(Steps(job[r].kind)) /\ Of(r) \in Projects
  BY <1>1, Stands
<1>3. Moves(r) /\ job'[r].at = 0 /\ ~job'[r].in
  BY <1>1, EndsMoves
<1>4. faults' \in Nat /\ faults' # 0
  BY <1>1 DEF SeedTypeOK, FilesTyped
<1>5. extract' \in [Projects -> {"absent", "torn", "empty", "whole"}]
  <2>1. extract \in [Projects -> {"absent", "torn", "empty", "whole"}]
    BY <1>1 DEF SeedTypeOK, FilesTyped
  <2> QED BY <2>1 DEF Kill
<1>10. heights' \in [Projects -> {"absent", "torn", "empty", "whole"}]
  <2>1. heights \in [Projects -> {"absent", "torn", "empty", "whole"}]
    BY <1>1 DEF SeedTypeOK, FilesTyped
  <2> QED BY <2>1 DEF Kill
<1>6. api' = api \/ (Step(r) \in FileSet /\ api' = [api EXCEPT ![Of(r)][Step(r)] = Torn])
  BY DEF Kill
<1>7. /\ api' \in [Projects -> [FileSet -> Cads \cup Utils \cup Lots \cup {Nothing, Torn}]]
      /\ api' = api \/ (job[r].in /\ \A p \in Projects \ marred :
                                       api'[p] = api[p] \/ (status[p] # "ready" /\ p \in cut))
  <2>1. api \in [Projects -> [FileSet -> Cads \cup Utils \cup Lots \cup {Nothing, Torn}]]
    BY <1>1 DEF SeedTypeOK, FilesTyped
  <2>2. CASE api' = api
    BY <2>1, <2>2
  <2>3. CASE Step(r) \in FileSet /\ api' = [api EXCEPT ![Of(r)][Step(r)] = Torn]
    <3>1. job[r].in /\ (Of(r) \in marred \/ (Of(r) \in cut /\ status[Of(r)] # "ready"))
      BY <1>1, <2>3, FileStep
    <3>2. \A p \in Projects \ {Of(r)} : api'[p] = api[p]
      BY <2>1, <2>3
    <3> DEFINE file == [api[Of(r)] EXCEPT ![Step(r)] = Torn]
    <3>3. api' = [api EXCEPT ![Of(r)] = file]
      BY <2>3
    <3>4. file \in [FileSet -> Cads \cup Utils \cup Lots \cup {Nothing, Torn}]
      BY <1>2, <2>1, <2>3
    <3> HIDE DEF file
    <3>5. api' \in [Projects -> [FileSet -> Cads \cup Utils \cup Lots \cup {Nothing, Torn}]]
      BY <2>1, <3>3, <3>4
    <3> QED BY <3>1, <3>2, <3>5
  <2> QED BY <1>6, <2>2, <2>3
<1>8. ~Clean(r)' /\ ~At(r, "merge")' /\ ~At(r, "write")'
  BY <1>3 DEF Clean, At, Active
<1>9. \A p \in Projects \ (marred' \cup cut') : api'[p] = api[p]
  BY <1>1, <1>7
<1>11. /\ JobsTyped' /\ RowsTyped' /\ InDatabase' /\ InTwos' /\ (Met' <=> Met)
       /\ Marks' /\ Scoped' /\ Made' /\ RowsAreOwn' /\ RowsWhole'
  BY <1>1, <1>3, <1>7, <1>8, Still
<1>12. FilesTyped'
  BY <1>1, <1>4, <1>5, <1>7, <1>10 DEF SeedTypeOK, FilesTyped
<1>13. Listed'
  BY <1>1, <1>3, <1>8, <1>9, ListedKeeps, MovesOthers
<1>14. FilesWhole'
  BY <1>1, <1>9, FilesKeep DEF SeedInv
<1>15. LonerKept'
  BY <1>1, <1>3, <1>4, <1>8, <1>11, LonerKeeps, MovesOthers
<1>16. GeneratedBySomeone'
  BY <1>1, <1>3, GeneratedKeeps, MovesOthers
<1> QED BY <1>11, <1>12, <1>13, <1>14, <1>15, <1>16 DEF SeedInv, SeedTypeOK

\* What a run has made is still so when it goes on to the registry.
LEMMA GoesOnWhole ==
  ASSUME SeedInv, NEW r \in Runs, At(r, "list") \/ At(r, "merge"), Moves(r),
         job'[r].at = job[r].at + 1, UNCHANGED <<scope, rows, api, status, marred, cut>>
  PROVE  Clean(r)' => Has(r)'
<1> SUFFICES ASSUME Clean(r)'
             PROVE  Has(r)'
  OBVIOUS
<1>1. Active(r) /\ job[r].kind \in Kinds /\ job[r].at \in 1..Len(Steps(job[r].kind))
  BY Stands DEF SeedInv, SeedTypeOK, At
<1>2. \/ job[r].kind = "seed" /\ job[r].at \in {18, 19}
      \/ job[r].kind = "import" /\ job[r].at \in {9, 10}
      \/ job[r].kind = "export" /\ job[r].at \in {6, 7}
  BY <1>1, Places DEF At, Step
<1>3. job[r].in
  BY <1>2 DEF SeedInv, InDatabase, Before
<1>4. job'[r].of = job[r].of /\ job'[r].kind = job[r].kind /\ job'[r].met = job[r].met
  BY DEF Moves
<1>5. Clean(r)
  BY <1>3, <1>4 DEF Clean, Of
<1>6. Has(r)
  BY <1>5 DEF SeedInv, Made
<1>7. /\ cad' = cad /\ util' = util /\ plots' = plots /\ api' = api /\ cut' = cut
      /\ staged' = staged /\ highways' = highways /\ status' = status /\ Of(r)' = Of(r)
  BY <1>4 DEF rows, scope, Of
<1>8. PICK p : p = Of(r)
  OBVIOUS
<1>12. PICK k : k = job[r].at
  OBVIOUS
<1>9. Whole(p)' <=> Whole(p)
  BY <1>7 DEF Whole
<1>13. Of(r)' = p /\ job'[r].at = k + 1 /\ job'[r].kind = job[r].kind
  BY <1>4, <1>7, <1>8, <1>12
<1>10. CASE job[r].kind = "seed"
  <2>1. k \in {18, 19}
    BY <1>2, <1>12, <1>10
  <2>2. Seeded(p, k) /\ Exported(p, k - 12)
    BY <1>6, <1>8, <1>12, <1>10 DEF Has, Exporting
  <2>3. Seeded(Of(r), job[r].at)'
    BY <2>1, <2>2, <1>7, <1>13 DEF Seeded
  <2>5. Exporting(job[r])' \in {7, 8}
    BY <2>1, <1>10, <1>13 DEF Exporting
  <2>4. Exported(Of(r), Exporting(job[r]))'
    BY <2>1, <2>2, <2>5, <1>7, <1>9, <1>13 DEF Exported, Whole
  <2> QED BY <2>3, <2>4, <1>13, <1>10 DEF Has
<1>11. CASE job[r].kind = "import"
  <2>1. k \in {9, 10}
    BY <1>2, <1>12, <1>11
  <2>2. Imported(p, k) /\ Exported(p, k - 3)
    BY <1>6, <1>8, <1>12, <1>11 DEF Has, Exporting
  <2>3. Imported(Of(r), job[r].at)'
    BY <2>1, <2>2, <1>7, <1>13 DEF Imported
  <2>5. Exporting(job[r])' \in {7, 8}
    BY <2>1, <1>11, <1>13 DEF Exporting
  <2>4. Exported(Of(r), Exporting(job[r]))'
    BY <2>1, <2>2, <2>5, <1>7, <1>9, <1>13 DEF Exported, Whole
  <2> QED BY <2>3, <2>4, <1>13, <1>11 DEF Has
<1> QED BY <1>5, <1>10, <1>11 DEF Clean

\* A project that is ready in the table has its files.
LEMMA TableTruthful == ASSUME SeedInv PROVE Truthful(status)
<1> SUFFICES ASSUME NEW p \in Projects \ (marred \cup cut), status[p] = "ready"
             PROVE  Filed(p)
  BY DEF Truthful
<1>1. Whole(p) /\ \A f \in FileSet : api[p][f] = Content(f, p)
  BY DEF SeedInv, RowsWhole
<1>2. /\ api[p]["parcels.json"] = cad[p] /\ api[p]["survey_parcels.json"] = plots[p]
      /\ api[p]["utilities.json"] = util[p]
  BY <1>1, FileNames DEF Content
<1>3. cad[p] \in Cads /\ util[p] \in Utils /\ plots[p] \in Lots /\ util[p].on = cad[p]
  BY <1>1 DEF Whole, SeedInv, SeedTypeOK, RowsTyped
<1>4. cad[p] \notin {Nothing, Torn} /\ util[p] \notin {Nothing, Torn} /\ plots[p] \notin {Nothing, Torn}
  BY <1>3, SeedAssumption
<1> QED BY <1>2, <1>3, <1>4, FileNames DEF Filed

-----------------------------------------------------------------------------
(* The registry *)

LEMMA ListStep ==
  ASSUME SeedInv, NEW r \in Runs, List(r)
  PROVE  SeedInv'
<1>1. /\ Active(r) /\ At(r, "list") /\ JobsTyped /\ SeedTypeOK
      /\ UNCHANGED <<extract, heights, api, registry, status, scope, rows, faults, marred, cut, silent>>
  BY DEF List, At, SeedInv, SeedTypeOK, disk, told
<1>3. Moves(r) /\ job'[r].at = job[r].at + 1 /\ job'[r].listed = status
  BY <1>1, ListMoves
<1>4. job[r].at \in Nat
  BY <1>1, Stands, Lengths
<1>8. Clean(r)' => Has(r)'
  BY <1>1, <1>3, GoesOnWhole
<1>9. ~At(r, "publish") /\ ~At(r, "stage") /\ ~At(r, "merge") /\ ~At(r, "write")
  BY <1>1 DEF At
<1>10. ~At(r, "write")'
  BY <1>1, <1>3, <1>9, Predecessor
<1>11. /\ JobsTyped' /\ RowsTyped' /\ InDatabase' /\ InTwos' /\ (Met' <=> Met)
       /\ Marks' /\ Scoped' /\ Made' /\ RowsAreOwn' /\ RowsWhole'
  BY <1>1, <1>3, <1>8, <1>9, Still
<1>12. FilesTyped'
  BY <1>1 DEF SeedTypeOK, FilesTyped
<1>13. Listed'
  <2>1. \A s \in Runs \ {r} : Carries(s)'
    BY <1>1, <1>3, OthersCarry, MovesOthers
  <2>2. PICK l : l = status
    OBVIOUS
  <2>3. Truthful(l)'
    BY <1>1, <2>2, TableTruthful, TruthKeeps
  <2>4. status \in [Projects -> Sts]
    BY <1>1 DEF SeedTypeOK, FilesTyped
  <2>5. Carries(r)'
    BY <1>3, <1>10, <2>2, <2>3, <2>4 DEF Carries, Truthful
  <2> QED BY <2>1, <2>5 DEF Listed
<1>14. FilesWhole'
  BY <1>1, FilesKeep DEF SeedInv
<1>15. LonerKept'
  BY <1>1, <1>3, <1>9, <1>10, <1>11, LonerKeeps, MovesOthers
<1>16. GeneratedBySomeone'
  BY <1>1, <1>3, <1>4, GeneratedKeeps, MovesOthers
<1> QED BY <1>11, <1>12, <1>13, <1>14, <1>15, <1>16 DEF SeedInv, SeedTypeOK

\* Who writes the registry is in the database.
LEMMA WritesInside ==
  ASSUME SeedInv, NEW r \in Runs, At(r, "merge") \/ At(r, "write")
  PROVE  job[r].in
<1>1. Active(r) /\ job[r].kind \in Kinds /\ job[r].at \in 1..Len(Steps(job[r].kind))
  BY Stands DEF SeedInv, SeedTypeOK, At
<1>2. \/ job[r].kind = "seed" /\ job[r].at \in {19, 20}
      \/ job[r].kind = "import" /\ job[r].at \in {10, 11}
      \/ job[r].kind = "export" /\ job[r].at \in {7, 8}
  BY <1>1, Places DEF At, Step
<1> QED BY <1>2 DEF SeedInv, InDatabase, Before

LEMMA MergeStep ==
  ASSUME SeedInv, NEW r \in Runs, Merge(r)
  PROVE  SeedInv'
<1>1. /\ Active(r) /\ At(r, "merge") /\ JobsTyped /\ SeedTypeOK
      /\ UNCHANGED <<extract, heights, api, status, scope, rows, faults, marred, cut, silent>>
      /\ registry' = Torn
  BY DEF Merge, At, SeedInv, SeedTypeOK, told
<1>3. /\ Moves(r) /\ job'[r].at = job[r].at + 1
      /\ job'[r].listed = Merged(registry, job[r].listed) /\ job'[r].listed \in Listing
  BY <1>1, MergeMoves DEF SeedInv
<1>4. job[r].at \in 1..Len(Steps(job[r].kind)) /\ job[r].kind \in Kinds /\ job[r].at \in Nat
  BY <1>1, Stands, Lengths
<1>8. Clean(r)' => Has(r)'
  BY <1>1, <1>3, GoesOnWhole
<1>9. ~At(r, "publish") /\ ~At(r, "stage") /\ ~At(r, "list") /\ ~At(r, "write")
  BY <1>1 DEF At
<1>10. ~At(r, "merge")'
  BY <1>1, <1>3, <1>9, Predecessor
<1>11. /\ JobsTyped' /\ RowsTyped' /\ InDatabase' /\ InTwos' /\ (Met' <=> Met)
       /\ Marks' /\ Scoped' /\ Made' /\ RowsAreOwn' /\ RowsWhole'
  BY <1>1, <1>3, <1>8, <1>9, Still
<1>12. FilesTyped'
  BY <1>1 DEF SeedTypeOK, FilesTyped
<1>13. Listed'
  <2>1. \A s \in Runs \ {r} : Carries(s)'
    BY <1>1, <1>3, OthersCarry, MovesOthers
  <2>2. PICK l : l = Merged(registry, job[r].listed)
    OBVIOUS
  <2>3. Truthful(l)
    <3> SUFFICES ASSUME NEW p \in Projects \ (marred \cup cut), l[p] = "ready"
                 PROVE  Filed(p)
      BY DEF Truthful
    <3>1. p # Loner /\ p \in Projects \cup {Loner}
      BY SeedAssumption
    <3>2. \/ job[r].listed[p] = "ready"
          \/ registry # Torn /\ registry[p] = "ready"
      BY <2>2, <3>1 DEF Merged
    <3>3. CASE job[r].listed[p] = "ready"
      BY <1>1, <3>3 DEF SeedInv, Listed, Carries, Truthful
    <3>4. CASE registry # Torn /\ registry[p] = "ready"
      BY <3>4 DEF SeedInv, FilesWhole, Filed
    <3> QED BY <3>2, <3>3, <3>4
  <2>4. Truthful(l)'
    BY <1>1, <2>3, TruthKeeps
  <2>5. Carries(r)'
    BY <1>3, <1>10, <2>2, <2>4 DEF Carries, Truthful
  <2> QED BY <2>1, <2>5 DEF Listed
<1>14. FilesWhole'
  BY <1>1 DEF FilesWhole
<1>15. LonerKept'
  <2> SUFFICES ASSUME faults = 0, ~Met
               PROVE  /\ \E s \in Runs : At(s, "write")'
                      /\ \A s \in Runs : At(s, "write")' => job'[s].listed[Loner] = "ready"
    BY <1>1, <1>11 DEF LonerKept
  <2>1. At(r, "write")'
    <3>1. \/ job[r].kind = "seed" /\ job[r].at = 19
          \/ job[r].kind = "import" /\ job[r].at = 10
          \/ job[r].kind = "export" /\ job[r].at = 7
      BY <1>1, <1>4, Places DEF At, Step
    <3>2. Steps(job[r].kind)[job[r].at + 1] = "write"
      BY <3>1, StepsSeed, StepsImport, StepsExport
    <3> QED BY <1>3, <1>4, <3>2 DEF At, Step, Active, Moves
  <2>2. ASSUME NEW s \in Runs \ {r}, At(s, "write")
        PROVE  FALSE
    <3>1. job[r].in /\ job[s].in
      BY <1>1, <2>2, WritesInside
    <3> QED BY <3>1 DEF SeedInv, InTwos, Met
  <2>3. \A s \in Runs \ {r} : ~At(s, "write")'
    BY <1>3, <2>2 DEF Moves, At, Step, Active
  <2>4. registry # Torn /\ registry[Loner] = "ready"
    <3>1. ~At(r, "write")
      BY <1>9
    <3> QED BY <2>2, <3>1 DEF SeedInv, LonerKept
  <2>5. job'[r].listed[Loner] = "ready"
    BY <1>3, <2>4 DEF Merged
  <2> QED BY <2>1, <2>3, <2>5
<1>16. GeneratedBySomeone'
  BY <1>1, <1>3, <1>4, GeneratedKeeps, MovesOthers
<1> QED BY <1>11, <1>12, <1>13, <1>14, <1>15, <1>16 DEF SeedInv, SeedTypeOK

LEMMA WriteStep ==
  ASSUME SeedInv, NEW r \in Runs, Write(r)
  PROVE  SeedInv'
<1>1. /\ Active(r) /\ At(r, "write") /\ JobsTyped /\ SeedTypeOK
      /\ UNCHANGED <<extract, heights, api, status, scope, rows, faults, marred, cut, silent>>
      /\ registry' = job[r].listed
  BY DEF Write, At, SeedInv, SeedTypeOK, told
<1>3. Moves(r) /\ job'[r].at = 0 /\ ~job'[r].in
  BY <1>1, WriteMoves
<1>4. job[r].at \in 1..Len(Steps(job[r].kind)) /\ job[r].kind \in Kinds
  BY <1>1, Stands
<1>5. job[r].listed \in Listing /\ Truthful(job[r].listed)
  BY <1>1 DEF SeedInv, Listed, Carries
<1>8. ~Clean(r)' /\ ~At(r, "merge")' /\ ~At(r, "write")'
  BY <1>3 DEF Clean, At, Active
<1>11. /\ JobsTyped' /\ RowsTyped' /\ InDatabase' /\ InTwos' /\ (Met' <=> Met)
       /\ Marks' /\ Scoped' /\ Made' /\ RowsAreOwn' /\ RowsWhole'
  BY <1>1, <1>3, <1>8, Still
<1>12. FilesTyped'
  BY <1>1, <1>5 DEF SeedTypeOK, FilesTyped
<1>13. Listed'
  BY <1>1, <1>3, <1>8, ListedKeeps, MovesOthers
<1>14. FilesWhole'
  BY <1>1, <1>5 DEF FilesWhole, Truthful, Filed
<1>15. LonerKept'
  <2> SUFFICES ASSUME faults = 0, ~Met
               PROVE  /\ registry' # Torn /\ registry'[Loner] = "ready"
                      /\ \A s \in Runs : At(s, "write")' => job'[s].listed[Loner] = "ready"
    BY <1>1, <1>11 DEF LonerKept
  <2>1. registry' # Torn
    BY <1>1, <1>5, SeedAssumption
  <2>2. \A s \in Runs : At(s, "write") => job[s].listed[Loner] = "ready"
    BY DEF SeedInv, LonerKept
  <2>3. \A s \in Runs \ {r} : job'[s] = job[s] /\ (At(s, "write")' <=> At(s, "write"))
    BY <1>3 DEF Moves, At, Step, Active
  <2> QED BY <1>1, <1>8, <2>1, <2>2, <2>3
<1>16. GeneratedBySomeone'
  <2>1. job[r].in /\ (Of(r) \in marred \/ Clean(r))
    BY <1>1, WritesInside, Owner
  <2>2. CASE Clean(r)
    <3>1. Exported(Of(r), Exporting(job[r])) /\ job[r].kind \in {"seed", "import"}
      BY <2>2 DEF SeedInv, Made, Has, Clean
    <3>2. Exporting(job[r]) = 8
      BY <1>1, <1>4, <3>1, Places DEF Exporting, At, Step
    <3>3. status'[Of(r)] # "generating"
      BY <1>1, <3>1, <3>2 DEF Exported
    <3> QED BY <1>1, <1>3, <3>3, GeneratedKeeps, MovesOthers
  <2>3. CASE Of(r) \in marred
    BY <1>1, <1>3, <2>3, GeneratedKeeps, MovesOthers
  <2> QED BY <2>1, <2>2, <2>3
<1> QED BY <1>11, <1>12, <1>13, <1>14, <1>15, <1>16 DEF SeedInv, SeedTypeOK

-----------------------------------------------------------------------------
(* The steps that write rows and files *)

Own(p) ==
  /\ cad[p] # Nothing => cad[p].of = p
  /\ util[p] # Nothing => util[p].roads = p
  /\ plots[p] # Nothing /\ ~plots[p].official => plots[p].roads = p

Same(p) == cad'[p] = cad[p] /\ util'[p] = util[p] /\ plots'[p] = plots[p] /\ api'[p] = api[p]

\* A run in the database that writes what is marred, or what is its own and not yet ready.
LEMMA Rewrites ==
  ASSUME SeedInv, NEW r \in Runs, Active(r), Moves(r), job[r].in, ~At(r, "publish"),
         marred' = marred, cut' = cut, ctx' # Nothing, ctx'.of = ctx.of,
         \A p \in Projects : status'[p] \in {status[p], "failed"},
         \A p \in Projects \ marred : Same(p) \/ (Clean(r) /\ p = Of(r) /\ Exporting(job[r]) <= 4),
         Clean(r) /\ Of(r) \notin marred => Own(Of(r))',
         Clean(r)' => Has(r)'
  PROVE  /\ JobsTyped' /\ InDatabase' /\ InTwos' /\ (Met' <=> Met)
         /\ Marks' /\ Scoped' /\ Made' /\ RowsAreOwn' /\ RowsWhole'
<1>1. JobsTyped' /\ InDatabase' /\ InTwos' /\ (Met' <=> Met)
  BY MovesKeep DEF SeedInv, SeedTypeOK
<1>2. Marks' /\ Scoped'
  BY MarksKeep DEF SeedInv
<1>3. Made'
  <2>1. \A s \in Runs \ {r} : job'[s] = job[s]
    BY DEF Moves
  <2>2. \A s \in Runs \ {r} : Clean(s)' => Has(s)'
    BY <2>1, OthersKeep
  <2> QED BY <2>2 DEF Made
<1>4. RowsAreOwn'
  <2> SUFFICES ASSUME NEW p \in Projects \ marred
               PROVE  Own(p)'
    BY DEF RowsAreOwn, Own
  <2>1. CASE Same(p)
    <3>1. Own(p)
      BY DEF SeedInv, RowsAreOwn, Own
    <3> QED BY <2>1, <3>1 DEF Own, Same
  <2>2. CASE Clean(r) /\ p = Of(r)
    <3>1. Own(Of(r))'
      BY <2>2
    <3>2. Of(r)' = p
      BY <2>2 DEF Moves, Of
    <3> QED BY <3>1, <3>2 DEF Own
  <2> QED BY <2>1, <2>2
<1>5. RowsWhole'
  <2>1. ASSUME NEW p \in Projects \ marred, status'[p] = "ready"
        PROVE  status[p] = "ready" /\ Same(p)
    <3>1. status[p] = "ready"
      BY <2>1
    <3>2. ASSUME Clean(r), p = Of(r), Exporting(job[r]) <= 4
          PROVE  FALSE
      <4>1. Exported(p, Exporting(job[r]))
        BY <3>2 DEF SeedInv, Made, Has
      <4>2. Exporting(job[r]) \in Int
        <5>1. job[r].at \in Nat
          BY DEF SeedInv, SeedTypeOK, JobsTyped, Jobs
        <5> QED BY <5>1 DEF Exporting
      <4> QED BY <3>1, <3>2, <4>1, <4>2 DEF Exported
    <3> QED BY <3>1, <3>2
  <2> QED BY <2>1, WholeKeeps DEF Same
<1> QED BY <1>1, <1>2, <1>3, <1>4, <1>5

\* A run that does not touch the registry, and ends only when nobody waits for it.
LEMMA RegistryKeeps ==
  ASSUME SeedInv, NEW r \in Runs, Active(r), Moves(r),
         ~At(r, "list"), ~At(r, "merge"), ~At(r, "write"), Met' <=> Met,
         registry' = registry, faults' = faults, marred' = marred, cut' = cut, silent' = silent,
         \A p \in Projects \ (marred \cup cut) : api'[p] = api[p],
         \A p \in Projects : status'[p] \in {status[p], "failed"},
         job'[r].at = 0 => status'[Of(r)] # "generating" \/ Of(r) \in marred
  PROVE  Listed' /\ FilesWhole' /\ LonerKept' /\ GeneratedBySomeone'
<1>1. ~At(r, "merge")' /\ ~At(r, "write")'
  BY Predecessor DEF SeedInv, SeedTypeOK
<1>2. Listed'
  BY <1>1, ListedKeeps, MovesOthers
<1>3. FilesWhole'
  BY FilesKeep DEF SeedInv
<1>4. LonerKept'
  BY <1>1, LonerKeeps, MovesOthers
<1>5. GeneratedBySomeone'
  BY GeneratedKeeps, MovesOthers
<1> QED BY <1>2, <1>3, <1>4, <1>5

\* A clean run that has moved was clean, and had made what it should.
LEMMA WasClean ==
  ASSUME SeedInv, NEW r \in Runs, Active(r), Moves(r), job[r].in, marred' = marred, Clean(r)'
  PROVE  /\ Clean(r) /\ Has(r) /\ Of(r)' = Of(r) /\ ctx.of = Of(r) /\ job'[r].kind = job[r].kind
         /\ job'[r].at = job[r].at + 1
<1>1. job'[r].of = job[r].of /\ job'[r].kind = job[r].kind /\ job'[r].met = job[r].met /\ job'[r].in
  BY DEF Moves, Clean
<1>2. job'[r].at = job[r].at + 1
  BY <1>1 DEF Moves
<1>3. Clean(r) /\ Of(r)' = Of(r)
  BY <1>1 DEF Clean, Of
<1>4. ctx.of = Of(r)
  BY <1>3 DEF Clean, SeedInv, Scoped
<1> QED BY <1>1, <1>2, <1>3, <1>4 DEF SeedInv, Made

LEMMA StageBuildingsStep ==
  ASSUME SeedInv, NEW r \in Runs, StageBuildings(r)
  PROVE  SeedInv'
<1>1. /\ Active(r) /\ At(r, "stage") /\ JobsTyped /\ SeedTypeOK /\ Done(r)
      /\ UNCHANGED <<extract, heights, api, registry, status, ctx, highways, cad, util, plots,
                     faults, marred, cut, silent>>
  BY DEF StageBuildings, At, SeedInv, SeedTypeOK, disk, rows, told
<1>2. job[r].kind \in Kinds /\ job[r].at \in 1..Len(Steps(job[r].kind)) /\ Of(r) \in Projects
  BY <1>1, Stands
<1>3. \/ job[r].kind = "seed" /\ job[r].at = 4
      \/ job[r].kind = "cadastre" /\ job[r].at = 2
  BY <1>1, <1>2, Places DEF At, Step
<1>4. job[r].in /\ job[r].at # Len(Steps(job[r].kind))
  <2>1. job[r].in
    BY <1>3 DEF SeedInv, InDatabase, Before
  <2>2. job[r].at # Len(Steps(job[r].kind))
    BY <1>1, <1>2, NotLast DEF At, Step
  <2> QED BY <2>1, <2>2
<1>5. Moves(r) /\ job'[r].at = job[r].at + 1
  BY <1>1, <1>4, DoneMoves
<1>6. ~At(r, "publish") /\ ~At(r, "list") /\ ~At(r, "merge") /\ ~At(r, "write")
  BY <1>1 DEF At
<1>7. staged'.of = Of(r)
  BY DEF StageBuildings
<1>8. Clean(r)' => Has(r)'
  <2> SUFFICES ASSUME Clean(r)'
               PROVE  Has(r)'
    OBVIOUS
  <2>1. /\ Clean(r) /\ Has(r) /\ Of(r)' = Of(r) /\ job'[r].kind = job[r].kind /\ job'[r].at = job[r].at + 1
    BY <1>1, <1>4, <1>5, WasClean
  <2>2. job[r].kind = "seed" /\ job[r].at = 4
    BY <1>3, <2>1 DEF Clean
  <2>3. Seeded(Of(r), job[r].at)'
    BY <1>1, <1>7, <2>1, <2>2 DEF Seeded
  <2>4. Exporting(job[r])' = -7 /\ Exporting(job[r]) = -8
    BY <2>1, <2>2 DEF Exporting
  <2>5. Exported(Of(r), -8)
    BY <2>1, <2>4 DEF Has
  <2>6. Exported(Of(r), Exporting(job[r]))'
    BY <1>1, <2>1, <2>4, <2>5 DEF Exported
  <2> QED BY <2>1, <2>2, <2>3, <2>6 DEF Has
<1>9. ctx # Nothing
  BY <1>4 DEF SeedInv, Scoped
<1>10. Own(Of(r))' <=> Own(Of(r))
  BY <1>1, <1>5 DEF Own, Moves, Of
<1>11. Clean(r) /\ Of(r) \notin marred => Own(Of(r))'
  BY <1>2, <1>10 DEF Own, SeedInv, RowsAreOwn
<1>12. /\ JobsTyped' /\ InDatabase' /\ InTwos' /\ (Met' <=> Met)
       /\ Marks' /\ Scoped' /\ Made' /\ RowsAreOwn' /\ RowsWhole'
  BY <1>1, <1>4, <1>5, <1>6, <1>8, <1>9, <1>11, Rewrites DEF Same
<1>13. RowsTyped'
  BY <1>1, <1>2, <1>7 DEF SeedTypeOK, RowsTyped, StagedFor
<1>14. FilesTyped'
  BY <1>1 DEF SeedTypeOK, FilesTyped
<1>15. Listed' /\ FilesWhole' /\ LonerKept' /\ GeneratedBySomeone'
  <2>1. job'[r].at # 0
    BY <1>3, <1>5
  <2> QED BY <1>1, <1>5, <1>6, <1>12, <2>1, RegistryKeeps
<1> QED BY <1>12, <1>13, <1>14, <1>15 DEF SeedInv, SeedTypeOK

LEMMA StageHighwaysStep ==
  ASSUME SeedInv, NEW r \in Runs, StageHighways(r)
  PROVE  SeedInv'
<1>1. /\ Active(r) /\ At(r, "highways") /\ JobsTyped /\ SeedTypeOK /\ Done(r)
      /\ UNCHANGED <<extract, heights, api, registry, status, ctx, staged, cad, util, plots,
                     faults, marred, cut, silent>>
  BY DEF StageHighways, At, SeedInv, SeedTypeOK, disk, rows, told
<1>2. job[r].kind \in Kinds /\ job[r].at \in 1..Len(Steps(job[r].kind)) /\ Of(r) \in Projects
  BY <1>1, Stands
<1>3. \/ job[r].kind = "seed" /\ job[r].at \in {5, 10}
      \/ job[r].kind = "cadastre" /\ job[r].at = 3
      \/ job[r].kind = "survey" /\ job[r].at = 2
  BY <1>1, <1>2, Places DEF At, Step
<1>4. job[r].in /\ job[r].at # Len(Steps(job[r].kind))
  <2>1. job[r].in
    BY <1>3 DEF SeedInv, InDatabase, Before
  <2>2. job[r].at # Len(Steps(job[r].kind))
    BY <1>1, <1>2, NotLast DEF At, Step
  <2> QED BY <2>1, <2>2
<1>5. Moves(r) /\ job'[r].at = job[r].at + 1
  BY <1>1, <1>4, DoneMoves
<1>6. ~At(r, "publish") /\ ~At(r, "stage") /\ ~At(r, "list") /\ ~At(r, "merge") /\ ~At(r, "write")
  BY <1>1 DEF At
<1>7. highways' = Of(r)
  BY DEF StageHighways
<1>8. Clean(r)' => Has(r)'
  <2> SUFFICES ASSUME Clean(r)'
               PROVE  Has(r)'
    OBVIOUS
  <2>1. /\ Clean(r) /\ Has(r) /\ Of(r)' = Of(r) /\ job'[r].kind = job[r].kind /\ job'[r].at = job[r].at + 1
    BY <1>1, <1>4, <1>5, WasClean
  <2>2. job[r].kind = "seed" /\ job[r].at \in {5, 10}
    BY <1>3, <2>1 DEF Clean
  <2>3. Seeded(Of(r), job[r].at)
    BY <2>1, <2>2 DEF Has
  <2>4. Seeded(Of(r), job[r].at)'
    BY <1>1, <1>7, <2>1, <2>2, <2>3 DEF Seeded
  <2>5. Exporting(job[r])' \in {-6, -1} /\ Exporting(job[r]) \in {-7, -2}
    BY <2>1, <2>2 DEF Exporting
  <2>6. Exported(Of(r), Exporting(job[r]))
    BY <2>1 DEF Has
  <2>7. Exported(Of(r), Exporting(job[r]))'
    BY <1>1, <2>1, <2>5, <2>6 DEF Exported
  <2> QED BY <2>1, <2>2, <2>4, <2>7 DEF Has
<1>9. ctx # Nothing
  BY <1>4 DEF SeedInv, Scoped
<1>10. Own(Of(r))' <=> Own(Of(r))
  BY <1>1, <1>5 DEF Own, Moves, Of
<1>11. Clean(r) /\ Of(r) \notin marred => Own(Of(r))'
  BY <1>2, <1>10 DEF Own, SeedInv, RowsAreOwn
<1>12. /\ JobsTyped' /\ InDatabase' /\ InTwos' /\ (Met' <=> Met)
       /\ Marks' /\ Scoped' /\ Made' /\ RowsAreOwn' /\ RowsWhole'
  BY <1>1, <1>4, <1>5, <1>6, <1>8, <1>9, <1>11, Rewrites DEF Same
<1>13. RowsTyped'
  BY <1>1, <1>2, <1>5, <1>6, <1>7, StagedKeeps DEF SeedTypeOK, RowsTyped
<1>14. FilesTyped'
  BY <1>1 DEF SeedTypeOK, FilesTyped
<1>15. Listed' /\ FilesWhole' /\ LonerKept' /\ GeneratedBySomeone'
  <2>1. job'[r].at # 0
    BY <1>3, <1>5
  <2> QED BY <1>1, <1>5, <1>6, <1>12, <2>1, RegistryKeeps
<1> QED BY <1>12, <1>13, <1>14, <1>15 DEF SeedInv, SeedTypeOK

LEMMA BuildStep ==
  ASSUME SeedInv, NEW r \in Runs, Build(r)
  PROVE  SeedInv'
<1>1. /\ Active(r) /\ At(r, "build") /\ JobsTyped /\ SeedTypeOK
      /\ UNCHANGED <<extract, heights, api, registry, staged, highways, plots,
                     faults, marred, cut, silent>>
  BY DEF Build, At, SeedInv, SeedTypeOK, disk, told
<1>2. job[r].kind \in Kinds /\ job[r].at \in 1..Len(Steps(job[r].kind)) /\ Of(r) \in Projects
  BY <1>1, Stands
<1>3. \/ job[r].kind = "seed" /\ job[r].at = 6
      \/ job[r].kind = "cadastre" /\ job[r].at = 4
  BY <1>1, <1>2, Places DEF At, Step
<1>4. job[r].in
  BY <1>3 DEF SeedInv, InDatabase, Before
<1>5. /\ Moves(r)
      /\ \/ staged.some /\ status' = status
         \/ status' = FailedStatus(r) /\ job'[r].at = 0
      /\ job[r].kind = "seed" => job'[r].at = 7 \/ (status' = FailedStatus(r) /\ job'[r].at = 0)
  <2>0. Done(r) => Moves(r) /\ job'[r].at = IF job[r].at = Len(Steps(job[r].kind)) THEN 0 ELSE job[r].at + 1
    BY <1>1, DoneMoves
  <2>3. job[r].kind = "seed" => job[r].at # Len(Steps(job[r].kind))
    BY <1>3, StepsSeed
  <2>4. ASSUME Done(r), job[r].kind = "seed"
        PROVE  job'[r].at = 7
    <3>1. job[r].at # Len(Steps(job[r].kind)) /\ job[r].at = 6
      BY <1>3, <2>3, <2>4
    <3>2. job'[r].at = job[r].at + 1
      BY <2>0, <2>4, <3>1
    <3> QED BY <3>1, <3>2
  <2>1. Done(r) => Moves(r) /\ (job[r].kind = "seed" => job'[r].at = 7)
    BY <2>0, <2>4
  <2>2. Ends(r) => Moves(r) /\ job'[r].at = 0
    BY <1>1, EndsMoves
  <2> QED BY <2>1, <2>2 DEF Build
<1>6. ~At(r, "publish") /\ ~At(r, "stage") /\ ~At(r, "list") /\ ~At(r, "merge") /\ ~At(r, "write")
  BY <1>1 DEF At
<1>7. /\ status' \in [Projects -> Sts]
      /\ \A p \in Projects : status'[p] \in {status[p], "failed"}
      /\ job'[r].at = 0 => status'[Of(r)] # "generating" \/ Of(r) \in marred
  <2>1. status \in [Projects -> Sts]
    BY <1>1 DEF SeedTypeOK, FilesTyped
  <2>2. job[r].kind # "seed" => Of(r) \in marred
    BY <1>3, <1>4 DEF SeedInv, Marks, Alone
  <2>3. job[r].kind = "seed" /\ job'[r].at = 0 => status'[Of(r)] # "generating"
    BY <1>1, <1>2, <1>5, Failed
  <2>4. status' = status \/ status' = FailedStatus(r)
    BY <1>5
  <2> QED BY <1>1, <1>2, <2>1, <2>2, <2>3, <2>4, Failed
<1>8. ctx \in Scopes /\ ctx.of \in Projects
  BY <1>1, <1>4, Owner DEF SeedInv, Scoped, SeedTypeOK, RowsTyped
<1>9. ctx' \in Scopes /\ ctx'.of = ctx.of /\ ctx' # Nothing
  <2>1. ctx' = [ctx EXCEPT !.offsets = TRUE]
    BY DEF Build
  <2>2. ctx' \in Scopes /\ ctx'.of = ctx.of
    BY <1>8, <2>1 DEF Scopes
  <2> QED BY <2>2, SeedAssumption
<1>10. /\ cad \in [Projects -> Cads \cup {Nothing}] /\ util \in [Projects -> Utils \cup {Nothing}]
       /\ plots \in [Projects -> Lots \cup {Nothing}]
  BY <1>1 DEF SeedTypeOK, RowsTyped
<1>11. staged.of \in Projects
  BY <1>1, <1>3 DEF SeedTypeOK, RowsTyped, StagedFor
<1>12. /\ cad' = [cad EXCEPT ![ctx.of] = IF staged.some THEN [of |-> staged.of, run |-> r] ELSE Nothing]
       /\ util' = [util EXCEPT ![ctx.of] = Nothing]
  BY DEF Build
<1>13. /\ cad' \in [Projects -> Cads \cup {Nothing}] /\ util' \in [Projects -> Utils \cup {Nothing}]
       /\ \A p \in Projects \ {ctx.of} : cad'[p] = cad[p] /\ util'[p] = util[p]
       /\ util'[ctx.of] = Nothing
       /\ staged.some => cad'[ctx.of] = [of |-> staged.of, run |-> r]
       /\ ~staged.some => cad'[ctx.of] = Nothing
  <2> DEFINE new == IF staged.some THEN [of |-> staged.of, run |-> r] ELSE Nothing
  <2>1. new \in Cads \cup {Nothing}
    BY <1>11 DEF Cads
  <2>2. cad' = [cad EXCEPT ![ctx.of] = new]
    BY <1>12
  <2>3. /\ staged.some => new = [of |-> staged.of, run |-> r]
        /\ ~staged.some => new = Nothing
    OBVIOUS
  <2> HIDE DEF new
  <2> QED BY <1>8, <1>10, <1>12, <2>1, <2>2, <2>3
<1>14. [of |-> staged.of, run |-> r] \in Cads /\ [of |-> staged.of, run |-> r].of = staged.of
  BY <1>11 DEF Cads
<1>15. [of |-> staged.of, run |-> r] # Nothing
  BY <1>14, SeedAssumption
<1>16. Clean(r) => /\ job[r].kind = "seed" /\ job[r].at = 6 /\ ctx.of = Of(r)
                   /\ staged.of = Of(r) /\ highways = Of(r) /\ Exporting(job[r]) = -6
                   /\ status[Of(r)] # "ready"
  <2> SUFFICES ASSUME Clean(r)
               PROVE  /\ job[r].kind = "seed" /\ job[r].at = 6 /\ ctx.of = Of(r)
                      /\ staged.of = Of(r) /\ highways = Of(r) /\ Exporting(job[r]) = -6
                      /\ status[Of(r)] # "ready"
    OBVIOUS
  <2>1. job[r].kind = "seed" /\ job[r].at = 6
    BY <1>3 DEF Clean
  <2>2. ctx.of = Of(r)
    BY <1>4 DEF Clean, SeedInv, Scoped
  <2>3. Has(r)
    BY DEF SeedInv, Made
  <2>4. Seeded(Of(r), 6) /\ Exporting(job[r]) = -6
    BY <2>1, <2>3 DEF Has, Exporting
  <2>5. Exported(Of(r), -6)
    BY <2>3, <2>4 DEF Has
  <2> QED BY <2>1, <2>2, <2>4, <2>5 DEF Seeded, Exported
<1>17. Clean(r)' => Has(r)'
  <2> SUFFICES ASSUME Clean(r)'
               PROVE  Has(r)'
    OBVIOUS
  <2>1. /\ Clean(r) /\ Of(r)' = Of(r) /\ job'[r].kind = job[r].kind /\ job'[r].at = job[r].at + 1
    BY <1>1, <1>4, <1>5, WasClean
  <2>2. job'[r].kind = "seed" /\ job'[r].at = 7 /\ staged.some
    BY <1>5, <1>16, <2>1
  <2>3. Seeded(Of(r), job[r].at)'
    BY <1>1, <1>13, <1>14, <1>15, <1>16, <2>1, <2>2 DEF Seeded
  <2>4. Exporting(job[r])' = -5
    BY <2>2 DEF Exporting
  <2>5. Exported(Of(r), Exporting(job[r]))'
    BY <1>2, <1>7, <1>16, <2>1, <2>4 DEF Exported
  <2> QED BY <2>2, <2>3, <2>5 DEF Has
<1>18. Clean(r) /\ Of(r) \notin marred => Own(Of(r))'
  <2>1. Of(r)' = Of(r)
    BY <1>5 DEF Moves, Of
  <2>2. Of(r) \notin marred => Own(Of(r))
    BY <1>2 DEF SeedInv, RowsAreOwn, Own
  <2> QED BY <1>1, <1>2, <1>13, <1>14, <1>16, <2>1, <2>2 DEF Own
<1>19. \A p \in Projects \ marred : Same(p) \/ (Clean(r) /\ p = Of(r) /\ Exporting(job[r]) <= 4)
  <2>1. ctx.of \in marred \/ (Clean(r) /\ ctx.of = Of(r))
    BY <1>4, Owner
  <2> QED BY <1>1, <1>13, <1>16, <2>1 DEF Same
<1>20. /\ JobsTyped' /\ InDatabase' /\ InTwos' /\ (Met' <=> Met)
       /\ Marks' /\ Scoped' /\ Made' /\ RowsAreOwn' /\ RowsWhole'
  BY <1>1, <1>4, <1>5, <1>6, <1>7, <1>9, <1>17, <1>18, <1>19, Rewrites
<1>21. RowsTyped'
  <2>1. StagedFor'
    BY <1>1, <1>5, <1>6, StagedKeeps
  <2> QED BY <1>1, <1>9, <1>10, <1>13, <2>1 DEF SeedTypeOK, RowsTyped
<1>22. FilesTyped'
  BY <1>1, <1>7 DEF SeedTypeOK, FilesTyped
<1>23. Listed' /\ FilesWhole' /\ LonerKept' /\ GeneratedBySomeone'
  BY <1>1, <1>5, <1>6, <1>7, <1>20, RegistryKeeps
<1> QED BY <1>20, <1>21, <1>22, <1>23 DEF SeedInv, SeedTypeOK

LEMMA LayStep ==
  ASSUME SeedInv, NEW r \in Runs, Lay(r)
  PROVE  SeedInv'
<1>1. /\ Active(r) /\ At(r, "lay") /\ JobsTyped /\ SeedTypeOK /\ Done(r) /\ Passes(r)
      /\ UNCHANGED <<extract, heights, api, registry, status, ctx, staged, highways, cad, plots,
                     faults, marred, cut, silent>>
  BY DEF Lay, At, SeedInv, SeedTypeOK, disk, scope, told
<1>2. job[r].kind \in Kinds /\ job[r].at \in 1..Len(Steps(job[r].kind)) /\ Of(r) \in Projects
  BY <1>1, Stands
<1>3. \/ job[r].kind = "seed" /\ job[r].at = 8
      \/ job[r].kind = "utilities" /\ job[r].at = 2
  BY <1>1, <1>2, Places DEF At, Step
<1>4. job[r].in
  BY <1>3 DEF SeedInv, InDatabase, Before
<1>5. Moves(r) /\ (job'[r].at = 0 => Of(r) \in marred)
  <2>1. Moves(r) /\ job'[r].at = IF job[r].at = Len(Steps(job[r].kind)) THEN 0 ELSE job[r].at + 1
    BY <1>1, DoneMoves
  <2>2. job[r].kind = "seed" => job[r].at # Len(Steps(job[r].kind))
    BY <1>3, StepsSeed
  <2>3. job[r].kind = "utilities" => Of(r) \in marred
    BY <1>4 DEF SeedInv, Marks, Alone
  <2>4. job[r].kind = "seed" => job'[r].at = job[r].at + 1 /\ job[r].at = 8
    BY <1>3, <2>1, <2>2
  <2> QED BY <1>3, <2>1, <2>3, <2>4
<1>6. ~At(r, "publish") /\ ~At(r, "stage") /\ ~At(r, "list") /\ ~At(r, "merge") /\ ~At(r, "write")
  BY <1>1 DEF At
<1>7. ctx # Nothing /\ ctx.of \in Projects
  BY <1>4, Owner DEF SeedInv, Scoped
<1>8. /\ cad \in [Projects -> Cads \cup {Nothing}] /\ util \in [Projects -> Utils \cup {Nothing}]
      /\ highways \in Projects \cup {Nothing}
  BY <1>1 DEF SeedTypeOK, RowsTyped
<1>9. cad[ctx.of] # Nothing
  BY <1>1 DEF Passes, At
<1>10. PICK new : new = [roads |-> highways, on |-> cad[ctx.of]]
  OBVIOUS
<1>11. new \in Utils /\ new.roads = highways /\ new.on = cad[ctx.of]
  BY <1>7, <1>8, <1>9, <1>10 DEF Utils
<1>12. new # Nothing
  BY <1>11, SeedAssumption
<1>13. util' = [util EXCEPT ![ctx.of] = new]
  BY <1>10 DEF Lay
<1>14. /\ util' \in [Projects -> Utils \cup {Nothing}] /\ util'[ctx.of] = new
       /\ \A p \in Projects \ {ctx.of} : util'[p] = util[p]
  BY <1>7, <1>8, <1>11, <1>13
<1>16. Clean(r) => /\ job[r].kind = "seed" /\ job[r].at = 8 /\ ctx.of = Of(r)
                   /\ cad[Of(r)].of = Of(r) /\ highways = Of(r) /\ Exporting(job[r]) = -4
                   /\ status[Of(r)] # "ready"
  <2> SUFFICES ASSUME Clean(r)
               PROVE  /\ job[r].kind = "seed" /\ job[r].at = 8 /\ ctx.of = Of(r)
                      /\ cad[Of(r)].of = Of(r) /\ highways = Of(r) /\ Exporting(job[r]) = -4
                      /\ status[Of(r)] # "ready"
    OBVIOUS
  <2>1. job[r].kind = "seed" /\ job[r].at = 8
    BY <1>3 DEF Clean
  <2>2. ctx.of = Of(r)
    BY <1>4 DEF Clean, SeedInv, Scoped
  <2>3. Has(r)
    BY DEF SeedInv, Made
  <2>4. Seeded(Of(r), 8) /\ Exporting(job[r]) = -4
    BY <2>1, <2>3 DEF Has, Exporting
  <2>5. Exported(Of(r), -4)
    BY <2>3, <2>4 DEF Has
  <2> QED BY <2>1, <2>2, <2>4, <2>5 DEF Seeded, Exported
<1>17. Clean(r)' => Has(r)'
  <2> SUFFICES ASSUME Clean(r)'
               PROVE  Has(r)'
    OBVIOUS
  <2>1. /\ Clean(r) /\ Of(r)' = Of(r) /\ job'[r].kind = job[r].kind /\ job'[r].at = job[r].at + 1
    BY <1>1, <1>4, <1>5, WasClean
  <2>2. job'[r].kind = "seed" /\ job'[r].at = 9
    BY <1>16, <2>1
  <2>3. Seeded(Of(r), job[r].at)'
    BY <1>1, <1>9, <1>11, <1>12, <1>14, <1>16, <2>1, <2>2 DEF Seeded
  <2>4. Exporting(job[r])' = -3
    BY <2>2 DEF Exporting
  <2>5. Exported(Of(r), Exporting(job[r]))'
    BY <1>1, <1>16, <2>1, <2>4 DEF Exported
  <2> QED BY <2>2, <2>3, <2>5 DEF Has
<1>18. Clean(r) /\ Of(r) \notin marred => Own(Of(r))'
  <2>1. Of(r)' = Of(r)
    BY <1>5 DEF Moves, Of
  <2>2. Of(r) \notin marred => Own(Of(r))
    BY <1>2 DEF SeedInv, RowsAreOwn, Own
  <2> QED BY <1>1, <1>2, <1>11, <1>14, <1>16, <2>1, <2>2 DEF Own
<1>19. \A p \in Projects \ marred : Same(p) \/ (Clean(r) /\ p = Of(r) /\ Exporting(job[r]) <= 4)
  <2>1. ctx.of \in marred \/ (Clean(r) /\ ctx.of = Of(r))
    BY <1>4, Owner
  <2> QED BY <1>1, <1>14, <1>16, <2>1 DEF Same
<1>20. /\ JobsTyped' /\ InDatabase' /\ InTwos' /\ (Met' <=> Met)
       /\ Marks' /\ Scoped' /\ Made' /\ RowsAreOwn' /\ RowsWhole'
  BY <1>1, <1>4, <1>5, <1>6, <1>7, <1>17, <1>18, <1>19, Rewrites
<1>21. RowsTyped'
  <2>1. StagedFor'
    BY <1>1, <1>5, <1>6, StagedKeeps
  <2> QED BY <1>1, <1>14, <2>1 DEF SeedTypeOK, RowsTyped
<1>22. FilesTyped'
  BY <1>1 DEF SeedTypeOK, FilesTyped
<1>23. Listed' /\ FilesWhole' /\ LonerKept' /\ GeneratedBySomeone'
  BY <1>1, <1>5, <1>6, <1>20, RegistryKeeps
<1> QED BY <1>20, <1>21, <1>22, <1>23 DEF SeedInv, SeedTypeOK

LEMMA CutPlotsStep ==
  ASSUME SeedInv, NEW r \in Runs, CutPlots(r)
  PROVE  SeedInv'
<1>1. /\ Active(r) /\ At(r, "plots") /\ JobsTyped /\ SeedTypeOK /\ Done(r)
      /\ UNCHANGED <<extract, heights, api, registry, status, ctx, staged, highways, cad, util,
                     faults, marred, cut, silent>>
  BY DEF CutPlots, At, SeedInv, SeedTypeOK, disk, scope, told
<1>2. job[r].kind \in Kinds /\ job[r].at \in 1..Len(Steps(job[r].kind)) /\ Of(r) \in Projects
  BY <1>1, Stands
<1>3. \/ job[r].kind = "seed" /\ job[r].at = 11
      \/ job[r].kind = "survey" /\ job[r].at = 3
  BY <1>1, <1>2, Places DEF At, Step
<1>4. job[r].in /\ job[r].at # Len(Steps(job[r].kind))
  <2>1. job[r].in
    BY <1>3 DEF SeedInv, InDatabase, Before
  <2>2. job[r].at # Len(Steps(job[r].kind))
    BY <1>1, <1>2, NotLast DEF At, Step
  <2> QED BY <2>1, <2>2
<1>5. Moves(r) /\ job'[r].at # 0
  <2>1. Moves(r) /\ job'[r].at = job[r].at + 1
    BY <1>1, <1>4, DoneMoves
  <2> QED BY <1>3, <2>1
<1>6. ~At(r, "publish") /\ ~At(r, "stage") /\ ~At(r, "list") /\ ~At(r, "merge") /\ ~At(r, "write")
  BY <1>1 DEF At
<1>7. ctx # Nothing /\ ctx.of \in Projects
  BY <1>4, Owner DEF SeedInv, Scoped
<1>8. /\ cad \in [Projects -> Cads \cup {Nothing}] /\ plots \in [Projects -> Lots \cup {Nothing}]
      /\ highways \in Projects \cup {Nothing}
  BY <1>1 DEF SeedTypeOK, RowsTyped
<1>10. PICK new : new = [roads |-> highways, on |-> cad[ctx.of], official |-> FALSE, joined |-> Nothing]
  OBVIOUS
<1>11. new \in Lots /\ new.roads = highways /\ new.on = cad[ctx.of] /\ ~new.official
  BY <1>7, <1>8, <1>10 DEF Lots
<1>12. new # Nothing
  BY <1>11, SeedAssumption
<1>13. plots' = [plots EXCEPT ![ctx.of] = new]
  BY <1>10 DEF CutPlots
<1>14. /\ plots' \in [Projects -> Lots \cup {Nothing}] /\ plots'[ctx.of] = new
       /\ \A p \in Projects \ {ctx.of} : plots'[p] = plots[p]
  BY <1>7, <1>8, <1>11, <1>13
<1>16. Clean(r) => /\ job[r].kind = "seed" /\ job[r].at = 11 /\ ctx.of = Of(r) /\ Seeded(Of(r), 11)
                   /\ highways = Of(r) /\ Exporting(job[r]) = -1 /\ status[Of(r)] # "ready"
  <2> SUFFICES ASSUME Clean(r)
               PROVE  /\ job[r].kind = "seed" /\ job[r].at = 11 /\ ctx.of = Of(r) /\ Seeded(Of(r), 11)
                      /\ highways = Of(r) /\ Exporting(job[r]) = -1 /\ status[Of(r)] # "ready"
    OBVIOUS
  <2>1. job[r].kind = "seed" /\ job[r].at = 11
    BY <1>3 DEF Clean
  <2>2. ctx.of = Of(r)
    BY <1>4 DEF Clean, SeedInv, Scoped
  <2>3. Has(r)
    BY DEF SeedInv, Made
  <2>4. Seeded(Of(r), 11) /\ Exporting(job[r]) = -1
    BY <2>1, <2>3 DEF Has, Exporting
  <2>5. Exported(Of(r), -1)
    BY <2>3, <2>4 DEF Has
  <2>6. highways = Of(r)
    BY <2>4 DEF Seeded
  <2> QED BY <2>1, <2>2, <2>4, <2>5, <2>6 DEF Exported
<1>17. Clean(r)' => Has(r)'
  <2> SUFFICES ASSUME Clean(r)'
               PROVE  Has(r)'
    OBVIOUS
  <2>1. /\ Clean(r) /\ Of(r)' = Of(r) /\ job'[r].kind = job[r].kind /\ job'[r].at = job[r].at + 1
    BY <1>1, <1>4, <1>5, WasClean
  <2>2. job'[r].kind = "seed" /\ job'[r].at = 12
    BY <1>16, <2>1
  <2>3. Seeded(Of(r), job[r].at)'
    BY <1>1, <1>11, <1>12, <1>14, <1>16, <2>1, <2>2 DEF Seeded
  <2>4. Exporting(job[r])' = 0
    BY <2>2 DEF Exporting
  <2>5. Exported(Of(r), Exporting(job[r]))'
    BY <1>1, <1>16, <2>1, <2>4 DEF Exported
  <2> QED BY <2>2, <2>3, <2>5 DEF Has
<1>18. Clean(r) /\ Of(r) \notin marred => Own(Of(r))'
  <2>1. Of(r)' = Of(r)
    BY <1>5 DEF Moves, Of
  <2>2. Of(r) \notin marred => Own(Of(r))
    BY <1>2 DEF SeedInv, RowsAreOwn, Own
  <2> QED BY <1>1, <1>2, <1>11, <1>14, <1>16, <2>1, <2>2 DEF Own
<1>19. \A p \in Projects \ marred : Same(p) \/ (Clean(r) /\ p = Of(r) /\ Exporting(job[r]) <= 4)
  <2>1. ctx.of \in marred \/ (Clean(r) /\ ctx.of = Of(r))
    BY <1>4, Owner
  <2> QED BY <1>1, <1>14, <1>16, <2>1 DEF Same
<1>20. /\ JobsTyped' /\ InDatabase' /\ InTwos' /\ (Met' <=> Met)
       /\ Marks' /\ Scoped' /\ Made' /\ RowsAreOwn' /\ RowsWhole'
  BY <1>1, <1>4, <1>5, <1>6, <1>7, <1>17, <1>18, <1>19, Rewrites
<1>21. RowsTyped'
  <2>1. StagedFor'
    BY <1>1, <1>5, <1>6, StagedKeeps
  <2> QED BY <1>1, <1>14, <2>1 DEF SeedTypeOK, RowsTyped
<1>22. FilesTyped'
  BY <1>1 DEF SeedTypeOK, FilesTyped
<1>23. Listed' /\ FilesWhole' /\ LonerKept' /\ GeneratedBySomeone'
  BY <1>1, <1>5, <1>6, <1>20, RegistryKeeps
<1> QED BY <1>20, <1>21, <1>22, <1>23 DEF SeedInv, SeedTypeOK

LEMMA LoadStep ==
  ASSUME SeedInv, NEW r \in Runs, Load(r)
  PROVE  SeedInv'
<1>1. /\ Active(r) /\ At(r, "load") /\ JobsTyped /\ SeedTypeOK /\ Done(r)
      /\ UNCHANGED <<extract, heights, api, registry, status, ctx, staged, highways, cad, util,
                     faults, marred, cut, silent>>
  BY DEF Load, At, SeedInv, SeedTypeOK, disk, scope, told
<1>2. job[r].kind \in Kinds /\ job[r].at \in 1..Len(Steps(job[r].kind)) /\ Of(r) \in Projects
  BY <1>1, Stands
<1>3. job[r].kind = "import" /\ job[r].at = 2
  BY <1>1, <1>2, Places DEF At, Step
<1>4. job[r].in /\ job[r].at # Len(Steps(job[r].kind))
  <2>1. job[r].in
    BY <1>3 DEF SeedInv, InDatabase, Before
  <2>2. job[r].at # Len(Steps(job[r].kind))
    BY <1>1, <1>2, NotLast DEF At, Step
  <2> QED BY <2>1, <2>2
<1>5. Moves(r) /\ job'[r].at # 0
  <2>1. Moves(r) /\ job'[r].at = job[r].at + 1
    BY <1>1, <1>4, DoneMoves
  <2> QED BY <1>3, <2>1
<1>6. ~At(r, "publish") /\ ~At(r, "stage") /\ ~At(r, "list") /\ ~At(r, "merge") /\ ~At(r, "write")
  BY <1>1 DEF At
<1>7. ctx # Nothing
  BY <1>4 DEF SeedInv, Scoped
<1>8. plots \in [Projects -> Lots \cup {Nothing}]
  BY <1>1 DEF SeedTypeOK, RowsTyped
<1>10. PICK new : new = [roads |-> Nothing, on |-> Nothing, official |-> TRUE, joined |-> Nothing]
  OBVIOUS
<1>11. new \in Lots /\ new.official
  BY <1>10 DEF Lots
<1>12. new # Nothing
  BY <1>11, SeedAssumption
<1>13. plots' = [plots EXCEPT ![Of(r)] = new]
  BY <1>10 DEF Load
<1>14. /\ plots' \in [Projects -> Lots \cup {Nothing}] /\ plots'[Of(r)] = new
       /\ \A p \in Projects \ {Of(r)} : plots'[p] = plots[p]
  BY <1>2, <1>8, <1>11, <1>13
<1>16. Clean(r) => Imported(Of(r), 2) /\ Exporting(job[r]) = -1 /\ status[Of(r)] # "ready"
  <2> SUFFICES ASSUME Clean(r)
               PROVE  Imported(Of(r), 2) /\ Exporting(job[r]) = -1 /\ status[Of(r)] # "ready"
    OBVIOUS
  <2>3. Has(r)
    BY DEF SeedInv, Made
  <2>4. Imported(Of(r), 2) /\ Exporting(job[r]) = -1
    BY <1>3, <2>3 DEF Has, Exporting
  <2>5. Exported(Of(r), -1)
    BY <2>3, <2>4 DEF Has
  <2> QED BY <2>4, <2>5 DEF Exported
<1>17. Clean(r)' => Has(r)'
  <2> SUFFICES ASSUME Clean(r)'
               PROVE  Has(r)'
    OBVIOUS
  <2>1. /\ Clean(r) /\ Of(r)' = Of(r) /\ job'[r].kind = job[r].kind /\ job'[r].at = job[r].at + 1
    BY <1>1, <1>4, <1>5, WasClean
  <2>2. job'[r].kind = "import" /\ job'[r].at = 3
    BY <1>3, <2>1
  <2>3. Imported(Of(r), job[r].at)'
    BY <1>1, <1>11, <1>12, <1>14, <1>16, <2>1, <2>2 DEF Imported
  <2>4. Exporting(job[r])' = 0
    BY <2>2 DEF Exporting
  <2>5. Exported(Of(r), Exporting(job[r]))'
    BY <1>1, <1>16, <2>1, <2>4 DEF Exported
  <2> QED BY <2>2, <2>3, <2>5 DEF Has
<1>18. Clean(r) /\ Of(r) \notin marred => Own(Of(r))'
  <2>1. Of(r)' = Of(r)
    BY <1>5 DEF Moves, Of
  <2>2. Of(r) \notin marred => Own(Of(r))
    BY <1>2 DEF SeedInv, RowsAreOwn, Own
  <2> QED BY <1>1, <1>2, <1>11, <1>14, <2>1, <2>2 DEF Own
<1>19. \A p \in Projects \ marred : Same(p) \/ (Clean(r) /\ p = Of(r) /\ Exporting(job[r]) <= 4)
  <2>1. Of(r) \in marred \/ Clean(r)
    BY <1>4, Owner
  <2> QED BY <1>1, <1>14, <1>16, <2>1 DEF Same
<1>20. /\ JobsTyped' /\ InDatabase' /\ InTwos' /\ (Met' <=> Met)
       /\ Marks' /\ Scoped' /\ Made' /\ RowsAreOwn' /\ RowsWhole'
  BY <1>1, <1>4, <1>5, <1>6, <1>7, <1>17, <1>18, <1>19, Rewrites
<1>21. RowsTyped'
  <2>1. StagedFor'
    BY <1>1, <1>5, <1>6, StagedKeeps
  <2> QED BY <1>1, <1>14, <2>1 DEF SeedTypeOK, RowsTyped
<1>22. FilesTyped'
  BY <1>1 DEF SeedTypeOK, FilesTyped
<1>23. Listed' /\ FilesWhole' /\ LonerKept' /\ GeneratedBySomeone'
  BY <1>1, <1>5, <1>6, <1>20, RegistryKeeps
<1> QED BY <1>20, <1>21, <1>22, <1>23 DEF SeedInv, SeedTypeOK

LEMMA JoinStep ==
  ASSUME SeedInv, NEW r \in Runs, Join(r)
  PROVE  SeedInv'
<1>1. /\ Active(r) /\ At(r, "join") /\ JobsTyped /\ SeedTypeOK
      /\ UNCHANGED <<extract, heights, api, registry, ctx, staged, highways, cad, util,
                     faults, marred, cut, silent>>
  BY DEF Join, At, SeedInv, SeedTypeOK, disk, scope, told
<1>2. job[r].kind \in Kinds /\ job[r].at \in 1..Len(Steps(job[r].kind)) /\ Of(r) \in Projects
  BY <1>1, Stands
<1>3. \/ job[r].kind = "seed" /\ job[r].at = 12
      \/ job[r].kind = "import" /\ job[r].at = 3
      \/ job[r].kind = "survey" /\ job[r].at = 4
  BY <1>1, <1>2, Places DEF At, Step
<1>4. job[r].in
  BY <1>3 DEF SeedInv, InDatabase, Before
<1>5. ctx # Nothing /\ ctx.of \in Projects
  BY <1>4, Owner DEF SeedInv, Scoped
<1>6. ~At(r, "publish") /\ ~At(r, "stage") /\ ~At(r, "list") /\ ~At(r, "merge") /\ ~At(r, "write")
  BY <1>1 DEF At
<1>7. /\ cad \in [Projects -> Cads \cup {Nothing}] /\ plots \in [Projects -> Lots \cup {Nothing}]
  BY <1>1 DEF SeedTypeOK, RowsTyped
<1>8. /\ plots' \in [Projects -> Lots \cup {Nothing}]
      /\ \A p \in Projects \ {ctx.of} : plots'[p] = plots[p]
      /\ plots[ctx.of] # Nothing =>
           /\ plots'[ctx.of] # Nothing /\ plots'[ctx.of].joined = cad[ctx.of]
           /\ plots'[ctx.of].official = plots[ctx.of].official
           /\ plots'[ctx.of].roads = plots[ctx.of].roads /\ plots'[ctx.of].on = plots[ctx.of].on
      /\ plots[ctx.of] = Nothing => plots' = plots
  <2>1. CASE plots[ctx.of] = Nothing
    BY <1>7, <2>1 DEF Join
  <2>2. CASE plots[ctx.of] # Nothing
    <3> DEFINE new == [plots[ctx.of] EXCEPT !.joined = cad[ctx.of]]
    <3>1. plots[ctx.of] \in Lots
      BY <1>5, <1>7, <2>2
    <3>2. /\ new \in Lots /\ new.joined = cad[ctx.of] /\ new.official = plots[ctx.of].official
          /\ new.roads = plots[ctx.of].roads /\ new.on = plots[ctx.of].on
      BY <1>5, <1>7, <3>1 DEF Lots
    <3>3. plots' = [plots EXCEPT ![ctx.of] = new]
      BY <2>2 DEF Join
    <3> HIDE DEF new
    <3>4. new # Nothing
      BY <3>2, SeedAssumption
    <3> QED BY <1>5, <1>7, <2>2, <3>2, <3>3, <3>4
  <2> QED BY <2>1, <2>2
<1>9. Clean(r) => /\ job[r].kind \in {"seed", "import"} /\ ctx.of = Of(r)
                  /\ job[r].kind = "seed" => Seeded(Of(r), 12)
                  /\ job[r].kind = "import" => Imported(Of(r), 3)
                  /\ Exporting(job[r]) = 0 /\ status[Of(r)] # "ready"
  <2> SUFFICES ASSUME Clean(r)
               PROVE  /\ job[r].kind \in {"seed", "import"} /\ ctx.of = Of(r)
                      /\ job[r].kind = "seed" => Seeded(Of(r), 12)
                      /\ job[r].kind = "import" => Imported(Of(r), 3)
                      /\ Exporting(job[r]) = 0 /\ status[Of(r)] # "ready"
    OBVIOUS
  <2>1. job[r].kind \in {"seed", "import"}
    BY DEF Clean
  <2>2. ctx.of = Of(r)
    BY <1>4 DEF Clean, SeedInv, Scoped
  <2>3. Has(r)
    BY DEF SeedInv, Made
  <2>4. Exporting(job[r]) = 0
    BY <1>3, <2>1 DEF Exporting
  <2>5. Exported(Of(r), 0)
    BY <2>3, <2>4 DEF Has
  <2>6. job[r].kind = "seed" => Seeded(Of(r), 12)
    BY <1>3, <2>3 DEF Has
  <2>7. job[r].kind = "import" => Imported(Of(r), 3)
    BY <1>3, <2>3 DEF Has
  <2> QED BY <2>1, <2>2, <2>4, <2>5, <2>6, <2>7 DEF Exported
<1>10. /\ Moves(r)
       /\ \/ status' = status /\ (job[r].kind # "survey" => job'[r].at # 0)
          \/ /\ status' = FailedStatus(r) /\ job'[r].at = 0
             /\ ~(plots[ctx.of] # Nothing /\ (plots[ctx.of].official \/ plots[ctx.of].on # Nothing))
  <2>1. Ends(r) => Moves(r) /\ job'[r].at = 0
    BY <1>1, EndsMoves
  <2>2. Done(r) => Moves(r) /\ job'[r].at = IF job[r].at = Len(Steps(job[r].kind)) THEN 0 ELSE job[r].at + 1
    BY <1>1, DoneMoves
  <2>3. job[r].kind # "survey" => job[r].at # Len(Steps(job[r].kind))
    <3>1. job[r].kind = "seed" => job[r].at # Len(Steps(job[r].kind))
      BY <1>3, StepsSeed
    <3>2. job[r].kind = "import" => job[r].at # Len(Steps(job[r].kind))
      BY <1>3, StepsImport
    <3> QED BY <1>3, <3>1, <3>2
  <2>4. ASSUME Done(r), job[r].kind # "survey"
        PROVE  job'[r].at # 0
    <3>1. job'[r].at = job[r].at + 1
      BY <2>2, <2>3, <2>4
    <3> QED BY <1>3, <3>1
  <2>5. Done(r) => Moves(r)
    BY <2>2
  <2> QED BY <2>1, <2>4, <2>5 DEF Join
<1>11. job[r].kind = "survey" => Of(r) \in marred
  BY <1>4 DEF SeedInv, Marks, Alone
<1>12. /\ status' \in [Projects -> Sts]
       /\ \A p \in Projects : status'[p] \in {status[p], "failed"}
       /\ job'[r].at = 0 => status'[Of(r)] # "generating" \/ Of(r) \in marred
  <2>1. status \in [Projects -> Sts]
    BY <1>1 DEF SeedTypeOK, FilesTyped
  <2>2. status' = status \/ status' = FailedStatus(r)
    BY <1>10
  <2>3. CASE Of(r) \in marred
    BY <1>1, <1>2, <2>1, <2>2, <2>3, Failed
  <2>4. CASE Of(r) \notin marred
    <3>1. Clean(r)
      BY <1>4, <2>4, Owner
    <3>2. CASE job[r].kind = "seed"
      <4>1. job'[r].at = 0 => status' = FailedStatus(r)
        BY <1>10, <3>2
      <4> QED BY <1>1, <1>2, <2>1, <2>2, <3>2, <4>1, Failed
    <3>3. CASE job[r].kind = "import"
      <4>1. plots[Of(r)] # Nothing /\ plots[Of(r)].official
        BY <1>9, <3>1, <3>3 DEF Imported
      <4>2. job'[r].at # 0 /\ status' = status
        BY <1>9, <1>10, <3>1, <3>3, <4>1
      <4> QED BY <2>1, <4>2
    <3> QED BY <1>9, <3>1, <3>2, <3>3
  <2> QED BY <2>3, <2>4
<1>17. Clean(r)' => Has(r)'
  <2> SUFFICES ASSUME Clean(r)'
               PROVE  Has(r)'
    OBVIOUS
  <2>1. /\ Clean(r) /\ Of(r)' = Of(r) /\ job'[r].kind = job[r].kind /\ job'[r].at = job[r].at + 1
    BY <1>1, <1>4, <1>10, WasClean
  <2>2. Exporting(job[r])' = 1
    BY <1>3, <1>9, <2>1 DEF Exporting
  <2>3. status'[Of(r)] # "ready"
    BY <1>2, <1>9, <1>12, <2>1
  <2>4. CASE job[r].kind = "seed"
    <3>1. Seeded(Of(r), 12) /\ job'[r].at = 13 /\ ctx.of = Of(r)
      BY <1>3, <1>9, <2>1, <2>4
    <3>2. Seeded(Of(r), job[r].at)'
      BY <1>1, <1>8, <2>1, <3>1 DEF Seeded
    <3>3. Whole(Of(r))'
      BY <1>1, <1>8, <2>1, <3>1 DEF Whole, Seeded
    <3>4. Exported(Of(r), Exporting(job[r]))'
      BY <2>1, <2>2, <2>3, <3>3 DEF Exported
    <3> QED BY <2>1, <2>4, <3>2, <3>4 DEF Has
  <2>5. CASE job[r].kind = "import"
    <3>1. Imported(Of(r), 3) /\ job'[r].at = 4 /\ ctx.of = Of(r)
      BY <1>3, <1>9, <2>1, <2>5
    <3>2. Imported(Of(r), job[r].at)'
      BY <1>1, <1>8, <2>1, <3>1 DEF Imported
    <3>3. Whole(Of(r))'
      BY <1>1, <1>8, <2>1, <3>1 DEF Whole, Imported
    <3>4. Exported(Of(r), Exporting(job[r]))'
      BY <2>1, <2>2, <2>3, <3>3 DEF Exported
    <3> QED BY <2>1, <2>5, <3>2, <3>4 DEF Has
  <2> QED BY <1>9, <2>1, <2>4, <2>5
<1>18. Clean(r) /\ Of(r) \notin marred => Own(Of(r))'
  <2>1. Of(r)' = Of(r)
    BY <1>10 DEF Moves, Of
  <2>2. Of(r) \notin marred => Own(Of(r))
    BY <1>2 DEF SeedInv, RowsAreOwn, Own
  <2> QED BY <1>1, <1>2, <1>8, <1>9, <2>1, <2>2 DEF Own
<1>19. \A p \in Projects \ marred : Same(p) \/ (Clean(r) /\ p = Of(r) /\ Exporting(job[r]) <= 4)
  <2>1. ctx.of \in marred \/ (Clean(r) /\ ctx.of = Of(r))
    BY <1>4, Owner
  <2> QED BY <1>1, <1>8, <1>9, <2>1 DEF Same
<1>20. /\ JobsTyped' /\ InDatabase' /\ InTwos' /\ (Met' <=> Met)
       /\ Marks' /\ Scoped' /\ Made' /\ RowsAreOwn' /\ RowsWhole'
  BY <1>1, <1>4, <1>5, <1>6, <1>10, <1>12, <1>17, <1>18, <1>19, Rewrites
<1>21. RowsTyped'
  <2>1. StagedFor'
    BY <1>1, <1>6, <1>10, StagedKeeps
  <2> QED BY <1>1, <1>8, <2>1 DEF SeedTypeOK, RowsTyped
<1>22. FilesTyped'
  BY <1>1, <1>12 DEF SeedTypeOK, FilesTyped
<1>23. Listed' /\ FilesWhole' /\ LonerKept' /\ GeneratedBySomeone'
  BY <1>1, <1>6, <1>10, <1>12, <1>20, RegistryKeeps
<1> QED BY <1>20, <1>21, <1>22, <1>23 DEF SeedInv, SeedTypeOK

LEMMA DumpStep ==
  ASSUME SeedInv, NEW r \in Runs, Dump(r)
  PROVE  SeedInv'
<1>1. /\ Active(r) /\ Step(r) \in FileSet /\ JobsTyped /\ SeedTypeOK /\ Done(r)
      /\ UNCHANGED <<extract, heights, registry, status, ctx, staged, highways, cad, util, plots,
                     faults, marred, cut, silent>>
  BY DEF Dump, SeedInv, SeedTypeOK, scope, rows, told
<1>2. job[r].kind \in Kinds /\ job[r].at \in 1..Len(Steps(job[r].kind)) /\ Of(r) \in Projects
  BY <1>1, Stands
<1>3. /\ job[r].in
      /\ ~At(r, "publish") /\ ~At(r, "stage") /\ ~At(r, "list") /\ ~At(r, "merge") /\ ~At(r, "write")
      /\ \/ job[r].kind = "seed" /\ job[r].at \in {14, 15, 16}
         \/ job[r].kind = "import" /\ job[r].at \in {5, 6, 7}
         \/ job[r].kind = "export" /\ job[r].at \in {2, 3, 4}
      /\ Of(r) \in marred \/ (Clean(r) /\ Of(r) \in cut /\ status[Of(r)] # "ready")
  BY <1>1, FileStep
<1>4. job[r].at # Len(Steps(job[r].kind))
  <2>1. job[r].kind \in Kinds /\ job[r].at \in 1..Len(Steps(job[r].kind)) /\ Step(r) \in FileSet
    BY <1>1, Stands DEF Dump, SeedInv, SeedTypeOK
  <2> QED BY <2>1, FileNames, NotLast DEF Step
<1>5. Moves(r) /\ job'[r].at = job[r].at + 1 /\ job'[r].at # 0
  <2>1. Moves(r) /\ job'[r].at = job[r].at + 1
    BY <1>1, <1>4, DoneMoves
  <2> QED BY <1>3, <2>1
<1>6. ctx # Nothing /\ ctx.of \in Projects
  BY <1>3, Owner DEF SeedInv, Scoped
<1>7. api \in [Projects -> [FileSet -> Cads \cup Utils \cup Lots \cup {Nothing, Torn}]]
  BY <1>1 DEF SeedTypeOK, FilesTyped
<1>8. /\ cad \in [Projects -> Cads \cup {Nothing}] /\ util \in [Projects -> Utils \cup {Nothing}]
      /\ plots \in [Projects -> Lots \cup {Nothing}]
  BY <1>1 DEF SeedTypeOK, RowsTyped
<1>9. PICK new : new = Content(Step(r), ctx.of)
  OBVIOUS
<1>10. new \in Cads \cup Utils \cup Lots \cup {Nothing, Torn}
  <2>1. new = cad[ctx.of] \/ new = util[ctx.of] \/ new = plots[ctx.of]
    BY <1>9 DEF Content
  <2> QED BY <1>6, <1>8, <2>1
<1>11. api' = [api EXCEPT ![Of(r)][Step(r)] = new]
  BY <1>9 DEF Dump
<1>12. /\ api' \in [Projects -> [FileSet -> Cads \cup Utils \cup Lots \cup {Nothing, Torn}]]
       /\ \A p \in Projects \ {Of(r)} : api'[p] = api[p]
       /\ api'[Of(r)][Step(r)] = new
       /\ \A f \in FileSet \ {Step(r)} : api'[Of(r)][f] = api[Of(r)][f]
  <2> DEFINE file == [api[Of(r)] EXCEPT ![Step(r)] = new]
  <2>1. api' = [api EXCEPT ![Of(r)] = file]
    BY <1>11
  <2>2. /\ file \in [FileSet -> Cads \cup Utils \cup Lots \cup {Nothing, Torn}]
        /\ file[Step(r)] = new /\ \A f \in FileSet \ {Step(r)} : file[f] = api[Of(r)][f]
    BY <1>1, <1>2, <1>7, <1>10
  <2> HIDE DEF file
  <2> QED BY <1>2, <1>7, <2>1, <2>2
<1>13. Clean(r) => Exporting(job[r]) \in {2, 3, 4} /\ ctx.of = Of(r) /\ Has(r)
  <2> SUFFICES ASSUME Clean(r)
               PROVE  Exporting(job[r]) \in {2, 3, 4} /\ ctx.of = Of(r) /\ Has(r)
    OBVIOUS
  <2>1. job[r].kind \in {"seed", "import"}
    BY DEF Clean
  <2>2. ctx.of = Of(r)
    BY <1>3 DEF Clean, SeedInv, Scoped
  <2>3. Has(r)
    BY DEF SeedInv, Made
  <2>4. Exporting(job[r]) \in {2, 3, 4}
    BY <1>3, <2>1 DEF Exporting
  <2> QED BY <2>2, <2>3, <2>4
<1>17. Clean(r)' => Has(r)'
  <2> SUFFICES ASSUME Clean(r)'
               PROVE  Has(r)'
    OBVIOUS
  <2>1. /\ Clean(r) /\ Has(r) /\ Of(r)' = Of(r) /\ ctx.of = Of(r) /\ job'[r].kind = job[r].kind
        /\ job'[r].at = job[r].at + 1 /\ job[r].kind \in {"seed", "import"}
    BY <1>1, <1>3, <1>5, WasClean DEF Clean
  <2>2. PICK e : e = Exporting(job[r])
    OBVIOUS
  <2>3. e \in {2, 3, 4} /\ Exporting(job[r])' = e + 1
    BY <1>3, <1>13, <2>1, <2>2 DEF Exporting
  <2>4. Exported(Of(r), e)
    BY <2>1, <2>2 DEF Has
  <2>5. Whole(Of(r))' <=> Whole(Of(r))
    BY <1>1, <2>1 DEF Whole
  <2>6. /\ e = 2 => Step(r) = "parcels.json"
        /\ e = 3 => Step(r) = "survey_parcels.json"
        /\ e = 4 => Step(r) = "utilities.json"
    <3>1. CASE job[r].kind = "seed"
      <4>1. job[r].at = e + 12
        BY <1>3, <2>2, <3>1 DEF Exporting
      <4>2. Step(r) = Steps("seed")[e + 12]
        BY <3>1, <4>1 DEF Step
      <4> QED BY <2>3, <4>2, StepsSeed
    <3>2. CASE job[r].kind = "import"
      <4>1. job[r].at = e + 3
        BY <1>3, <2>2, <3>2 DEF Exporting
      <4>2. Step(r) = Steps("import")[e + 3]
        BY <3>2, <4>1 DEF Step
      <4> QED BY <2>3, <4>2, StepsImport
    <3> QED BY <2>1, <3>1, <3>2
  <2>7. /\ e = 2 => api'[Of(r)]["parcels.json"] = cad[Of(r)]
        /\ e = 3 => /\ api'[Of(r)]["survey_parcels.json"] = plots[Of(r)]
                    /\ api'[Of(r)]["parcels.json"] = api[Of(r)]["parcels.json"]
        /\ e = 4 => /\ api'[Of(r)]["utilities.json"] = util[Of(r)]
                    /\ api'[Of(r)]["parcels.json"] = api[Of(r)]["parcels.json"]
                    /\ api'[Of(r)]["survey_parcels.json"] = api[Of(r)]["survey_parcels.json"]
    BY <1>9, <1>12, <2>1, <2>6, FileNames DEF Content
  <2>8. Exported(Of(r), Exporting(job[r]))'
    <3>1. CASE e = 2
      BY <1>1, <2>1, <2>3, <2>4, <2>5, <2>7, <3>1 DEF Exported
    <3>2. CASE e = 3
      BY <1>1, <2>1, <2>3, <2>4, <2>5, <2>7, <3>2 DEF Exported
    <3>3. CASE e = 4
      BY <1>1, <2>1, <2>3, <2>4, <2>5, <2>7, <3>3 DEF Exported
    <3> QED BY <2>3, <3>1, <3>2, <3>3
  <2>9. CASE job[r].kind = "seed"
    <3>1. Seeded(Of(r), job[r].at) /\ job[r].at \in {14, 15, 16}
      BY <1>3, <2>1, <2>9 DEF Has
    <3>2. Seeded(Of(r), job[r].at)'
      BY <1>1, <2>1, <3>1 DEF Seeded
    <3> QED BY <2>1, <2>8, <2>9, <3>2 DEF Has
  <2>10. CASE job[r].kind = "import"
    <3>1. Imported(Of(r), job[r].at) /\ job[r].at \in {5, 6, 7}
      BY <1>3, <2>1, <2>10 DEF Has
    <3>2. Imported(Of(r), job[r].at)'
      BY <1>1, <2>1, <3>1 DEF Imported
    <3> QED BY <2>1, <2>8, <2>10, <3>2 DEF Has
  <2> QED BY <2>1, <2>9, <2>10
<1>18. Clean(r) /\ Of(r) \notin marred => Own(Of(r))'
  <2>1. Of(r)' = Of(r)
    BY <1>5 DEF Moves, Of
  <2>2. Of(r) \notin marred => Own(Of(r))
    BY <1>2 DEF SeedInv, RowsAreOwn, Own
  <2> QED BY <1>1, <2>1, <2>2 DEF Own
<1>19. \A p \in Projects \ marred : Same(p) \/ (Clean(r) /\ p = Of(r) /\ Exporting(job[r]) <= 4)
  BY <1>1, <1>3, <1>12, <1>13 DEF Same
<1>20. /\ JobsTyped' /\ InDatabase' /\ InTwos' /\ (Met' <=> Met)
       /\ Marks' /\ Scoped' /\ Made' /\ RowsAreOwn' /\ RowsWhole'
  BY <1>1, <1>3, <1>5, <1>6, <1>17, <1>18, <1>19, Rewrites
<1>21. RowsTyped'
  <2>1. StagedFor'
    BY <1>1, <1>3, <1>5, StagedKeeps
  <2> QED BY <1>1, <2>1 DEF SeedTypeOK, RowsTyped
<1>22. FilesTyped'
  BY <1>1, <1>12 DEF SeedTypeOK, FilesTyped
<1>23. Listed' /\ FilesWhole' /\ LonerKept' /\ GeneratedBySomeone'
  <2>1. \A p \in Projects \ (marred \cup cut) : api'[p] = api[p]
    BY <1>3, <1>12
  <2> QED BY <1>1, <1>3, <1>5, <1>20, <2>1, RegistryKeeps
<1> QED BY <1>20, <1>21, <1>22, <1>23 DEF SeedInv, SeedTypeOK

-----------------------------------------------------------------------------
(* A run enters the database *)

LEMMA MetGives ==
  ASSUME NEW j \in Jobs, NEW m \in BOOLEAN, NEW next, next = [j EXCEPT !.met = m]
  PROVE  /\ next \in Jobs /\ next.of = j.of /\ next.kind = j.kind /\ next.listed = j.listed
         /\ next.at = j.at /\ (next.in <=> j.in) /\ (next.met <=> m)
BY DEF Jobs

LEMMA EntersGives ==
  ASSUME NEW j \in Jobs, NEW next, next = [j EXCEPT !.at = j.at + 1, !.in = TRUE]
  PROVE  /\ next \in Jobs /\ next.of = j.of /\ next.kind = j.kind /\ next.listed = j.listed
         /\ next.at = j.at + 1 /\ next.in
<1> DEFINE on == [j EXCEPT !.at = j.at + 1]
<1>1. next = [on EXCEPT !.in = TRUE]
  OBVIOUS
<1>2. on \in Jobs /\ on.of = j.of /\ on.kind = j.kind /\ on.listed = j.listed /\ on.at = j.at + 1
  BY DEF Jobs
<1> HIDE DEF on
<1> QED BY <1>1, <1>2 DEF Jobs

\* Who is in the database beside r, and r itself if there is anybody.
Meeting(r) ==
  LET others == {s \in Runs \ {r} : job[s].in}
  IN IF others = {} THEN {} ELSE others \cup {r}

LEMMA MeetingIs ==
  ASSUME NEW r \in Runs
  PROVE  /\ Meeting(r) \subseteq Runs
         /\ \A s \in Runs \ {r} : job[s].in => s \in Meeting(r) /\ r \in Meeting(r)
         /\ \A s \in Meeting(r) \ {r} : job[s].in
         /\ r \in Meeting(r) => \E s \in Runs \ {r} : job[s].in
BY DEF Meeting

LEMMA BesideGives ==
  ASSUME JobsTyped, NEW r \in Runs, Active(r), Beside(r)
  PROVE  /\ job' \in [Runs -> Jobs]
         /\ \A s \in Runs \ {r} :
              /\ job'[s].of = job[s].of /\ job'[s].kind = job[s].kind
              /\ job'[s].at = job[s].at /\ job'[s].listed = job[s].listed
              /\ job'[s].in <=> job[s].in
              /\ job'[s].met <=> job[s].met \/ s \in Meeting(r)
         /\ job'[r].of = job[r].of /\ job'[r].kind = job[r].kind /\ job'[r].at = job[r].at + 1
         /\ job'[r].in /\ (job'[r].met <=> job[r].met \/ r \in Meeting(r))
         /\ marred' = marred \cup {Of(s) : s \in Meeting(r)} \cup (IF Patches(r) THEN {Of(r)} ELSE {})
<1> DEFINE met(s) == job[s].met \/ s \in Meeting(r)
           then(s) == IF s = r THEN [job[r] EXCEPT !.at = job[r].at + 1, !.in = TRUE, !.met = met(s)]
                      ELSE [job[s] EXCEPT !.met = met(s)]
<1>1. /\ job' = [s \in Runs |-> then(s)]
      /\ marred' = marred \cup {Of(s) : s \in Meeting(r)} \cup (IF Patches(r) THEN {Of(r)} ELSE {})
  BY Zenon DEF Beside, Meeting
<1>2. \A s \in Runs : job[s] \in Jobs
  BY DEF JobsTyped
<1>3. \A s \in Runs : met(s) \in BOOLEAN
  OBVIOUS
<1>4. ASSUME NEW s \in Runs \ {r}
      PROVE  /\ then(s) \in Jobs /\ then(s).of = job[s].of /\ then(s).kind = job[s].kind
             /\ then(s).at = job[s].at /\ then(s).listed = job[s].listed
             /\ then(s).in <=> job[s].in
             /\ then(s).met <=> met(s)
  <2>1. then(s) = [job[s] EXCEPT !.met = met(s)]
    OBVIOUS
  <2>2. job[s] \in Jobs /\ met(s) \in BOOLEAN
    BY <1>2, <1>3
  <2> HIDE DEF then, met
  <2> QED BY <2>1, <2>2, MetGives
<1>5. /\ then(r) \in Jobs /\ then(r).of = job[r].of /\ then(r).kind = job[r].kind
      /\ then(r).at = job[r].at + 1 /\ then(r).in /\ (then(r).met <=> met(r))
  <2> DEFINE within == [job[r] EXCEPT !.at = job[r].at + 1, !.in = TRUE]
  <2>1. then(r) = [within EXCEPT !.met = met(r)]
    OBVIOUS
  <2>2. job[r] \in Jobs /\ met(r) \in BOOLEAN
    BY <1>2, <1>3
  <2> HIDE DEF then, met
  <2>3. /\ within \in Jobs /\ within.of = job[r].of /\ within.kind = job[r].kind
        /\ within.at = job[r].at + 1 /\ within.in
    BY <2>2, EntersGives
  <2> HIDE DEF within
  <2> QED BY <2>1, <2>2, <2>3, MetGives
<1>6. \A s \in Runs : met(s) <=> job[s].met \/ s \in Meeting(r)
  OBVIOUS
<1> HIDE DEF then, met
<1>7. job' \in [Runs -> Jobs]
  BY <1>1, <1>4, <1>5
<1>8. \A s \in Runs : job'[s] = then(s)
  BY <1>1
<1> QED BY <1>1, <1>4, <1>5, <1>6, <1>7, <1>8

LEMMA PublishStep ==
  ASSUME SeedInv, NEW r \in Runs, Publish(r)
  PROVE  SeedInv'
<1>1. /\ Active(r) /\ At(r, "publish") /\ JobsTyped /\ SeedTypeOK /\ Beside(r)
      /\ UNCHANGED <<extract, heights, api, registry, staged, highways, cad, util, plots,
                     faults, silent>>
      /\ status' = [status EXCEPT ![Of(r)] = "generating"]
      /\ ctx' = Scope(r)
      /\ cut' = IF Following(r) = Files[1] THEN cut \cup {Of(r)} ELSE cut
  BY DEF Publish, At, SeedInv, SeedTypeOK, disk, rows
<1>2. job[r].kind \in Kinds /\ job[r].at \in 1..Len(Steps(job[r].kind)) /\ Of(r) \in Projects
      /\ job[r].at \in Nat
  BY <1>1, Stands, Lengths
<1>3. \/ job[r].kind = "seed" /\ job[r].at \in {3, 7, 9, 13}
      \/ job[r].kind = "import" /\ job[r].at \in {1, 4}
      \/ job[r].kind \in Alone /\ job[r].at = 1
  BY <1>1, <1>2, Places DEF At, Step, Alone
<1>4. job[r].at + 1 <= Len(Steps(job[r].kind))
  <2>1. CASE job[r].kind = "seed"
    <3>1. job[r].at \in {3, 7, 9, 13}
      BY <1>3, <2>1 DEF Alone
    <3>2. Len(Steps(job[r].kind)) = 20
      BY <2>1, StepsSeed
    <3>3. job[r].at + 1 <= 20
      BY <3>1
    <3> QED BY <3>2, <3>3
  <2>2. CASE job[r].kind = "import"
    <3>1. job[r].at \in {1, 4}
      BY <1>3, <2>2 DEF Alone
    <3>2. Len(Steps(job[r].kind)) = 11
      BY <2>2, StepsImport
    <3>3. job[r].at + 1 <= 11
      BY <3>1
    <3> QED BY <3>2, <3>3
  <2>3. CASE job[r].kind \in Alone
    <3>1. job[r].at = 1
      BY <1>3, <2>3 DEF Alone
    <3> QED BY <2>3, <3>1, StepsCadastre, StepsUtilities, StepsSurvey, StepsExport DEF Alone
  <2> QED BY <1>3, <2>1, <2>2, <2>3
<1>5. /\ job' \in [Runs -> Jobs]
      /\ \A s \in Runs \ {r} :
           /\ job'[s].of = job[s].of /\ job'[s].kind = job[s].kind
           /\ job'[s].at = job[s].at /\ job'[s].listed = job[s].listed
           /\ job'[s].in <=> job[s].in
           /\ job'[s].met <=> job[s].met \/ s \in Meeting(r)
      /\ job'[r].of = job[r].of /\ job'[r].kind = job[r].kind /\ job'[r].at = job[r].at + 1
      /\ job'[r].in /\ (job'[r].met <=> job[r].met \/ r \in Meeting(r))
      /\ marred' = marred \cup {Of(s) : s \in Meeting(r)} \cup (IF Patches(r) THEN {Of(r)} ELSE {})
  BY <1>1, BesideGives
<1>6. /\ Meeting(r) \subseteq Runs
      /\ \A s \in Runs \ {r} : job[s].in => s \in Meeting(r) /\ r \in Meeting(r)
      /\ \A s \in Meeting(r) \ {r} : job[s].in
      /\ r \in Meeting(r) => \E s \in Runs \ {r} : job[s].in
  BY MeetingIs
<1>7. \A s \in Runs : Of(s)' = Of(s)
  BY <1>5 DEF Of
<1>8. \A s \in Runs : job[s].in => Active(s) /\ Of(s) \in Projects
  BY <1>1, Stands DEF SeedInv, InDatabase, Before, Active
<1>9. /\ marred \subseteq marred' /\ cut \subseteq cut'
      /\ \A s \in Meeting(r) : Of(s) \in marred'
      /\ Patches(r) => Of(r) \in marred'
  BY <1>1, <1>5
<1>10. marred' \subseteq Projects /\ cut' \subseteq Projects
  <2>1. marred \subseteq Projects /\ cut \subseteq Projects
    BY <1>1 DEF SeedTypeOK, FilesTyped
  <2>2. \A s \in Meeting(r) : Of(s) \in Projects
    BY <1>2, <1>6, <1>8
  <2> QED BY <1>1, <1>2, <1>5, <2>1, <2>2
<1>11. /\ status' \in [Projects -> Sts] /\ status'[Of(r)] = "generating"
       /\ \A p \in Projects \ {Of(r)} : status'[p] = status[p]
  <2>1. status \in [Projects -> Sts]
    BY <1>1 DEF SeedTypeOK, FilesTyped
  <2> QED BY <1>1, <1>2, <2>1 DEF Sts
<1>12. JobsTyped'
  <2> SUFFICES ASSUME NEW s \in Runs, job'[s].at # 0
               PROVE  /\ job'[s].of \in Projects /\ job'[s].kind \in Kinds
                      /\ job'[s].at \in 1..Len(Steps(job'[s].kind))
    BY <1>5 DEF JobsTyped, Active, Of
  <2>1. CASE s = r
    <3>1. job[r].at + 1 \in 1..Len(Steps(job[r].kind))
      BY <1>2, <1>4, Lengths
    <3> QED BY <1>2, <1>5, <2>1, <3>1 DEF Of
  <2>2. CASE s # r
    <3>1. Active(s)
      BY <1>5, <2>2 DEF Active
    <3>2. job[s].of \in Projects /\ job[s].kind \in Kinds /\ job[s].at \in 1..Len(Steps(job[s].kind))
      BY <1>1, <3>1, Stands DEF Of
    <3> QED BY <1>5, <2>2, <3>2
  <2> QED BY <2>1, <2>2
<1>13. RowsTyped'
  <2>1. RowsTyped
    BY <1>1 DEF SeedTypeOK
  <2>2. ASSUME NEW s \in Runs
        PROVE  /\ job'[s].kind = "seed" /\ job'[s].at \in {5, 6} => staged.of \in Projects
               /\ job'[s].kind = "cadastre" /\ job'[s].at \in {3, 4} => staged.of \in Projects
    <3>1. CASE s # r
      BY <1>5, <2>1, <3>1 DEF RowsTyped, StagedFor
    <3>2. CASE s = r
      BY <1>3, <1>5, <3>2 DEF Alone
    <3> QED BY <3>1, <3>2
  <2>3. ctx' \in Scopes
    BY <1>1, <1>2 DEF Scope, Scopes
  <2> QED BY <1>1, <2>1, <2>2, <2>3 DEF RowsTyped, StagedFor
<1>14. FilesTyped'
  BY <1>1, <1>10, <1>11 DEF SeedTypeOK, FilesTyped
<1>15. InDatabase'
  <2> SUFFICES ASSUME NEW s \in Runs
               PROVE  /\ job'[s].in <=> job'[s].at > Before(job'[s].kind)
                      /\ job'[s].at # 0 /\ job'[s].met => job'[s].in
    BY DEF InDatabase, Active
  <2>1. CASE s = r
    <3>1. job[r].at + 1 > Before(job[r].kind)
      BY <1>3 DEF Before, Alone
    <3> QED BY <1>5, <2>1, <3>1
  <2>2. CASE s # r
    <3>1. (job[s].in <=> job[s].at > Before(job[s].kind)) /\ (job[s].at # 0 /\ job[s].met => job[s].in)
      BY DEF SeedInv, InDatabase, Active
    <3>2. s \in Meeting(r) => job[s].in
      BY <1>6, <2>2
    <3> QED BY <1>5, <2>2, <3>1, <3>2
  <2> QED BY <2>1, <2>2
<1>16. InTwos'
  <2> SUFFICES ASSUME NEW s \in Runs, NEW t \in Runs, s # t, job'[s].in, job'[t].in
               PROVE  job'[s].met
    BY DEF InTwos
  <2>1. CASE s = r
    BY <1>5, <1>6, <2>1
  <2>2. CASE s # r
    BY <1>5, <1>6, <2>2
  <2> QED BY <2>1, <2>2
<1>17. Met => Met'
  BY <1>5 DEF Met
<1>18. Marks'
  <2> SUFFICES ASSUME NEW s \in Runs, job'[s].in, job'[s].met \/ job'[s].kind \in Alone
               PROVE  Of(s) \in marred'
    BY <1>7 DEF Marks
  <2>1. CASE s = r
    <3>1. job[r].kind \in Alone => Of(r) \in marred'
      BY <1>9 DEF Patches
    <3>2. job[r].met => Of(r) \in marred
      BY <1>1 DEF SeedInv, InDatabase, Marks
    <3>3. r \in Meeting(r) => Of(r) \in marred'
      BY <1>9
    <3> QED BY <1>5, <1>9, <2>1, <3>1, <3>2, <3>3
  <2>2. CASE s # r
    <3>1. job[s].in
      BY <1>5, <2>2
    <3>2. job[s].met \/ job[s].kind \in Alone => Of(s) \in marred
      BY <3>1 DEF SeedInv, Marks
    <3>3. s \in Meeting(r)
      BY <1>6, <2>2, <3>1
    <3> QED BY <1>9, <3>3
  <2> QED BY <2>1, <2>2
<1>19. Scoped'
  <2>1. ctx' # Nothing /\ ctx'.of = Of(r)
    <3>1. ctx' \in Scopes /\ ctx'.of = Of(r)
      BY <1>1, <1>2 DEF Scope, Scopes
    <3> QED BY <3>1, SeedAssumption
  <2> SUFFICES ASSUME NEW s \in Runs, job'[s].in
               PROVE  ctx'.of = Of(s) \/ (job'[s].met /\ ctx'.of \in marred')
    BY <1>7, <2>1 DEF Scoped
  <2>2. CASE s # r
    <3>1. s \in Meeting(r) /\ r \in Meeting(r)
      BY <1>5, <1>6, <2>2
    <3> QED BY <1>5, <1>9, <2>1, <2>2, <3>1
  <2>3. CASE s = r
    BY <2>1, <2>3
  <2> QED BY <2>2, <2>3
<1>20. Made'
  <2> SUFFICES ASSUME NEW s \in Runs, Clean(s)'
               PROVE  Has(s)'
    BY DEF Made
  <2>1. CASE s # r
    <3>1. s \in Meeting(r)
      BY <1>5, <1>6, <2>1 DEF Clean
    <3>2. job'[s].met
      BY <1>5, <2>1, <3>1
    <3> QED BY <3>2 DEF Clean
  <2>2. CASE s = r
    <3>1. ~job[r].met /\ Of(r)' = Of(r) /\ ~(job[r].kind = "import" /\ Of(r) \in marred')
          /\ job[r].kind \in {"seed", "import"}
      BY <1>5, <1>7, <2>2 DEF Clean
    <3>2. job[r].in => Clean(r)
      BY <1>9, <3>1 DEF Clean
    <3>3. Clean(r) => Has(r)
      BY DEF SeedInv, Made
    <3>4. Whole(Of(r))' <=> Whole(Of(r))
      BY <1>1, <3>1 DEF Whole
    <3>5. CASE job[r].kind = "seed"
      <4>1. job[r].at \in {3, 7, 9, 13}
        BY <1>3, <3>5 DEF Alone
      <4>2. job[r].at # 3 => job[r].in
        BY <3>5, <4>1 DEF SeedInv, InDatabase, Before
      <4>3. job[r].at # 3 => Seeded(Of(r), job[r].at) /\ Exported(Of(r), job[r].at - 12)
        BY <3>2, <3>3, <3>5, <4>2 DEF Has, Exporting
      <4>4. Seeded(Of(r), job[r].at)'
        BY <1>1, <1>5, <3>1, <4>1, <4>3 DEF Seeded
      <4>5. Exporting(job[r])' = job[r].at - 11
        BY <1>5, <3>5, <4>1 DEF Exporting
      <4>6. Exported(Of(r), Exporting(job[r]))'
        <5>1. CASE job[r].at = 13
          <6>1. Of(r) \in cut'
            <7>1. Following(r) = "parcels.json"
              BY <3>5, <5>1, StepsSeed DEF Following
            <7>2. Files[1] = "parcels.json"
              BY DEF Files
            <7> QED BY <1>1, <7>1, <7>2
          <6>2. Whole(Of(r))
            BY <4>3, <5>1 DEF Exported
          <6>3. Exporting(job[r])' = 2
            BY <4>5, <5>1
          <6> QED BY <1>11, <3>1, <3>4, <6>1, <6>2, <6>3 DEF Exported
        <5>2. CASE job[r].at # 13
          <6>1. Exporting(job[r])' \in {-8, -4, -2}
            BY <4>1, <4>5, <5>2
          <6> QED BY <1>11, <3>1, <6>1 DEF Exported
        <5> QED BY <5>1, <5>2
      <4> QED BY <1>5, <2>2, <3>5, <4>4, <4>6 DEF Has
    <3>6. CASE job[r].kind = "import"
      <4>1. job[r].at \in {1, 4} /\ Of(r) \notin marred' /\ Of(r) \notin marred
        BY <1>3, <1>9, <3>1, <3>6 DEF Alone
      <4>2. CASE job[r].at = 1
        <5>1. status[Of(r)] = "ready"
          BY <1>9, <3>6, <4>1, <4>2 DEF Patches
        <5>2. Whole(Of(r))
          BY <1>2, <4>1, <5>1 DEF SeedInv, RowsWhole
        <5>3. Imported(Of(r), job[r].at)'
          BY <1>1, <1>5, <3>1, <4>2, <5>2 DEF Imported, Whole
        <5>4. Exporting(job[r])' = -1
          BY <1>5, <3>6, <4>2 DEF Exporting
        <5>5. Exported(Of(r), Exporting(job[r]))'
          BY <1>11, <3>1, <5>4 DEF Exported
        <5> QED BY <1>5, <2>2, <3>6, <5>3, <5>5 DEF Has
      <4>3. CASE job[r].at = 4
        <5>1. job[r].in
          BY <3>6, <4>3 DEF SeedInv, InDatabase, Before
        <5>2. Imported(Of(r), 4) /\ Exported(Of(r), 1)
          BY <3>2, <3>3, <3>6, <4>3, <5>1 DEF Has, Exporting
        <5>3. Imported(Of(r), job[r].at)'
          BY <1>1, <1>5, <3>1, <4>3, <5>2 DEF Imported
        <5>4. Exporting(job[r])' = 2
          BY <1>5, <3>6, <4>3 DEF Exporting
        <5>5. Whole(Of(r))
          BY <5>2 DEF Exported
        <5>6. Of(r) \in cut'
          <6>1. Following(r) = "parcels.json"
            BY <3>6, <4>3, StepsImport DEF Following
          <6>2. Files[1] = "parcels.json"
            BY DEF Files
          <6> QED BY <1>1, <6>1, <6>2
        <5>7. Exported(Of(r), Exporting(job[r]))'
          BY <1>11, <3>1, <3>4, <5>4, <5>5, <5>6 DEF Exported
        <5> QED BY <1>5, <2>2, <3>6, <5>3, <5>7 DEF Has
      <4> QED BY <4>1, <4>2, <4>3
    <3> QED BY <3>1, <3>5, <3>6
  <2> QED BY <2>1, <2>2
<1>21. RowsAreOwn'
  BY <1>1, <1>9 DEF SeedInv, RowsAreOwn
<1>22. RowsWhole'
  <2> SUFFICES ASSUME NEW p \in Projects \ marred', status'[p] = "ready"
               PROVE  Whole(p)' /\ \A f \in FileSet : api'[p][f] = Content(f, p)'
    BY DEF RowsWhole
  <2>1. p \in Projects \ marred /\ status[p] = "ready"
    BY <1>9, <1>11
  <2>2. Whole(p) /\ \A f \in FileSet : api[p][f] = Content(f, p)
    BY <2>1 DEF SeedInv, RowsWhole
  <2>3. \A f \in FileSet : Content(f, p)' = Content(f, p)
    BY <1>1 DEF Content
  <2>4. Whole(p)'
    BY <1>1, <2>2 DEF Whole
  <2> QED BY <1>1, <2>2, <2>3, <2>4
<1>23. ~At(r, "list") /\ ~At(r, "merge") /\ ~At(r, "write")
  BY <1>1 DEF At
<1>24. ~At(r, "merge")' /\ ~At(r, "write")'
  BY <1>1, <1>4, <1>5, <1>23, Successor
<1>25. Others(r)
  BY <1>5 DEF Others
<1>26. Listed'
  BY <1>1, <1>9, <1>24, <1>25, ListedKeeps
<1>27. FilesWhole'
  BY <1>1, <1>9, FilesKeep DEF SeedInv
<1>28. LonerKept'
  BY <1>1, <1>17, <1>23, <1>24, <1>25, LonerKeeps
<1>29. GeneratedBySomeone'
  <2>1. job'[r].at # 0
    BY <1>2, <1>5
  <2> QED BY <1>1, <1>5, <1>9, <1>11, <1>25, <2>1, GeneratedKeeps
<1> QED BY <1>12, <1>13, <1>14, <1>15, <1>16, <1>18, <1>19, <1>20, <1>21, <1>22, <1>26, <1>27,
           <1>28, <1>29 DEF SeedInv, SeedTypeOK

LEMMA ReadyStep ==
  ASSUME SeedInv, NEW r \in Runs, Ready(r)
  PROVE  SeedInv'
<1>1. /\ Active(r) /\ At(r, "ready") /\ JobsTyped /\ SeedTypeOK /\ Done(r)
      /\ UNCHANGED <<extract, heights, api, registry, ctx, staged, highways, cad, util, plots, faults>>
      /\ status' = [status EXCEPT ![Of(r)] = "ready"]
      /\ cut' = cut \ {Of(r)} /\ silent' = silent \ {Of(r)}
  BY DEF Ready, At, SeedInv, SeedTypeOK, disk, scope, rows
<1>2. job[r].kind \in Kinds /\ job[r].at \in 1..Len(Steps(job[r].kind)) /\ Of(r) \in Projects
  BY <1>1, Stands
<1>3. \/ job[r].kind = "seed" /\ job[r].at = 17
      \/ job[r].kind = "import" /\ job[r].at = 8
      \/ job[r].kind = "export" /\ job[r].at = 5
  BY <1>1, <1>2, Places DEF At, Step
<1>4. job[r].in
  BY <1>3 DEF SeedInv, InDatabase, Before
<1>5. job[r].at # Len(Steps(job[r].kind))
  <2>1. CASE job[r].kind = "seed"
    BY <1>3, <2>1, StepsSeed
  <2>2. CASE job[r].kind = "import"
    BY <1>3, <2>2, StepsImport
  <2>3. CASE job[r].kind = "export"
    BY <1>3, <2>3, StepsExport
  <2> QED BY <1>3, <2>1, <2>2, <2>3
<1>6. Moves(r) /\ job'[r].at = job[r].at + 1 /\ job'[r].at # 0
  <2>1. Moves(r) /\ job'[r].at = job[r].at + 1
    BY <1>1, <1>5, DoneMoves
  <2> QED BY <1>3, <2>1
<1>7. /\ marred' \subseteq marred
      /\ \/ marred' = marred
         \/ marred' = marred \ {Of(r)} /\ job[r].kind = "seed" /\ ~job[r].met
  BY DEF Ready
<1>8. \A s \in Runs : Of(s)' = Of(s)
  BY <1>6 DEF Moves, Of
<1>9. \A s \in Runs \ {r} : job'[s] = job[s] /\ (job[s].in => job[s].met /\ job[r].met)
  BY <1>4, <1>6 DEF Moves, SeedInv, InTwos
<1>10. /\ status' \in [Projects -> Sts] /\ status'[Of(r)] = "ready"
       /\ \A p \in Projects \ {Of(r)} : status'[p] = status[p]
  <2>1. status \in [Projects -> Sts]
    BY <1>1 DEF SeedTypeOK, FilesTyped
  <2> QED BY <1>1, <1>2, <2>1 DEF Sts
<1>11. Of(r) \notin marred' => Clean(r)
  <2>1. Of(r) \notin marred => Clean(r)
    BY <1>4, Owner
  <2> QED BY <1>4, <1>7, <2>1 DEF Clean
<1>12. Clean(r) =>
         /\ job[r].kind \in {"seed", "import"} /\ Exporting(job[r]) = 5 /\ Whole(Of(r))
         /\ api[Of(r)]["parcels.json"] = cad[Of(r)] /\ api[Of(r)]["survey_parcels.json"] = plots[Of(r)]
         /\ api[Of(r)]["utilities.json"] = util[Of(r)]
         /\ job[r].kind = "seed" => Seeded(Of(r), 17)
         /\ job[r].kind = "import" => Imported(Of(r), 8)
  <2> SUFFICES ASSUME Clean(r)
               PROVE  /\ job[r].kind \in {"seed", "import"} /\ Exporting(job[r]) = 5 /\ Whole(Of(r))
                      /\ api[Of(r)]["parcels.json"] = cad[Of(r)]
                      /\ api[Of(r)]["survey_parcels.json"] = plots[Of(r)]
                      /\ api[Of(r)]["utilities.json"] = util[Of(r)]
                      /\ job[r].kind = "seed" => Seeded(Of(r), 17)
                      /\ job[r].kind = "import" => Imported(Of(r), 8)
    OBVIOUS
  <2>1. job[r].kind \in {"seed", "import"}
    BY DEF Clean
  <2>2. Has(r)
    BY DEF SeedInv, Made
  <2>3. Exporting(job[r]) = 5
    BY <1>3, <2>1 DEF Exporting
  <2>4. Exported(Of(r), 5)
    BY <2>2, <2>3 DEF Has
  <2>5. job[r].kind = "seed" => Seeded(Of(r), 17)
    BY <1>3, <2>2 DEF Has
  <2>6. job[r].kind = "import" => Imported(Of(r), 8)
    BY <1>3, <2>2 DEF Has
  <2> QED BY <2>1, <2>3, <2>4, <2>5, <2>6 DEF Exported
<1>13. Of(r) \notin marred' => \A f \in FileSet : api[Of(r)][f] = Content(f, Of(r))
  <2> SUFFICES ASSUME Of(r) \notin marred', NEW f \in FileSet
               PROVE  api[Of(r)][f] = Content(f, Of(r))
    OBVIOUS
  <2> QED BY <1>11, <1>12, FileNames DEF Content
<1>14. Of(r) \notin marred' => Filed(Of(r))
  <2> SUFFICES ASSUME Of(r) \notin marred'
               PROVE  Filed(Of(r))
    OBVIOUS
  <2>1. Whole(Of(r))
    BY <1>11, <1>12
  <2>2. /\ cad[Of(r)] \in Cads /\ util[Of(r)] \in Utils /\ plots[Of(r)] \in Lots
        /\ util[Of(r)].on = cad[Of(r)]
    BY <1>1, <1>2, <2>1 DEF Whole, SeedTypeOK, RowsTyped
  <2>3. /\ cad[Of(r)] \notin {Nothing, Torn} /\ util[Of(r)] \notin {Nothing, Torn}
        /\ plots[Of(r)] \notin {Nothing, Torn}
    BY <2>2, SeedAssumption
  <2>4. /\ api[Of(r)]["parcels.json"] = cad[Of(r)]
        /\ api[Of(r)]["survey_parcels.json"] = plots[Of(r)]
        /\ api[Of(r)]["utilities.json"] = util[Of(r)]
    BY <1>11, <1>12
  <2>5. \A f \in FileSet : api[Of(r)][f] \notin {Nothing, Torn}
    BY <2>3, <2>4, FileNames
  <2>6. api[Of(r)]["utilities.json"].on = api[Of(r)]["parcels.json"]
    BY <2>2, <2>4
  <2> QED BY <2>5, <2>6 DEF Filed
<1>15. ~At(r, "publish") /\ ~At(r, "stage") /\ ~At(r, "list") /\ ~At(r, "merge") /\ ~At(r, "write")
  BY <1>1 DEF At
<1>16. ~At(r, "merge")' /\ ~At(r, "write")'
  BY <1>1, <1>6, <1>15, Predecessor
<1>17. JobsTyped' /\ InDatabase' /\ InTwos' /\ (Met' <=> Met)
  BY <1>1, <1>6, <1>15, MovesKeep DEF SeedInv, SeedTypeOK
<1>18. RowsTyped'
  <2>1. StagedFor'
    BY <1>1, <1>6, <1>15, StagedKeeps
  <2> QED BY <1>1, <2>1 DEF SeedTypeOK, RowsTyped
<1>19. FilesTyped'
  BY <1>1, <1>7, <1>10 DEF SeedTypeOK, FilesTyped
<1>20. Marks'
  <2> SUFFICES ASSUME NEW s \in Runs, job'[s].in, job'[s].met \/ job'[s].kind \in Alone
               PROVE  Of(s) \in marred'
    BY <1>8 DEF Marks
  <2>1. job'[s].in = job[s].in /\ job'[s].met = job[s].met /\ job'[s].kind = job[s].kind
    BY <1>4, <1>6 DEF Moves
  <2>2. Of(s) \in marred
    BY <2>1 DEF SeedInv, Marks
  <2>3. CASE marred' = marred
    BY <2>2, <2>3
  <2>4. CASE marred' = marred \ {Of(r)} /\ job[r].kind = "seed" /\ ~job[r].met
    BY <1>9, <2>1, <2>4 DEF Alone
  <2> QED BY <1>7, <2>3, <2>4
<1>21. Scoped'
  <2> SUFFICES ASSUME NEW s \in Runs, job'[s].in
               PROVE  ctx # Nothing /\ (ctx.of = Of(s) \/ (job'[s].met /\ ctx.of \in marred'))
    BY <1>1, <1>8 DEF Scoped
  <2>1. job[s].in /\ job'[s].met = job[s].met
    BY <1>4, <1>6 DEF Moves
  <2>2. ctx # Nothing /\ (ctx.of = Of(s) \/ (job[s].met /\ ctx.of \in marred))
    BY <2>1 DEF SeedInv, Scoped
  <2>3. CASE marred' = marred
    BY <2>1, <2>2, <2>3
  <2>4. CASE ~job[r].met
    <3>1. s = r
      BY <1>9, <2>1, <2>4
    <3> QED BY <2>2, <2>4, <3>1
  <2> QED BY <1>7, <2>3, <2>4
<1>22. Made'
  <2> SUFFICES ASSUME NEW s \in Runs, Clean(s)'
               PROVE  Has(s)'
    BY DEF Made
  <2>1. CASE s # r
    BY <1>9, <2>1 DEF Clean
  <2>2. CASE s = r
    <3>1. job'[r].kind = job[r].kind /\ job'[r].met = job[r].met /\ Of(r)' = Of(r)
      BY <1>6, <1>8 DEF Moves
    <3>2. Clean(r)
      <4>1. job[r].kind = "seed" \/ job[r].kind = "import"
        BY <2>2, <3>1 DEF Clean
      <4>2. job[r].kind = "import" => Of(r) \notin marred'
        BY <2>2, <3>1 DEF Clean
      <4>3. ~job[r].met
        BY <2>2, <3>1 DEF Clean
      <4> QED BY <1>4, <1>11, <4>1, <4>2, <4>3 DEF Clean
    <3>3. Whole(Of(r))'
      BY <1>1, <1>12, <3>1, <3>2 DEF Whole
    <3>4. Exporting(job[r])' = 6
      BY <1>3, <1>6, <1>12, <3>1, <3>2 DEF Exporting
    <3>5. Exported(Of(r), Exporting(job[r]))'
      BY <1>1, <1>10, <1>12, <3>1, <3>2, <3>3, <3>4 DEF Exported
    <3>6. job[r].kind = "seed" => Seeded(Of(r), job[r].at)'
      <4> SUFFICES ASSUME job[r].kind = "seed"
                   PROVE  Seeded(Of(r), job[r].at)'
        OBVIOUS
      <4>1. Seeded(Of(r), 17) /\ job'[r].at = 18
        BY <1>3, <1>6, <1>12, <3>2
      <4> QED BY <1>1, <3>1, <4>1 DEF Seeded
    <3>7. job[r].kind = "import" => Imported(Of(r), job[r].at)'
      <4> SUFFICES ASSUME job[r].kind = "import"
                   PROVE  Imported(Of(r), job[r].at)'
        OBVIOUS
      <4>1. Imported(Of(r), 8) /\ job'[r].at = 9
        BY <1>3, <1>6, <1>12, <3>2
      <4> QED BY <1>1, <3>1, <4>1 DEF Imported
    <3> QED BY <2>2, <3>1, <3>5, <3>6, <3>7 DEF Has
  <2> QED BY <2>1, <2>2
<1>23. RowsAreOwn'
  <2> SUFFICES ASSUME NEW p \in Projects \ marred'
               PROVE  Own(p)
    BY <1>1 DEF RowsAreOwn, Own
  <2>1. CASE p \notin marred
    BY <2>1 DEF SeedInv, RowsAreOwn, Own
  <2>2. CASE p \in marred
    <3>1. p = Of(r) /\ job[r].kind = "seed" /\ ~job[r].met
      BY <1>7, <2>2
    <3>2. Seeded(p, 17)
      BY <1>11, <1>12, <3>1
    <3> QED BY <3>2 DEF Seeded, Own
  <2> QED BY <2>1, <2>2
<1>24. RowsWhole'
  <2> SUFFICES ASSUME NEW p \in Projects \ marred', status'[p] = "ready"
               PROVE  Whole(p)' /\ \A f \in FileSet : api'[p][f] = Content(f, p)'
    BY DEF RowsWhole
  <2>1. Whole(p) /\ \A f \in FileSet : api[p][f] = Content(f, p)
    <3>1. CASE p = Of(r)
      BY <1>11, <1>12, <1>13, <3>1
    <3>2. CASE p # Of(r)
      <4>1. p \notin marred /\ status[p] = "ready"
        BY <1>7, <1>10, <3>2
      <4> QED BY <4>1 DEF SeedInv, RowsWhole
    <3> QED BY <3>1, <3>2
  <2>2. \A f \in FileSet : Content(f, p)' = Content(f, p)
    BY <1>1 DEF Content
  <2>3. Whole(p)'
    BY <1>1, <2>1 DEF Whole
  <2> QED BY <1>1, <2>1, <2>2, <2>3
<1>25. \A p \in Projects \ (marred' \cup cut') : p = Of(r) \/ p \notin marred \cup cut
  BY <1>1, <1>7
<1>26. Listed'
  <2> SUFFICES ASSUME NEW s \in Runs
               PROVE  Carries(s)'
    BY DEF Listed
  <2>1. CASE s = r
    BY <1>16, <2>1 DEF Carries
  <2>2. CASE s # r
    <3>1. job'[s] = job[s]
      BY <1>9, <2>2
    <3>2. (At(s, "merge")' => At(s, "merge")) /\ (At(s, "write")' => At(s, "write"))
      BY <3>1 DEF At, Step, Active
    <3>3. Carries(s)
      BY DEF SeedInv, Listed
    <3>4. PICK l : l = job[s].listed
      OBVIOUS
    <3>5. ASSUME Truthful(l)
          PROVE  Truthful(l)'
      <4> SUFFICES ASSUME NEW p \in Projects \ (marred' \cup cut'), l[p] = "ready"
                   PROVE  Filed(p)'
        BY DEF Truthful
      <4>1. Filed(p)
        BY <1>14, <1>25, <3>5 DEF Truthful
      <4> QED BY <1>1, <4>1 DEF Filed
    <3> QED BY <3>1, <3>2, <3>3, <3>4, <3>5 DEF Carries, Truthful
  <2> QED BY <2>1, <2>2
<1>27. FilesWhole'
  <2> SUFFICES ASSUME NEW p \in Projects \ (marred' \cup cut'), registry # Torn, registry[p] = "ready"
               PROVE  Filed(p)
    BY <1>1 DEF FilesWhole, Filed
  <2>1. CASE p = Of(r)
    BY <1>14, <2>1
  <2>2. CASE p # Of(r)
    BY <1>25, <2>2 DEF SeedInv, FilesWhole, Filed
  <2> QED BY <2>1, <2>2
<1>28. LonerKept'
  BY <1>1, <1>6, <1>15, <1>16, <1>17, LonerKeeps, MovesOthers
<1>29. GeneratedBySomeone'
  <2> SUFFICES ASSUME NEW p \in Projects, status'[p] = "generating"
               PROVE  \/ \E s \in Runs : Active(s)' /\ Of(s)' = p
                      \/ p \in silent' \cup marred'
    BY DEF GeneratedBySomeone
  <2>1. p # Of(r) /\ status[p] = "generating"
    BY <1>10
  <2>2. \/ \E s \in Runs : Active(s) /\ Of(s) = p
        \/ p \in silent \cup marred
    BY <2>1 DEF SeedInv, GeneratedBySomeone
  <2>3. ASSUME NEW s \in Runs, Active(s), Of(s) = p
        PROVE  Active(s)' /\ Of(s)' = p
    BY <1>8, <1>9, <2>1, <2>3 DEF Active
  <2> QED BY <1>1, <1>7, <2>1, <2>2, <2>3
<1> QED BY <1>17, <1>18, <1>19, <1>20, <1>21, <1>22, <1>23, <1>24, <1>26, <1>27, <1>28, <1>29
        DEF SeedInv, SeedTypeOK

-----------------------------------------------------------------------------
(* A run begins *)

LEMMA StartStep ==
  ASSUME SeedInv, NEW r \in Runs, NEW p \in Projects, NEW kind \in Kinds, Start(r, p, kind)
  PROVE  SeedInv'
<1>1. /\ job[r] = Idle /\ job' = [job EXCEPT ![r].of = p, ![r].kind = kind, ![r].at = 1]
      /\ UNCHANGED <<extract, heights, api, registry, status, ctx, staged, highways, cad, util,
                     plots, faults, marred, cut, silent>>
      /\ JobsTyped /\ SeedTypeOK
  BY DEF Start, disk, scope, rows, told, SeedInv, SeedTypeOK
<1>2. /\ job' \in [Runs -> Jobs]
      /\ \A s \in Runs \ {r} : job'[s] = job[s]
      /\ job'[r].of = p /\ job'[r].kind = kind /\ job'[r].at = 1 /\ ~job'[r].in /\ ~job'[r].met
  <2> PICK first : first = [of |-> p, kind |-> kind, at |-> 1, in |-> FALSE, met |-> FALSE,
                            listed |-> Nothing]
    OBVIOUS
  <2>1. first \in Jobs /\ first.of = p /\ first.kind = kind /\ first.at = 1 /\ ~first.in /\ ~first.met
    BY DEF Jobs
  <2>2. job' = [job EXCEPT ![r] = first]
    BY <1>1 DEF Idle, JobsTyped
  <2>3. job \in [Runs -> Jobs]
    BY <1>1 DEF JobsTyped
  <2> HIDE DEF Jobs
  <2> QED BY <2>1, <2>2, <2>3
<1>3. job[r].at = 0 /\ ~job[r].in /\ ~job[r].met /\ ~Active(r)
  BY <1>1 DEF Idle, Active
<1>4. Others(r)
  BY <1>2 DEF Others
<1>5. Steps(kind)[1] \notin {"merge", "write"}
  BY StepsSeed, StepsImport, StepsCadastre, StepsUtilities, StepsSurvey, StepsExport
     DEF Kinds, Alone
<1>6. ~At(r, "merge")' /\ ~At(r, "write")'
  BY <1>2, <1>5 DEF At, Step
<1>7. JobsTyped'
  <2> SUFFICES ASSUME NEW s \in Runs, job'[s].at # 0
               PROVE  /\ job'[s].of \in Projects /\ job'[s].kind \in Kinds
                      /\ job'[s].at \in 1..Len(Steps(job'[s].kind))
    BY <1>2 DEF JobsTyped, Active, Of
  <2>1. CASE s = r
    <3>1. 1 \in 1..Len(Steps(kind))
      BY Lengths
    <3> QED BY <1>2, <2>1, <3>1
  <2>2. CASE s # r
    <3>1. job'[s] = job[s] /\ Active(s)
      BY <1>2, <2>2 DEF Active
    <3>2. job[s].of \in Projects /\ job[s].kind \in Kinds /\ job[s].at \in 1..Len(Steps(job[s].kind))
      BY <1>1, <3>1, Stands DEF Of
    <3> QED BY <3>1, <3>2
  <2> QED BY <2>1, <2>2
<1>8. RowsTyped'
  <2>1. RowsTyped
    BY <1>1 DEF SeedTypeOK
  <2>2. ASSUME NEW s \in Runs
        PROVE  /\ job'[s].kind = "seed" /\ job'[s].at \in {5, 6} => staged.of \in Projects
               /\ job'[s].kind = "cadastre" /\ job'[s].at \in {3, 4} => staged.of \in Projects
    <3>1. CASE s # r
      BY <1>2, <2>1, <3>1 DEF RowsTyped, StagedFor
    <3>2. CASE s = r
      BY <1>2, <3>2
    <3> QED BY <3>1, <3>2
  <2> QED BY <1>1, <2>1, <2>2 DEF RowsTyped, StagedFor
<1>9. FilesTyped'
  BY <1>1 DEF SeedTypeOK, FilesTyped
<1>10. InDatabase'
  <2>1. \A s \in Runs \ {r} : /\ job'[s].in <=> job'[s].at > Before(job'[s].kind)
                              /\ job'[s].at # 0 /\ job'[s].met => job'[s].in
    BY <1>2 DEF SeedInv, InDatabase, Active
  <2>2. ~(1 > Before(kind))
    BY DEF Before
  <2> QED BY <1>2, <2>1, <2>2 DEF InDatabase, Active
<1>11. InTwos' /\ Marks' /\ Scoped'
  <2>1. \A s \in Runs : job'[s].in => s # r /\ job'[s] = job[s]
    BY <1>2
  <2>2. InTwos'
    BY <2>1 DEF SeedInv, InTwos
  <2>3. \A s \in Runs : job'[s].in => Of(s)' = Of(s)
    BY <2>1 DEF Of
  <2>4. Marks'
    BY <1>1, <2>1, <2>3 DEF SeedInv, Marks
  <2>5. Scoped'
    BY <1>1, <2>1, <2>3 DEF SeedInv, Scoped
  <2> QED BY <2>2, <2>4, <2>5
<1>12. Made'
  <2>1. \A s \in Runs \ {r} : Clean(s)' => Has(s)'
    BY <1>1, <1>2, OthersKeep DEF rows, Sts
  <2>2. ~Clean(r)'
    BY <1>2 DEF Clean
  <2> QED BY <2>1, <2>2 DEF Made
<1>13. RowsAreOwn'
  BY <1>1 DEF SeedInv, RowsAreOwn
<1>14. RowsWhole'
  BY <1>1, WholeKeeps
<1>15. Listed'
  BY <1>1, <1>4, <1>6, ListedKeeps
<1>16. FilesWhole'
  BY <1>1, FilesKeep DEF SeedInv
<1>17. Met => Met'
  BY <1>2, <1>3 DEF Met
<1>18. LonerKept'
  BY <1>1, <1>3, <1>4, <1>6, <1>17, LonerKeeps DEF At
<1>19. GeneratedBySomeone'
  <2>1. \A s \in Runs : Active(s) => Active(s)' /\ Of(s)' = Of(s)
    BY <1>2, <1>3 DEF Active, Of
  <2> QED BY <1>1, <2>1 DEF SeedInv, GeneratedBySomeone
<1> QED BY <1>7, <1>8, <1>9, <1>10, <1>11, <1>12, <1>13, <1>14, <1>15, <1>16, <1>18, <1>19
           DEF SeedInv, SeedTypeOK

-----------------------------------------------------------------------------
(* The invariant holds *)

\* The invariant: it holds at first, no step breaks it, and it gives what is stated.
LEMMA SeedStarts == SeedInit => SeedInv
<1> SUFFICES ASSUME SeedInit
             PROVE  SeedInv
  OBVIOUS
<1>1. /\ \A r \in Runs : job[r] = Idle
      /\ job \in [Runs -> Jobs] /\ Idle.at = 0 /\ ~Idle.in /\ ~Idle.met
  BY DEF SeedInit, Idle, Jobs
<1>2. \A r \in Runs : ~Active(r) /\ ~job[r].in /\ ~job[r].met /\ job[r].at = 0
  BY <1>1 DEF Active
<1>3. /\ registry \in Listing /\ registry # Torn /\ registry[Loner] = "ready"
      /\ \A p \in Projects : registry[p] = "none"
  <2>1. registry = [p \in Projects \cup {Loner} |-> IF p = Loner THEN "ready" ELSE "none"]
    BY DEF SeedInit
  <2>2. registry \in Listing
    BY <2>1 DEF Listing
  <2> QED BY <2>1, <2>2, SeedAssumption
<1>4. JobsTyped
  BY <1>1, <1>2 DEF JobsTyped
<1>5. RowsTyped
  BY <1>2 DEF SeedInit, RowsTyped, StagedFor
<1>6. FilesTyped
  BY <1>3 DEF SeedInit, FilesTyped, Sts
<1>7. InDatabase
  BY <1>2 DEF InDatabase, Before
<1>8. InTwos /\ Marks /\ Scoped /\ Made
  BY <1>2 DEF InTwos, Marks, Scoped, Made, Clean
<1>9. RowsAreOwn
  BY DEF SeedInit, RowsAreOwn
<1>10. \A p \in Projects : status[p] = "none"
  BY DEF SeedInit
<1>11. RowsWhole /\ FilesWhole /\ GeneratedBySomeone
  BY <1>3, <1>10 DEF RowsWhole, FilesWhole, GeneratedBySomeone
<1>12. Listed
  BY <1>2 DEF Listed, Carries, At
<1>13. LonerKept
  BY <1>2, <1>3 DEF LonerKept, At
<1> QED BY <1>4, <1>5, <1>6, <1>7, <1>8, <1>9, <1>11, <1>12, <1>13 DEF SeedInv, SeedTypeOK

LEMMA SeedRests ==
  ASSUME SeedInv, UNCHANGED seedVars
  PROVE  SeedInv'
<1>1. UNCHANGED <<job, extract, heights, status, ctx, staged, highways, cad, util, plots, api,
                  registry, faults, marred, cut, silent>>
  BY DEF seedVars
<1>2. SeedTypeOK'
  BY <1>1 DEF SeedInv, SeedTypeOK, JobsTyped, RowsTyped, StagedFor, FilesTyped, Active, Of
<1>3. InDatabase' /\ InTwos' /\ Marks' /\ Scoped'
  BY <1>1 DEF SeedInv, InDatabase, InTwos, Marks, Scoped, Active, Of
<1>4. Made'
  BY <1>1 DEF SeedInv, Made, Clean, Has, Seeded, Imported, Exported, Whole, Of, Exporting
<1>5. RowsAreOwn' /\ RowsWhole' /\ FilesWhole' /\ GeneratedBySomeone'
  BY <1>1 DEF SeedInv, RowsAreOwn, RowsWhole, FilesWhole, GeneratedBySomeone, Whole, Content,
              Active, Of
<1>6. Listed' /\ LonerKept'
  BY <1>1 DEF SeedInv, Listed, Carries, Truthful, Filed, LonerKept, Met, At, Active, Step
<1> QED BY <1>2, <1>3, <1>4, <1>5, <1>6 DEF SeedInv

LEMMA SeedKeeps ==
  ASSUME SeedInv, [SeedNext]_seedVars
  PROVE  SeedInv'
<1>1. CASE UNCHANGED seedVars
  BY <1>1, SeedRests
<1>2. CASE SeedNext
  <2>1. PICK r \in Runs :
          \/ \E p \in Projects, kind \in {"seed", "import"} \cup Alone : Start(r, p, kind)
          \/ Fail(r) \/ Kill(r)
          \/ Fetch(r) \/ Heights(r) \/ Publish(r) \/ StageBuildings(r)
          \/ StageHighways(r) \/ Build(r) \/ Lay(r) \/ CutPlots(r) \/ Load(r)
          \/ Join(r) \/ Dump(r) \/ Ready(r) \/ List(r) \/ Merge(r) \/ Write(r)
    BY <1>2, Zenon DEF SeedNext
  <2>2. CASE \E p \in Projects, kind \in {"seed", "import"} \cup Alone : Start(r, p, kind)
    BY <2>2, StartStep DEF Kinds
  <2>3. CASE Fail(r)
    BY <2>3, FailStep
  <2>4. CASE Kill(r)
    BY <2>4, KillStep
  <2>5. CASE Fetch(r)
    BY <2>5, FetchStep
  <2>6. CASE Heights(r)
    BY <2>6, HeightsStep
  <2>7. CASE Publish(r)
    BY <2>7, PublishStep
  <2>8. CASE StageBuildings(r)
    BY <2>8, StageBuildingsStep
  <2>9. CASE StageHighways(r)
    BY <2>9, StageHighwaysStep
  <2>10. CASE Build(r)
    BY <2>10, BuildStep
  <2>11. CASE Lay(r)
    BY <2>11, LayStep
  <2>12. CASE CutPlots(r)
    BY <2>12, CutPlotsStep
  <2>13. CASE Load(r)
    BY <2>13, LoadStep
  <2>14. CASE Join(r)
    BY <2>14, JoinStep
  <2>15. CASE Dump(r)
    BY <2>15, DumpStep
  <2>16. CASE Ready(r)
    BY <2>16, ReadyStep
  <2>17. CASE List(r)
    BY <2>17, ListStep
  <2>18. CASE Merge(r)
    BY <2>18, MergeStep
  <2>19. CASE Write(r)
    BY <2>19, WriteStep
  <2> QED BY <2>1, <2>2, <2>3, <2>4, <2>5, <2>6, <2>7, <2>8, <2>9, <2>10, <2>11, <2>12, <2>13,
             <2>14, <2>15, <2>16, <2>17, <2>18, <2>19
<1> QED BY <1>1, <1>2

LEMMA SeedInvariance == SeedSpec => []SeedInv
<1> QED BY SeedStarts, SeedKeeps, PTL DEF SeedSpec

\* Every run of the scripts is at a step of its kind and for a project, the tables and
\* the files hold what the scripts write, and what is built was staged for a project.
THEOREM SeedTyped == SeedSpec => []SeedTypeOK
<1>1. SeedInv => SeedTypeOK
  BY DEF SeedInv
<1> QED BY <1>1, SeedInvariance, PTL

\* However the runs of the scripts interleave, fail and are killed, the cadastre, the
\* utilities and the plots of a project are made of its own extract and roads, although
\* seed_ctx and the staging tables are one for all projects: only two runs in the
\* database at once and a stage run by itself can mix them.
THEOREM SeedRowsAreOwn == SeedSpec => []RowsAreOwn
<1>1. SeedInv => RowsAreOwn
  BY DEF SeedInv
<1> QED BY <1>1, SeedInvariance, PTL

\* "A project is 'ready' when there is something to read": it has the rows of one seed,
\* the snapshots of those rows, and what projects.json calls ready has its files and
\* keeps the projects that only it knows of.
THEOREM SeedReadyIsWhole == SeedSpec => []ReadyIsWhole
<1>1. faults \in Nat /\ LonerKept => LonerStays
  BY DEF LonerKept, LonerStays
<1>2. SeedInv => ReadyIsWhole
  BY <1>1 DEF SeedInv, SeedTypeOK, FilesTyped, ReadyIsWhole
<1> QED BY <1>2, SeedInvariance, PTL

\* seed.py marks a project failed "rather than leaving it 'generating' forever": what is
\* being generated has a run that is going, or one that was killed, an import that
\* failed, or a stage that was run by itself.
THEOREM SeedGeneratedBySomeone == SeedSpec => []GeneratedBySomeone
<1>1. SeedInv => GeneratedBySomeone
  BY DEF SeedInv
<1> QED BY <1>1, SeedInvariance, PTL
=============================================================================
