--------------------------- MODULE Sessions_proofs ---------------------------
(***************************************************************************)
(* Proofs about Sessions for any owners, tokens, OAuth states and requests  *)
(* and any number of starts, stops and crashes.                            *)
(***************************************************************************)
EXTENDS Sessions, FiniteSetTheorems, TLAPS

(* A state is in memory until its callback consumes it; from then on it belongs *)
(* to the request that waits for the exchange, and at last to one session.      *)

AtRest == phase = "down" => \A r \in Request : pc[r] = "idle"

Waiting == \A r \in Request : oauth[r] # None => pc[r] = "exchange"

Exchanging == \A r \in Request : pc[r] = "exchange" => oauth[r] \in seen \ states

StatesSeen == states \subseteq seen

OneExchange ==
    \A r1, r2 \in Request : oauth[r1] = oauth[r2] /\ oauth[r1] # None => r1 = r2

Opened ==
    \A t \in LoginToken :
        origin[t] # None => /\ origin[t] \in seen \ states
                            /\ \A r \in Request : oauth[r] # origin[t]

StateInv == /\ Waiting /\ Exchanging /\ StatesSeen
            /\ OneExchange /\ Opened /\ OneSessionPerState

(* A session that has ended is not live, and one that was never opened is    *)
(* neither.                                                                  *)

Unopened == \A t \in LoginToken : origin[t] = None => session[t] = "none" /\ t \notin ended

EndedInv == Unopened /\ \A t \in ended : session[t] # "live"

(* The commands under way. *)

CommandInv == AtRest /\ CommandForOwner


\* Every step keeps the types.
LEMMA TypeInductive == TypeOK /\ [Next]_vars => TypeOK'
<1> SUFFICES ASSUME TypeOK, [Next]_vars
             PROVE  TypeOK'
  OBVIOUS
<1> USE SessionsAssumption DEF TypeOK, Token, User, processVars, userVars, rowVars, requestVars
<1>1. ASSUME NEW o \in Owner, NEW configured \in BOOLEAN, Start(o, configured)
      PROVE  TypeOK'
  BY <1>1 DEF Start, AddUsers, OpenSession
<1>2. CASE Crash
  BY <1>2 DEF Crash, Forget
<1>3. CASE Stop
  BY <1>3 DEF Stop
<1>4. CASE Stopped
  BY <1>4 DEF Stopped, Forget
<1>5. ASSUME NEW s \in State, LoginStart(s)
      PROVE  TypeOK'
  BY <1>5 DEF LoginStart
<1>6. ASSUME NEW c \in Sendable, NEW b \in Sendable, Logout(c, b)
      PROVE  TypeOK'
  BY <1>6 DEF Logout, Chosen
<1>7. ASSUME NEW c \in Sendable, NEW b \in Sendable, AuthMe(c, b)
      PROVE  TypeOK'
  BY <1>7 DEF AuthMe, Reap, Chosen
<1>8. ASSUME NEW r \in Request, NEW s \in State, Callback(r, s)
      PROVE  TypeOK'
  BY <1>8 DEF Callback
<1>9. ASSUME NEW r \in Request, LoginFails(r)
      PROVE  TypeOK'
  BY <1>9 DEF LoginFails, End
<1>10. ASSUME NEW r \in Request, NEW t \in LoginToken, Login(r, t)
      PROVE  TypeOK'
  BY <1>10 DEF Login, End, OpenSession, AddUsers, Known
<1>11. ASSUME NEW r \in Request, NEW c \in Sendable, NEW b \in Sendable, Arrive(r, c, b)
      PROVE  TypeOK'
  BY <1>11 DEF Arrive, Sendable, Known
<1>12. ASSUME NEW r \in Request, NEW t \in Token, Receive(r, t)
      PROVE  TypeOK'
  BY <1>12 DEF Receive
<1>13. ASSUME NEW r \in Request, Refuse(r)
      PROVE  TypeOK'
  BY <1>13 DEF Refuse, End, Reap
<1>14. ASSUME NEW r \in Request, Answer(r)
      PROVE  TypeOK'
  BY <1>14 DEF Answer, End
<1>15. ASSUME NEW t \in Token, Lapse(t)
      PROVE  TypeOK'
  BY <1>15 DEF Lapse
<1>16. ASSUME NEW u \in User, Administrate(u)
      PROVE  TypeOK'
  BY <1>16 DEF Administrate
<1>17. CASE UNCHANGED vars
  BY <1>17 DEF vars
<1>18. QED
  BY <1>1, <1>2, <1>3, <1>4, <1>5, <1>6, <1>7, <1>8, <1>9,
     <1>10, <1>11, <1>12, <1>13, <1>14, <1>15, <1>16, <1>17 DEF Next

\* Every step keeps each state with one request or one session.
LEMMA StateInductive == TypeOK /\ StateInv /\ [Next]_vars => StateInv'
<1> SUFFICES ASSUME TypeOK, StateInv, [Next]_vars
             PROVE  StateInv'
  OBVIOUS
<1> USE SessionsAssumption
        DEF TypeOK, Token, User, StateInv, Waiting, Exchanging, StatesSeen, OneExchange, Opened,
            OneSessionPerState, processVars, userVars, rowVars, requestVars
<1>1. ASSUME NEW o \in Owner, NEW configured \in BOOLEAN, Start(o, configured)
      PROVE  StateInv'
  BY <1>1 DEF Start
<1>2. CASE Crash
  BY <1>2 DEF Crash, Forget
<1>3. CASE Stop
  BY <1>3 DEF Stop
<1>4. CASE Stopped
  BY <1>4 DEF Stopped, Forget
<1>5. ASSUME NEW s \in State, LoginStart(s)
      PROVE  StateInv'
  BY <1>5 DEF LoginStart
<1>6. ASSUME NEW c \in Sendable, NEW b \in Sendable, Logout(c, b)
      PROVE  StateInv'
  BY <1>6 DEF Logout
<1>7. ASSUME NEW c \in Sendable, NEW b \in Sendable, AuthMe(c, b)
      PROVE  StateInv'
  BY <1>7 DEF AuthMe
<1>8. ASSUME NEW r \in Request, NEW s \in State, Callback(r, s)
      PROVE  StateInv'
  BY <1>8 DEF Callback
<1>9. ASSUME NEW r \in Request, LoginFails(r)
      PROVE  StateInv'
  BY <1>9 DEF LoginFails, End
<1>10. ASSUME NEW r \in Request, NEW t \in LoginToken, Login(r, t)
      PROVE  StateInv'
  BY <1>10 DEF Login, End, Known
<1>11. ASSUME NEW r \in Request, NEW c \in Sendable, NEW b \in Sendable, Arrive(r, c, b)
      PROVE  StateInv'
  BY <1>11 DEF Arrive
<1>12. ASSUME NEW r \in Request, NEW t \in Token, Receive(r, t)
      PROVE  StateInv'
  BY <1>12 DEF Receive
<1>13. ASSUME NEW r \in Request, Refuse(r)
      PROVE  StateInv'
  BY <1>13 DEF Refuse, End
<1>14. ASSUME NEW r \in Request, Answer(r)
      PROVE  StateInv'
  BY <1>14 DEF Answer, End
<1>15. ASSUME NEW t \in Token, Lapse(t)
      PROVE  StateInv'
  BY <1>15 DEF Lapse
<1>16. ASSUME NEW u \in User, Administrate(u)
      PROVE  StateInv'
  BY <1>16 DEF Administrate
<1>17. CASE UNCHANGED vars
  BY <1>17 DEF vars
<1>18. QED
  BY <1>1, <1>2, <1>3, <1>4, <1>5, <1>6, <1>7, <1>8, <1>9,
     <1>10, <1>11, <1>12, <1>13, <1>14, <1>15, <1>16, <1>17 DEF Next

\* No step opens an ended session again without taking it off the list.
LEMMA EndedInductive == TypeOK /\ StateInv /\ EndedInv /\ [Next]_vars => EndedInv'
<1> SUFFICES ASSUME TypeOK, StateInv, EndedInv, [Next]_vars
             PROVE  EndedInv'
  OBVIOUS
<1> USE SessionsAssumption
        DEF TypeOK, Token, User, EndedInv, Unopened, processVars, userVars, rowVars, requestVars
<1>1. ASSUME NEW o \in Owner, NEW configured \in BOOLEAN, Start(o, configured)
      PROVE  EndedInv'
  BY <1>1 DEF Start, OpenSession
<1>2. CASE Crash
  BY <1>2 DEF Crash, Forget
<1>3. CASE Stop
  BY <1>3 DEF Stop
<1>4. CASE Stopped
  BY <1>4 DEF Stopped, Forget
<1>5. ASSUME NEW s \in State, LoginStart(s)
      PROVE  EndedInv'
  BY <1>5 DEF LoginStart
<1>6. ASSUME NEW c \in Sendable, NEW b \in Sendable, Logout(c, b)
      PROVE  EndedInv'
  BY <1>6 DEF Logout, Chosen, Sendable, Known
<1>7. ASSUME NEW c \in Sendable, NEW b \in Sendable, AuthMe(c, b)
      PROVE  EndedInv'
  BY <1>7 DEF AuthMe, Reap, Chosen
<1>8. ASSUME NEW r \in Request, NEW s \in State, Callback(r, s)
      PROVE  EndedInv'
  BY <1>8 DEF Callback
<1>9. ASSUME NEW r \in Request, LoginFails(r)
      PROVE  EndedInv'
  BY <1>9 DEF LoginFails
<1>10. ASSUME NEW r \in Request, NEW t \in LoginToken, Login(r, t)
      PROVE  EndedInv'
  <2>1. origin[t] = None /\ t \notin ended
    BY <1>10 DEF Login, Known
  <2>2. /\ session' = [session EXCEPT ![t] = "live"] /\ UNCHANGED ended
        /\ origin' = [origin EXCEPT ![t] = oauth[r]] /\ pc[r] = "exchange"
    BY <1>10 DEF Login, OpenSession
  <2>3. oauth[r] # None
    BY <2>2 DEF StateInv, Exchanging
  <2>4. QED
    BY <2>1, <2>2, <2>3
<1>11. ASSUME NEW r \in Request, NEW c \in Sendable, NEW b \in Sendable, Arrive(r, c, b)
      PROVE  EndedInv'
  BY <1>11 DEF Arrive
<1>12. ASSUME NEW r \in Request, NEW t \in Token, Receive(r, t)
      PROVE  EndedInv'
  BY <1>12 DEF Receive
<1>13. ASSUME NEW r \in Request, Refuse(r)
      PROVE  EndedInv'
  BY <1>13 DEF Refuse, Reap
<1>14. ASSUME NEW r \in Request, Answer(r)
      PROVE  EndedInv'
  BY <1>14 DEF Answer
<1>15. ASSUME NEW t \in Token, Lapse(t)
      PROVE  EndedInv'
  BY <1>15 DEF Lapse
<1>16. ASSUME NEW u \in User, Administrate(u)
      PROVE  EndedInv'
  BY <1>16 DEF Administrate
<1>17. CASE UNCHANGED vars
  BY <1>17 DEF vars
<1>18. QED
  BY <1>1, <1>2, <1>3, <1>4, <1>5, <1>6, <1>7, <1>8, <1>9,
     <1>10, <1>11, <1>12, <1>13, <1>14, <1>15, <1>16, <1>17 DEF Next

\* The profile changes only while no request is under way.
LEMMA CommandInductive == TypeOK /\ CommandInv /\ [Next]_vars => CommandInv'
<1> SUFFICES ASSUME TypeOK, CommandInv, [Next]_vars
             PROVE  CommandInv'
  OBVIOUS
<1> USE SessionsAssumption
        DEF TypeOK, Token, User, CommandInv, AtRest, CommandForOwner, processVars, userVars, rowVars, requestVars
<1>1. ASSUME NEW o \in Owner, NEW configured \in BOOLEAN, Start(o, configured)
      PROVE  CommandInv'
  BY <1>1 DEF Start
<1>2. CASE Crash
  BY <1>2 DEF Crash, Forget
<1>3. CASE Stop
  BY <1>3 DEF Stop
<1>4. CASE Stopped
  BY <1>4 DEF Stopped, Forget
<1>5. ASSUME NEW s \in State, LoginStart(s)
      PROVE  CommandInv'
  BY <1>5 DEF LoginStart
<1>6. ASSUME NEW c \in Sendable, NEW b \in Sendable, Logout(c, b)
      PROVE  CommandInv'
  BY <1>6 DEF Logout
<1>7. ASSUME NEW c \in Sendable, NEW b \in Sendable, AuthMe(c, b)
      PROVE  CommandInv'
  BY <1>7 DEF AuthMe
<1>8. ASSUME NEW r \in Request, NEW s \in State, Callback(r, s)
      PROVE  CommandInv'
  BY <1>8 DEF Callback
<1>9. ASSUME NEW r \in Request, LoginFails(r)
      PROVE  CommandInv'
  BY <1>9 DEF LoginFails, End
<1>10. ASSUME NEW r \in Request, NEW t \in LoginToken, Login(r, t)
      PROVE  CommandInv'
  BY <1>10 DEF Login, End
<1>11. ASSUME NEW r \in Request, NEW c \in Sendable, NEW b \in Sendable, Arrive(r, c, b)
      PROVE  CommandInv'
  BY <1>11 DEF Arrive
<1>12. ASSUME NEW r \in Request, NEW t \in Token, Receive(r, t)
      PROVE  CommandInv'
  BY <1>12 DEF Receive, Credentials, Served
<1>13. ASSUME NEW r \in Request, Refuse(r)
      PROVE  CommandInv'
  BY <1>13 DEF Refuse, End
<1>14. ASSUME NEW r \in Request, Answer(r)
      PROVE  CommandInv'
  BY <1>14 DEF Answer, End
<1>15. ASSUME NEW t \in Token, Lapse(t)
      PROVE  CommandInv'
  BY <1>15 DEF Lapse
<1>16. ASSUME NEW u \in User, Administrate(u)
      PROVE  CommandInv'
  BY <1>16 DEF Administrate
<1>17. CASE UNCHANGED vars
  BY <1>17 DEF vars
<1>18. QED
  BY <1>1, <1>2, <1>3, <1>4, <1>5, <1>6, <1>7, <1>8, <1>9,
     <1>10, <1>11, <1>12, <1>13, <1>14, <1>15, <1>16, <1>17 DEF Next

-----------------------------------------------------------------------------
LEMMA StateStarts == Init => StateInv
BY DEF Init, StateInv, Waiting, Exchanging, StatesSeen, OneExchange, Opened, OneSessionPerState

\* The tables, the memory and the requests always have the values listed.
THEOREM TypeCorrect == Spec => []TypeOK
<1>1. Init => TypeOK
  BY SessionsAssumption DEF Init, TypeOK, Token, User
<1>2. QED
  BY <1>1, TypeInductive, PTL DEF Spec

\* Any number of callbacks, requests and restarts: an OAuth state that was
\* handed out opens at most one session.
THEOREM OneSessionAlways == Spec => []OneSessionPerState
<1>1. StateInv => OneSessionPerState
  BY DEF StateInv
<1>2. QED
  BY <1>1, StateStarts, TypeCorrect, StateInductive, PTL DEF Spec

\* Whoever the process is started for, and whichever sessions earlier processes
\* left: a command under way is a command of the owner it serves.
THEOREM CommandsOfOwner == Spec => []CommandForOwner
<1>1. Init => CommandInv
  BY DEF Init, CommandInv, AtRest, CommandForOwner
<1>2. CommandInv => CommandForOwner
  BY DEF CommandInv
<1>3. QED
  BY <1>1, <1>2, TypeCorrect, CommandInductive, PTL DEF Spec

\* The step that takes a command takes it under a live session.
TakesLive ==
    \A r \in Request : pc[r] = "body" /\ pc'[r] = "command" => sent[r] \cap ended = {}


\* Only Receive takes a command, and its session is live.
LEMMA StepTakesLive == TypeOK /\ EndedInv /\ [Next]_vars => TakesLive
<1> SUFFICES ASSUME TypeOK, EndedInv, [Next]_vars
             PROVE  TakesLive
  OBVIOUS
<1> USE DEF TypeOK, EndedInv, TakesLive, processVars, userVars, rowVars, requestVars
<1>1. ASSUME NEW o \in Owner, NEW configured \in BOOLEAN, Start(o, configured)
      PROVE  TakesLive
  BY <1>1 DEF Start
<1>2. CASE Crash
  BY <1>2 DEF Crash, Forget
<1>3. CASE Stop
  BY <1>3 DEF Stop
<1>4. CASE Stopped
  BY <1>4 DEF Stopped, Forget
<1>5. ASSUME NEW s \in State, LoginStart(s)
      PROVE  TakesLive
  BY <1>5 DEF LoginStart
<1>6. ASSUME NEW c \in Sendable, NEW b \in Sendable, Logout(c, b)
      PROVE  TakesLive
  BY <1>6 DEF Logout
<1>7. ASSUME NEW c \in Sendable, NEW b \in Sendable, AuthMe(c, b)
      PROVE  TakesLive
  BY <1>7 DEF AuthMe
<1>8. ASSUME NEW r \in Request, NEW s \in State, Callback(r, s)
      PROVE  TakesLive
  BY <1>8 DEF Callback
<1>9. ASSUME NEW r \in Request, LoginFails(r)
      PROVE  TakesLive
  BY <1>9 DEF LoginFails, End
<1>10. ASSUME NEW r \in Request, NEW t \in LoginToken, Login(r, t)
      PROVE  TakesLive
  BY <1>10 DEF Login, End
<1>11. ASSUME NEW r \in Request, NEW c \in Sendable, NEW b \in Sendable, Arrive(r, c, b)
      PROVE  TakesLive
  BY <1>11 DEF Arrive
<1>12. ASSUME NEW r \in Request, NEW t \in Token, Receive(r, t)
      PROVE  TakesLive
  BY <1>12 DEF Receive, Credentials, Authenticated, Active
<1>13. ASSUME NEW r \in Request, Refuse(r)
      PROVE  TakesLive
  BY <1>13 DEF Refuse, End
<1>14. ASSUME NEW r \in Request, Answer(r)
      PROVE  TakesLive
  BY <1>14 DEF Answer, End
<1>15. ASSUME NEW t \in Token, Lapse(t)
      PROVE  TakesLive
  BY <1>15 DEF Lapse
<1>16. ASSUME NEW u \in User, Administrate(u)
      PROVE  TakesLive
  BY <1>16 DEF Administrate
<1>17. CASE UNCHANGED vars
  BY <1>17 DEF vars
<1>18. QED
  BY <1>1, <1>2, <1>3, <1>4, <1>5, <1>6, <1>7, <1>8, <1>9,
     <1>10, <1>11, <1>12, <1>13, <1>14, <1>15, <1>16, <1>17 DEF Next


\* A session that was revoked or has expired commands nothing any more, over any
\* number of restarts.
THEOREM EndedForGood == Spec => EndedStaysEnded
<1>1. Init => EndedInv
  BY DEF Init, EndedInv, Unopened, Token
<1>2. QED
  BY <1>1, StateStarts, TypeCorrect, StateInductive, EndedInductive, StepTakesLive, PTL
     DEF Spec, EndedStaysEnded, TakesLive
-----------------------------------------------------------------------------
(* An OAuth state is a token for one session. *)

\* The sessions that were opened for a state.
OpenedFor(s) == {t \in LoginToken : origin[t] = s}

\* The states that may still open one: those in memory, and those whose callback
\* waits for the exchange of its code.
InHand == states \cup {s \in State : \E r \in Request : oauth[r] = s}

Logins == INSTANCE SingleUseTokens WITH
              Key <- State, spendable <- InHand,
              issued <- [s \in State |-> IF s \in seen THEN 1 ELSE 0],
              spent <- [s \in State |-> Cardinality(OpenedFor(s))]

\* A step that hands out no state and opens no session can only drop states.
LEMMA Drops ==
  ASSUME InHand' \subseteq InHand, UNCHANGED <<seen, origin>>
  PROVE  [Logins!Next]_(Logins!vars)
<1>1. Logins!Withdraw
  BY DEF Logins!Withdraw, OpenedFor
<1>2. QED
  BY <1>1 DEF Logins!Next

\* The start of a login hands out a state.
LEMMA LoginStartIssues ==
  ASSUME TypeOK, StateInv, NEW s \in State, LoginStart(s)
  PROVE  Logins!Issue(s)
<1>1. s \notin seen /\ seen' = seen \cup {s} /\ states' = states \cup {s}
      /\ UNCHANGED <<oauth, origin>>
  BY DEF LoginStart, requestVars
<1>2. InHand' = InHand \cup {s}
  BY <1>1 DEF InHand
<1>3. [x \in State |-> IF x \in seen' THEN 1 ELSE 0] =
        [[x \in State |-> IF x \in seen THEN 1 ELSE 0] EXCEPT ![s] = @ + 1]
  <2> DEFINE f == [x \in State |-> IF x \in seen THEN 1 ELSE 0]
             g == [f EXCEPT ![s] = @ + 1]
             h == [x \in State |-> IF x \in seen' THEN 1 ELSE 0]
  <2>1. \A x \in State : g[x] = IF x = s THEN f[s] + 1 ELSE f[x]
    OBVIOUS
  <2>2. f[s] = 0
    BY <1>1
  <2>3. \A x \in State : h[x] = g[x]
    BY <1>1, <2>1, <2>2
  <2>4. h = g
    BY <2>3
  <2>5. QED
    BY <2>4
<1>4. UNCHANGED [x \in State |-> Cardinality(OpenedFor(x))]
  BY <1>1 DEF OpenedFor
<1>5. QED
  BY <1>2, <1>3, <1>4 DEF Logins!Issue

\* The session a callback opens uses its state up.
LEMMA LoginSpends ==
  ASSUME TypeOK, StateInv, NEW r \in Request, NEW t \in LoginToken, Login(r, t),
         NEW s, s = oauth[r]
  PROVE  s \in State /\ Logins!Spend(s)
<1>1. s \in State /\ s # None /\ s \in seen \ states
  BY SessionsAssumption DEF TypeOK, StateInv, Exchanging, Login
<1>2. /\ origin' = [origin EXCEPT ![t] = s] /\ oauth' = [oauth EXCEPT ![r] = None]
      /\ origin[t] = None /\ UNCHANGED <<states, seen>>
  BY DEF Login, End, Known
<1>t. oauth \in [Request -> State \cup {None}] /\ origin \in [LoginToken -> State \cup {None}]
      /\ None \notin State
  BY SessionsAssumption DEF TypeOK
<1>3. s \in InHand /\ InHand' = InHand \ {s}
  <2>1. \A q \in Request : q # r => oauth[q] # s
    BY <1>1 DEF StateInv, OneExchange
  <2>2. {x \in State : \E q \in Request : oauth'[q] = x}
          = {x \in State : \E q \in Request : oauth[q] = x} \ {s}
    BY <1>1, <1>2, <1>t, <2>1
  <2>3. QED
    BY <1>1, <1>2, <2>2 DEF InHand
<1>4. /\ OpenedFor(s) = {} /\ OpenedFor(s)' = {t}
      /\ \A x \in State : x # s => OpenedFor(x)' = OpenedFor(x)
  <2>1. \A u \in LoginToken : origin[u] # s
    BY <1>1 DEF StateInv, Opened
  <2>2. QED
    BY <1>1, <1>2, <1>t, <2>1 DEF OpenedFor
<1>5. Cardinality(OpenedFor(s)) = 0 /\ Cardinality(OpenedFor(s)') = 1
  BY <1>4, FS_EmptySet, FS_Singleton
<1>6. [x \in State |-> Cardinality(OpenedFor(x)')] =
        [[x \in State |-> Cardinality(OpenedFor(x))] EXCEPT ![s] = @ + 1]
  <2> DEFINE f == [x \in State |-> Cardinality(OpenedFor(x))]
             g == [f EXCEPT ![s] = @ + 1]
             h == [x \in State |-> Cardinality(OpenedFor(x)')]
  <2>1. \A x \in State : g[x] = IF x = s THEN Cardinality(OpenedFor(s)) + 1
                                          ELSE Cardinality(OpenedFor(x))
    BY <1>1
  <2>2. ASSUME NEW x \in State PROVE h[x] = g[x]
    <3>1. CASE x = s
      BY <1>5, <2>1, <3>1
    <3>2. CASE x # s
      BY <1>4, <2>1, <3>2
    <3>3. QED
      BY <3>1, <3>2
  <2>3. h = g
    BY <2>2
  <2>4. QED
    BY <2>3
<1>7. QED
  BY <1>1, <1>2, <1>3, <1>6 DEF Logins!Spend

\* What any step does to the states.
LEMMA StepUsesStates ==
  ASSUME TypeOK, StateInv, [Next]_vars
  PROVE  [Logins!Next]_(Logins!vars)
<1>t. /\ oauth \in [Request -> State \cup {None}] /\ None \notin State
      /\ \A r \in Request : pc[r] # "exchange" => oauth[r] = None
  BY SessionsAssumption DEF TypeOK, StateInv, Waiting
<1> USE <1>t, Drops DEF InHand, processVars, userVars, rowVars, requestVars
<1>1. ASSUME NEW o \in Owner, NEW configured \in BOOLEAN, Start(o, configured)
      PROVE  [Logins!Next]_(Logins!vars)
  BY <1>1 DEF Start
<1>2. CASE Crash
  BY <1>2 DEF Crash, Forget
<1>3. CASE Stop
  BY <1>3 DEF Stop
<1>4. CASE Stopped
  BY <1>4 DEF Stopped, Forget
<1>5. ASSUME NEW s \in State, LoginStart(s)
      PROVE  [Logins!Next]_(Logins!vars)
  BY <1>5, LoginStartIssues DEF Logins!Next
<1>6. ASSUME NEW c \in Sendable, NEW b \in Sendable, Logout(c, b)
      PROVE  [Logins!Next]_(Logins!vars)
  BY <1>6 DEF Logout
<1>7. ASSUME NEW c \in Sendable, NEW b \in Sendable, AuthMe(c, b)
      PROVE  [Logins!Next]_(Logins!vars)
  BY <1>7 DEF AuthMe
<1>8. ASSUME NEW r \in Request, NEW s \in State, Callback(r, s)
      PROVE  [Logins!Next]_(Logins!vars)
  BY <1>8 DEF Callback
<1>9. ASSUME NEW r \in Request, LoginFails(r)
      PROVE  [Logins!Next]_(Logins!vars)
  BY <1>9 DEF LoginFails, End
<1>10. ASSUME NEW r \in Request, NEW t \in LoginToken, Login(r, t)
      PROVE  [Logins!Next]_(Logins!vars)
  <2>1. PICK s : s = oauth[r]
    OBVIOUS
  <2>2. s \in State /\ Logins!Spend(s)
    BY <1>10, <2>1, LoginSpends
  <2>3. QED
    BY <2>2 DEF Logins!Next
<1>11. ASSUME NEW r \in Request, NEW c \in Sendable, NEW b \in Sendable, Arrive(r, c, b)
      PROVE  [Logins!Next]_(Logins!vars)
  BY <1>11 DEF Arrive
<1>12. ASSUME NEW r \in Request, NEW t \in Token, Receive(r, t)
      PROVE  [Logins!Next]_(Logins!vars)
  BY <1>12 DEF Receive, Credentials, Authenticated, Active
<1>13. ASSUME NEW r \in Request, Refuse(r)
      PROVE  [Logins!Next]_(Logins!vars)
  BY <1>13 DEF Refuse, End
<1>14. ASSUME NEW r \in Request, Answer(r)
      PROVE  [Logins!Next]_(Logins!vars)
  BY <1>14 DEF Answer, End
<1>15. ASSUME NEW t \in Token, Lapse(t)
      PROVE  [Logins!Next]_(Logins!vars)
  BY <1>15 DEF Lapse
<1>16. ASSUME NEW u \in User, Administrate(u)
      PROVE  [Logins!Next]_(Logins!vars)
  BY <1>16 DEF Administrate
<1>17. CASE UNCHANGED vars
  BY <1>17 DEF vars
<1>18. QED
  BY <1>1, <1>2, <1>3, <1>4, <1>5, <1>6, <1>7, <1>8, <1>9,
     <1>10, <1>11, <1>12, <1>13, <1>14, <1>15, <1>16, <1>17 DEF Next

\* However callbacks are repeated and processes die: an OAuth state is handed out
\* once, and at most once is there a session for it, opened by a callback that
\* brought it while it was good.
THEOREM StatesAreTokens == Spec => Logins!Spec
<1>1. Init => Logins!Init
  <2> SUFFICES ASSUME Init PROVE Logins!Init
    OBVIOUS
  <2>1. InHand = {}
    BY SessionsAssumption DEF Init, InHand
  <2>2. \A s \in State : OpenedFor(s) = {}
    BY SessionsAssumption DEF Init, OpenedFor
  <2>3. \A s \in State : Cardinality(OpenedFor(s)) = 0
    BY <2>2, FS_EmptySet
  <2>4. QED
    BY <2>1, <2>3 DEF Init, Logins!Init
<1>2. TypeOK /\ StateInv /\ [Next]_vars => [Logins!Next]_(Logins!vars)
  BY StepUsesStates
<1>3. QED
  BY <1>1, <1>2, StateStarts, TypeCorrect, StateInductive, PTL DEF Spec, Logins!Spec

-----------------------------------------------------------------------------
(* The owner of a session. *)

\* A session speaks for its own user, a login's for the owner it is mapped to.
OwnerIsUser ==
    \A t \in Token :
        session[t] # "none" =>
            \/ userOf[t] = ownerOf[t]
            \/ t \in LoginToken /\ userOf[t] = Account /\ ownerOf[t] = LoginOwner

\* One step leaves the user and the owner of a live session alone.
KeepsOwner ==
    \A t \in Token :
        session[t] = "live" /\ session'[t] = "live"
            => userOf'[t] = userOf[t] /\ ownerOf'[t] = ownerOf[t]

LEMMA StepKeepsOwner ==
  TypeOK /\ EndedInv /\ OwnerIsUser /\ [Next]_vars => OwnerIsUser' /\ KeepsOwner
<1> SUFFICES ASSUME TypeOK, EndedInv, OwnerIsUser, [Next]_vars
             PROVE  OwnerIsUser' /\ KeepsOwner
  OBVIOUS
<1> USE SessionsAssumption
        DEF TypeOK, Token, User, EndedInv, Unopened, OwnerIsUser, KeepsOwner,
            processVars, userVars, rowVars, requestVars
<1>1. ASSUME NEW o \in Owner, NEW configured \in BOOLEAN, Start(o, configured)
      PROVE  OwnerIsUser' /\ KeepsOwner
  BY <1>1 DEF Start, OpenSession
<1>2. CASE Crash
  BY <1>2 DEF Crash, Forget
<1>3. CASE Stop
  BY <1>3 DEF Stop
<1>4. CASE Stopped
  BY <1>4 DEF Stopped, Forget
<1>5. ASSUME NEW s \in State, LoginStart(s)
      PROVE  OwnerIsUser' /\ KeepsOwner
  BY <1>5 DEF LoginStart
<1>6. ASSUME NEW c \in Sendable, NEW b \in Sendable, Logout(c, b)
      PROVE  OwnerIsUser' /\ KeepsOwner
  BY <1>6 DEF Logout
<1>7. ASSUME NEW c \in Sendable, NEW b \in Sendable, AuthMe(c, b)
      PROVE  OwnerIsUser' /\ KeepsOwner
  BY <1>7 DEF AuthMe, Reap
<1>8. ASSUME NEW r \in Request, NEW s \in State, Callback(r, s)
      PROVE  OwnerIsUser' /\ KeepsOwner
  BY <1>8 DEF Callback
<1>9. ASSUME NEW r \in Request, LoginFails(r)
      PROVE  OwnerIsUser' /\ KeepsOwner
  BY <1>9 DEF LoginFails, End
<1>10. ASSUME NEW r \in Request, NEW t \in LoginToken, Login(r, t)
      PROVE  OwnerIsUser' /\ KeepsOwner
  BY <1>10 DEF Login, OpenSession, End, Known
<1>11. ASSUME NEW r \in Request, NEW c \in Sendable, NEW b \in Sendable, Arrive(r, c, b)
      PROVE  OwnerIsUser' /\ KeepsOwner
  BY <1>11 DEF Arrive
<1>12. ASSUME NEW r \in Request, NEW t \in Token, Receive(r, t)
      PROVE  OwnerIsUser' /\ KeepsOwner
  BY <1>12 DEF Receive, Credentials, Authenticated, Active
<1>13. ASSUME NEW r \in Request, Refuse(r)
      PROVE  OwnerIsUser' /\ KeepsOwner
  BY <1>13 DEF Refuse, End, Reap
<1>14. ASSUME NEW r \in Request, Answer(r)
      PROVE  OwnerIsUser' /\ KeepsOwner
  BY <1>14 DEF Answer, End
<1>15. ASSUME NEW t \in Token, Lapse(t)
      PROVE  OwnerIsUser' /\ KeepsOwner
  BY <1>15 DEF Lapse
<1>16. ASSUME NEW u \in User, Administrate(u)
      PROVE  OwnerIsUser' /\ KeepsOwner
  BY <1>16 DEF Administrate
<1>17. CASE UNCHANGED vars
  BY <1>17 DEF vars
<1>18. QED
  BY <1>1, <1>2, <1>3, <1>4, <1>5, <1>6, <1>7, <1>8, <1>9,
     <1>10, <1>11, <1>12, <1>13, <1>14, <1>15, <1>16, <1>17 DEF Next

\* Whoever the process is started for, nobody's session becomes another's: a live
\* session keeps its user and owner over restarts, and no row lets a user speak for
\* an owner he is not, but the login's for the one it is mapped to.
THEOREM SessionsKeepOwner == Spec => []OwnerIsUser /\ [][KeepsOwner]_vars
<1>1. Init => OwnerIsUser /\ EndedInv
  BY DEF Init, OwnerIsUser, EndedInv, Unopened, Token
<1>2. QED
  BY <1>1, StateStarts, TypeCorrect, StateInductive, EndedInductive, StepKeepsOwner, PTL DEF Spec
=============================================================================
