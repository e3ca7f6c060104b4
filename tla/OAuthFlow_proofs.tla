------------------------- MODULE OAuthFlow_proofs -------------------------
(***************************************************************************)
(* Proofs about OAuthFlow, for any timeout, interval and sessions.         *)
(***************************************************************************)
EXTENDS OAuthFlow, TLAPS

\* Answers arrive where they are waited for; polls follow a session.
Phases ==
  /\ reply # None => pc = "waiting"
  /\ result = "none" <=> pc # "done"
  /\ pc = "ask" => asking # "poll"
  /\ asking = "poll" \/ pc \in {"check", "sleep"} => session # None

\* The session is one the server made where it is polled.
SessionIsKnown ==
  /\ session # None => /\ home[session] = base /\ session \in shown
                       /\ server[session] # "none"
  /\ reply # None /\ reply.kind = "session" =>
       /\ asking # "poll" /\ reply.id \in Session
       /\ home[reply.id] = asking /\ server[reply.id] # "none"

\* A session waits for its user or has been granted.
GrantsAreKept ==
  \A s \in Session :
    /\ server[s] = "granted" => granted[s] # Never
    /\ server[s] \in {"none", "waiting"} => granted[s] = Never

\* An answer that is no fault says what the server knew of the session.
AnswersAreTrue ==
  /\ reply # None /\ ~fault =>
       IF asking = "poll"
         THEN /\ reply.kind \in {"pending", "complete", "error", "not_found"}
              /\ reply.id = session
         ELSE reply.kind = "session"
  /\ reply # None /\ asking = "poll" =>
       /\ reply.kind \in {"error", "not_found"} => server[session] \in {"refused", "gone"}
       /\ HasToken(reply) => reply.id = session /\ granted[session] # Never

\* The user has not granted the session before the latest "pending" answer was
\* on its way: its age, then the slowest poll, then the sleep bound the wait.
WaitIsBounded ==
  /\ session # None => elapsed = looking
  /\ reply # None /\ reply.kind = "pending" =>
       asking = "poll" /\ granted[session] + age >= looking
  /\ pc = "sleep" => granted[session] + slowest + Interval >= looking + rest
  /\ pc = "check" => granted[session] + slowest + Interval >= looking
  /\ result = "timeout" => session # None /\ elapsed >= Timeout

IInv ==
  /\ TypeOK
  /\ Phases
  /\ SessionIsKnown
  /\ GrantsAreKept
  /\ AnswersAreTrue
  /\ WaitIsBounded
  /\ TokenIsGranted
  /\ TimeoutIsDue
  /\ ErrorHasCause

USE OAuthAssumption DEF vars, driver, remote, clocks

LEMMA TimesAreNumbers ==
  /\ Timeout \in Nat /\ Timeout # 0 /\ Interval \in Nat /\ Interval # 0
  /\ Late \in Nat /\ Never \in Nat /\ Late = Timeout + 1 /\ Never = Timeout + 2
  /\ 0 \in 0 .. Late /\ 0 \in 0 .. Interval /\ Never \in 0 .. Never /\ Interval \in 0 .. Interval
BY DEF Late, Never

LEMMA NeverIsLater ==
  ASSUME NEW t \in 0 .. Late
  PROVE  t \in 0 .. Never /\ t # Never
BY TimesAreNumbers

LEMMA InitIInv == Init => IInv
<1> SUFFICES ASSUME Init PROVE IInv
  OBVIOUS
<1>1. TypeOK
  <2>1. granted \in [Session -> 0 .. Never]
    BY TimesAreNumbers DEF Init
  <2>2. {elapsed, looking, age, slowest} \subseteq 0 .. Late /\ rest \in 0 .. Interval
    BY TimesAreNumbers DEF Init
  <2>3. asking \in Base \cup {"poll"}
    BY DEF Init, Base
  <2> QED
    BY <2>1, <2>2, <2>3 DEF Init, TypeOK
<1>2. Phases /\ SessionIsKnown /\ GrantsAreKept
  BY DEF Init, Phases, SessionIsKnown, GrantsAreKept
<1>3. AnswersAreTrue /\ WaitIsBounded
  BY DEF Init, AnswersAreTrue, WaitIsBounded
<1>4. TokenIsGranted /\ TimeoutIsDue /\ ErrorHasCause
  BY DEF Init, TokenIsGranted, TimeoutIsDue, ErrorHasCause
<1> QED
  BY <1>1, <1>2, <1>3, <1>4 DEF IInv

-----------------------------------------------------------------------------
(***************************************************************************)
(* The driver.                                                             *)
(***************************************************************************)
LEMMA InitiateStep ==
  ASSUME IInv, Initiate
  PROVE  IInv'
<1> USE DEF IInv, Initiate, Send
<1>0. TypeOK'
  <2>1. age' \in 0 .. Late
    BY TimesAreNumbers
  <2> QED
    BY <2>1 DEF TypeOK
<1>1. Phases'
  BY <1>0 DEF TypeOK, Phases
<1>2. SessionIsKnown'
  BY <1>0 DEF TypeOK, SessionIsKnown, Phases
<1>3. GrantsAreKept'
  BY <1>0 DEF TypeOK, GrantsAreKept
<1>4. AnswersAreTrue'
  BY <1>0 DEF TypeOK, AnswersAreTrue, HasToken, SessionIsKnown, Phases
<1>5. WaitIsBounded'
  BY <1>0, TimesAreNumbers DEF TypeOK, WaitIsBounded, Phases
<1>6. TokenIsGranted'
  BY <1>0 DEF TypeOK, TokenIsGranted, AnswersAreTrue, Phases, SessionIsKnown, HasToken
<1>7. TimeoutIsDue'
  BY <1>0, TimesAreNumbers DEF TypeOK, TimeoutIsDue, WaitIsBounded, Phases
<1>8. ErrorHasCause'
  BY <1>0 DEF TypeOK, ErrorHasCause, AnswersAreTrue, Phases
<1> QED
  BY <1>0, <1>1, <1>2, <1>3, <1>4, <1>5, <1>6, <1>7, <1>8

LEMMA InitiateAnsweredStep ==
  ASSUME IInv, InitiateAnswered
  PROVE  IInv'
<1> USE DEF IInv, InitiateAnswered, FoundBase, Restarted
<1>0. TypeOK'
  <2>1. {elapsed', looking'} \subseteq 0 .. Late
    BY TimesAreNumbers
  <2>2. base' \in Base /\ session' \in Session
    BY DEF TypeOK, SessionIsKnown
  <2> QED
    BY <2>1, <2>2 DEF TypeOK
<1>1. Phases'
  BY <1>0 DEF TypeOK, Phases
<1>2. SessionIsKnown'
  BY <1>0 DEF TypeOK, SessionIsKnown, Phases
<1>3. GrantsAreKept'
  BY <1>0 DEF TypeOK, GrantsAreKept
<1>4. AnswersAreTrue'
  BY <1>0 DEF TypeOK, AnswersAreTrue, HasToken, SessionIsKnown, Phases
<1>5. WaitIsBounded'
  BY <1>0, TimesAreNumbers DEF TypeOK, WaitIsBounded, Phases
<1>6. TokenIsGranted'
  BY <1>0 DEF TypeOK, TokenIsGranted, AnswersAreTrue, Phases, SessionIsKnown, HasToken
<1>7. TimeoutIsDue'
  BY <1>0, TimesAreNumbers DEF TypeOK, TimeoutIsDue, WaitIsBounded, Phases
<1>8. ErrorHasCause'
  BY <1>0 DEF TypeOK, ErrorHasCause, AnswersAreTrue, Phases
<1> QED
  BY <1>0, <1>1, <1>2, <1>3, <1>4, <1>5, <1>6, <1>7, <1>8

LEMMA InitiateRefusedStep ==
  ASSUME IInv, InitiateRefused
  PROVE  IInv'
<1> USE DEF IInv, InitiateRefused, InitiateFails, FallsBack, End
<1>0. TypeOK'
  BY TimesAreNumbers DEF TypeOK, Base, Answers
<1>1. Phases'
  BY <1>0 DEF TypeOK, Phases
<1>2. SessionIsKnown'
  BY <1>0 DEF TypeOK, SessionIsKnown, Phases
<1>3. GrantsAreKept'
  BY <1>0 DEF TypeOK, GrantsAreKept
<1>4. AnswersAreTrue'
  BY <1>0 DEF TypeOK, AnswersAreTrue, HasToken, SessionIsKnown, Phases
<1>5. WaitIsBounded'
  BY <1>0, TimesAreNumbers DEF TypeOK, WaitIsBounded, Phases
<1>6. TokenIsGranted'
  BY <1>0 DEF TypeOK, TokenIsGranted, AnswersAreTrue, Phases, SessionIsKnown, HasToken
<1>7. TimeoutIsDue'
  BY <1>0, TimesAreNumbers DEF TypeOK, TimeoutIsDue, WaitIsBounded, Phases
<1>8. ErrorHasCause'
  BY <1>0 DEF TypeOK, ErrorHasCause, AnswersAreTrue, Phases
<1> QED
  BY <1>0, <1>1, <1>2, <1>3, <1>4, <1>5, <1>6, <1>7, <1>8

LEMMA TimesOutStep ==
  ASSUME IInv, TimesOut
  PROVE  IInv'
<1> USE DEF IInv, TimesOut, Expired, End
<1>0. TypeOK'
  BY TimesAreNumbers DEF TypeOK, Base, Answers
<1>1. Phases'
  BY <1>0 DEF TypeOK, Phases
<1>2. SessionIsKnown'
  BY <1>0 DEF TypeOK, SessionIsKnown, Phases
<1>3. GrantsAreKept'
  BY <1>0 DEF TypeOK, GrantsAreKept
<1>4. AnswersAreTrue'
  BY <1>0 DEF TypeOK, AnswersAreTrue, HasToken, SessionIsKnown, Phases
<1>5. WaitIsBounded'
  BY <1>0, TimesAreNumbers DEF TypeOK, WaitIsBounded, Phases
<1>6. TokenIsGranted'
  BY <1>0 DEF TypeOK, TokenIsGranted, AnswersAreTrue, Phases, SessionIsKnown, HasToken
<1>7. TimeoutIsDue'
  BY <1>0, TimesAreNumbers DEF TypeOK, TimeoutIsDue, WaitIsBounded, Phases
<1>8. ErrorHasCause'
  BY <1>0 DEF TypeOK, ErrorHasCause, AnswersAreTrue, Phases
<1> QED
  BY <1>0, <1>1, <1>2, <1>3, <1>4, <1>5, <1>6, <1>7, <1>8

LEMMA PollStep ==
  ASSUME IInv, Poll
  PROVE  IInv'
<1> USE DEF IInv, Poll, Send
<1>0. TypeOK'
  <2>1. age' \in 0 .. Late
    BY TimesAreNumbers
  <2> QED
    BY <2>1 DEF TypeOK
<1>1. Phases'
  BY <1>0 DEF TypeOK, Phases
<1>2. SessionIsKnown'
  BY <1>0 DEF TypeOK, SessionIsKnown, Phases
<1>3. GrantsAreKept'
  BY <1>0 DEF TypeOK, GrantsAreKept
<1>4. AnswersAreTrue'
  BY <1>0 DEF TypeOK, AnswersAreTrue, HasToken, SessionIsKnown, Phases
<1>5. WaitIsBounded'
  BY <1>0, TimesAreNumbers DEF TypeOK, WaitIsBounded, Phases
<1>6. TokenIsGranted'
  BY <1>0 DEF TypeOK, TokenIsGranted, AnswersAreTrue, Phases, SessionIsKnown, HasToken
<1>7. TimeoutIsDue'
  BY <1>0, TimesAreNumbers DEF TypeOK, TimeoutIsDue, WaitIsBounded, Phases
<1>8. ErrorHasCause'
  BY <1>0 DEF TypeOK, ErrorHasCause, AnswersAreTrue, Phases
<1> QED
  BY <1>0, <1>1, <1>2, <1>3, <1>4, <1>5, <1>6, <1>7, <1>8

LEMMA PollAnsweredStep ==
  ASSUME IInv, PollAnswered
  PROVE  IInv'
<1> USE DEF IInv, PollAnswered, End, HasToken
<1>0. TypeOK'
  BY TimesAreNumbers DEF TypeOK, Base, Answers
<1>1. Phases'
  BY <1>0 DEF TypeOK, Phases
<1>2. SessionIsKnown'
  BY <1>0 DEF TypeOK, SessionIsKnown, Phases
<1>3. GrantsAreKept'
  BY <1>0 DEF TypeOK, GrantsAreKept
<1>4. AnswersAreTrue'
  BY <1>0 DEF TypeOK, AnswersAreTrue, HasToken, SessionIsKnown, Phases
<1>5. WaitIsBounded'
  BY <1>0, TimesAreNumbers DEF TypeOK, WaitIsBounded, Phases
<1>6. TokenIsGranted'
  BY <1>0 DEF TypeOK, TokenIsGranted, AnswersAreTrue, Phases, SessionIsKnown, HasToken
<1>7. TimeoutIsDue'
  BY <1>0, TimesAreNumbers DEF TypeOK, TimeoutIsDue, WaitIsBounded, Phases
<1>8. ErrorHasCause'
  BY <1>0 DEF TypeOK, ErrorHasCause, AnswersAreTrue, Phases
<1> QED
  BY <1>0, <1>1, <1>2, <1>3, <1>4, <1>5, <1>6, <1>7, <1>8

LEMMA WakesStep ==
  ASSUME IInv, Wakes
  PROVE  IInv'
<1> USE DEF IInv, Wakes
<1>0. TypeOK'
  BY TimesAreNumbers DEF TypeOK, Base, Answers
<1>1. Phases'
  BY <1>0 DEF TypeOK, Phases
<1>2. SessionIsKnown'
  BY <1>0 DEF TypeOK, SessionIsKnown, Phases
<1>3. GrantsAreKept'
  BY <1>0 DEF TypeOK, GrantsAreKept
<1>4. AnswersAreTrue'
  BY <1>0 DEF TypeOK, AnswersAreTrue, HasToken, SessionIsKnown, Phases
<1>5. WaitIsBounded'
  BY <1>0, TimesAreNumbers DEF TypeOK, WaitIsBounded, Phases
<1>6. TokenIsGranted'
  BY <1>0 DEF TypeOK, TokenIsGranted, AnswersAreTrue, Phases, SessionIsKnown, HasToken
<1>7. TimeoutIsDue'
  BY <1>0, TimesAreNumbers DEF TypeOK, TimeoutIsDue, WaitIsBounded, Phases
<1>8. ErrorHasCause'
  BY <1>0 DEF TypeOK, ErrorHasCause, AnswersAreTrue, Phases
<1> QED
  BY <1>0, <1>1, <1>2, <1>3, <1>4, <1>5, <1>6, <1>7, <1>8

LEMMA SleepCanceledStep ==
  ASSUME IInv, SleepCanceled
  PROVE  IInv'
<1> USE DEF IInv, SleepCanceled, End
<1>0. TypeOK'
  BY TimesAreNumbers DEF TypeOK, Base, Answers
<1>1. Phases'
  BY <1>0 DEF TypeOK, Phases
<1>2. SessionIsKnown'
  BY <1>0 DEF TypeOK, SessionIsKnown, Phases
<1>3. GrantsAreKept'
  BY <1>0 DEF TypeOK, GrantsAreKept
<1>4. AnswersAreTrue'
  BY <1>0 DEF TypeOK, AnswersAreTrue, HasToken, SessionIsKnown, Phases
<1>5. WaitIsBounded'
  BY <1>0, TimesAreNumbers DEF TypeOK, WaitIsBounded, Phases
<1>6. TokenIsGranted'
  BY <1>0 DEF TypeOK, TokenIsGranted, AnswersAreTrue, Phases, SessionIsKnown, HasToken
<1>7. TimeoutIsDue'
  BY <1>0, TimesAreNumbers DEF TypeOK, TimeoutIsDue, WaitIsBounded, Phases
<1>8. ErrorHasCause'
  BY <1>0 DEF TypeOK, ErrorHasCause, AnswersAreTrue, Phases
<1> QED
  BY <1>0, <1>1, <1>2, <1>3, <1>4, <1>5, <1>6, <1>7, <1>8

LEMMA RequestCanceledStep ==
  ASSUME IInv, RequestCanceled
  PROVE  IInv'
<1> USE DEF IInv, RequestCanceled, ContextEnds, InitiateFails, FallsBack, End
<1>0. TypeOK'
  BY TimesAreNumbers DEF TypeOK, Base, Answers
<1>1. Phases'
  BY <1>0 DEF TypeOK, Phases
<1>2. SessionIsKnown'
  BY <1>0 DEF TypeOK, SessionIsKnown, Phases
<1>3. GrantsAreKept'
  BY <1>0 DEF TypeOK, GrantsAreKept
<1>4. AnswersAreTrue'
  BY <1>0 DEF TypeOK, AnswersAreTrue, HasToken, SessionIsKnown, Phases
<1>5. WaitIsBounded'
  BY <1>0, TimesAreNumbers DEF TypeOK, WaitIsBounded, Phases
<1>6. TokenIsGranted'
  BY <1>0 DEF TypeOK, TokenIsGranted, AnswersAreTrue, Phases, SessionIsKnown, HasToken
<1>7. TimeoutIsDue'
  BY <1>0, TimesAreNumbers DEF TypeOK, TimeoutIsDue, WaitIsBounded, Phases
<1>8. ErrorHasCause'
  BY <1>0 DEF TypeOK, ErrorHasCause, AnswersAreTrue, Phases
<1> QED
  BY <1>0, <1>1, <1>2, <1>3, <1>4, <1>5, <1>6, <1>7, <1>8

-----------------------------------------------------------------------------
(***************************************************************************)
(* The server, the network, the user, the caller, and time.                *)
(***************************************************************************)
LEMMA ServerInitiatesStep ==
  ASSUME IInv, NEW s \in Session, ServerInitiates(s)
  PROVE  IInv'
<1> USE DEF IInv, ServerInitiates, Asked, Answer
<1>0. TypeOK'
  BY TimesAreNumbers DEF TypeOK, Base, Answers
<1>1. Phases'
  BY <1>0 DEF TypeOK, Phases
<1>2. SessionIsKnown'
  BY <1>0 DEF TypeOK, SessionIsKnown, Phases
<1>3. GrantsAreKept'
  BY <1>0 DEF TypeOK, GrantsAreKept
<1>4. AnswersAreTrue'
  BY <1>0 DEF TypeOK, AnswersAreTrue, HasToken, SessionIsKnown, Phases
<1>5. WaitIsBounded'
  BY <1>0, TimesAreNumbers DEF TypeOK, WaitIsBounded, Phases
<1>6. TokenIsGranted'
  BY <1>0 DEF TypeOK, TokenIsGranted, AnswersAreTrue, Phases, SessionIsKnown, HasToken
<1>7. TimeoutIsDue'
  BY <1>0, TimesAreNumbers DEF TypeOK, TimeoutIsDue, WaitIsBounded, Phases
<1>8. ErrorHasCause'
  BY <1>0 DEF TypeOK, ErrorHasCause, AnswersAreTrue, Phases
<1> QED
  BY <1>0, <1>1, <1>2, <1>3, <1>4, <1>5, <1>6, <1>7, <1>8

LEMMA ServerAnswersPollStep ==
  ASSUME IInv, ServerAnswersPoll
  PROVE  IInv'
<1> USE DEF IInv, ServerAnswersPoll, Asked, Answer, Status
<1>a. session \in Session /\ home[session] = base /\ server[session] # "none"
  BY DEF TypeOK, Phases, SessionIsKnown
<1>b. /\ reply' = [kind |-> Status(session, base), id |-> session]
       /\ reply' \in Answers /\ reply'.kind = Status(session, base) /\ reply'.id = session
       /\ Status(session, base) \in {"pending", "complete", "error", "not_found"}
  <2>1. Status(session, base) \in {"pending", "complete", "error", "not_found"}
    BY <1>a DEF TypeOK
  <2>2. [kind |-> Status(session, base), id |-> session] \in Answers
    BY <1>a, <2>1 DEF Answers
  <2> HIDE DEF Status
  <2> QED
    BY <2>1, <2>2
<1>0. TypeOK'
  BY <1>b DEF TypeOK
<1>1. Phases'
  BY <1>0 DEF TypeOK, Phases
<1>2. SessionIsKnown'
  BY <1>0 DEF TypeOK, SessionIsKnown, Phases
<1>3. GrantsAreKept'
  BY <1>0 DEF TypeOK, GrantsAreKept
<1>4. AnswersAreTrue'
  <2>1. Status(session, base) = "complete" => granted[session] # Never
    BY <1>a DEF TypeOK, GrantsAreKept
  <2>2. Status(session, base) \in {"error", "not_found"} => server[session] \in {"refused", "gone"}
    BY <1>a DEF TypeOK
  <2> HIDE DEF Status
  <2> QED
    BY <1>a, <1>b, <2>1, <2>2 DEF AnswersAreTrue, HasToken
<1>5. WaitIsBounded'
  <2>1. Status(session, base) = "pending" => granted[session] = Never
    BY <1>a DEF TypeOK, GrantsAreKept
  <2>2. Never + age >= looking
    BY TimesAreNumbers DEF TypeOK
  <2> HIDE DEF Status
  <2> QED
    BY <1>a, <1>b, <2>1, <2>2 DEF WaitIsBounded, Phases
<1>6. TokenIsGranted'
  BY <1>0 DEF TypeOK, TokenIsGranted, AnswersAreTrue, Phases, SessionIsKnown, HasToken
<1>7. TimeoutIsDue'
  BY <1>0, TimesAreNumbers DEF TypeOK, TimeoutIsDue, WaitIsBounded, Phases
<1>8. ErrorHasCause'
  BY <1>0 DEF TypeOK, ErrorHasCause, AnswersAreTrue, Phases
<1> QED
  BY <1>0, <1>1, <1>2, <1>3, <1>4, <1>5, <1>6, <1>7, <1>8

LEMMA RequestFailsStep ==
  ASSUME IInv, NEW kind \in {"failed", "garbled", "complete"}, RequestFails(kind)
  PROVE  IInv'
<1> USE DEF IInv, RequestFails, Answer
<1>0. TypeOK'
  BY TimesAreNumbers DEF TypeOK, Base, Answers
<1>1. Phases'
  BY <1>0 DEF TypeOK, Phases
<1>2. SessionIsKnown'
  BY <1>0 DEF TypeOK, SessionIsKnown, Phases
<1>3. GrantsAreKept'
  BY <1>0 DEF TypeOK, GrantsAreKept
<1>4. AnswersAreTrue'
  BY <1>0 DEF TypeOK, AnswersAreTrue, HasToken, SessionIsKnown, Phases
<1>5. WaitIsBounded'
  BY <1>0, TimesAreNumbers DEF TypeOK, WaitIsBounded, Phases
<1>6. TokenIsGranted'
  BY <1>0 DEF TypeOK, TokenIsGranted, AnswersAreTrue, Phases, SessionIsKnown, HasToken
<1>7. TimeoutIsDue'
  BY <1>0, TimesAreNumbers DEF TypeOK, TimeoutIsDue, WaitIsBounded, Phases
<1>8. ErrorHasCause'
  BY <1>0 DEF TypeOK, ErrorHasCause, AnswersAreTrue, Phases
<1> QED
  BY <1>0, <1>1, <1>2, <1>3, <1>4, <1>5, <1>6, <1>7, <1>8

LEMMA UserDecidesStep ==
  ASSUME IInv, NEW s \in Session, NEW what \in {"granted", "refused"}, UserDecides(s, what)
  PROVE  IInv'
<1> USE DEF IInv, UserDecides
<1>a. looking \in 0 .. Never /\ looking # Never
  BY NeverIsLater DEF TypeOK
<1>0. TypeOK'
  BY TimesAreNumbers DEF TypeOK, Base, Answers
<1>1. Phases'
  BY <1>0 DEF TypeOK, Phases
<1>2. SessionIsKnown'
  BY <1>0 DEF TypeOK, SessionIsKnown, Phases
<1>3. GrantsAreKept'
  BY <1>0, <1>a DEF TypeOK, GrantsAreKept
<1>4. AnswersAreTrue'
  BY <1>0, <1>a DEF TypeOK, AnswersAreTrue, HasToken, SessionIsKnown, Phases
<1>5. WaitIsBounded'
  BY <1>0, TimesAreNumbers DEF TypeOK, WaitIsBounded, Phases
<1>6. TokenIsGranted'
  BY <1>0, <1>a DEF TypeOK, TokenIsGranted, AnswersAreTrue, Phases, SessionIsKnown, HasToken
<1>7. TimeoutIsDue'
  BY <1>0, TimesAreNumbers DEF TypeOK, TimeoutIsDue, WaitIsBounded, Phases
<1>8. ErrorHasCause'
  BY <1>0 DEF TypeOK, ErrorHasCause, AnswersAreTrue, Phases
<1> QED
  BY <1>0, <1>1, <1>2, <1>3, <1>4, <1>5, <1>6, <1>7, <1>8

LEMMA SessionExpiresStep ==
  ASSUME IInv, NEW s \in Session, SessionExpires(s)
  PROVE  IInv'
<1> USE DEF IInv, SessionExpires
<1>0. TypeOK'
  BY TimesAreNumbers DEF TypeOK, Base, Answers
<1>1. Phases'
  BY <1>0 DEF TypeOK, Phases
<1>2. SessionIsKnown'
  BY <1>0 DEF TypeOK, SessionIsKnown, Phases
<1>3. GrantsAreKept'
  BY <1>0 DEF TypeOK, GrantsAreKept
<1>4. AnswersAreTrue'
  BY <1>0 DEF TypeOK, AnswersAreTrue, HasToken, SessionIsKnown, Phases
<1>5. WaitIsBounded'
  BY <1>0, TimesAreNumbers DEF TypeOK, WaitIsBounded, Phases
<1>6. TokenIsGranted'
  BY <1>0 DEF TypeOK, TokenIsGranted, AnswersAreTrue, Phases, SessionIsKnown, HasToken
<1>7. TimeoutIsDue'
  BY <1>0, TimesAreNumbers DEF TypeOK, TimeoutIsDue, WaitIsBounded, Phases
<1>8. ErrorHasCause'
  BY <1>0 DEF TypeOK, ErrorHasCause, AnswersAreTrue, Phases
<1> QED
  BY <1>0, <1>1, <1>2, <1>3, <1>4, <1>5, <1>6, <1>7, <1>8

LEMMA CallerCancelsStep ==
  ASSUME IInv, CallerCancels
  PROVE  IInv'
<1> USE DEF IInv, CallerCancels
<1>0. TypeOK'
  BY TimesAreNumbers DEF TypeOK, Base, Answers
<1>1. Phases'
  BY <1>0 DEF TypeOK, Phases
<1>2. SessionIsKnown'
  BY <1>0 DEF TypeOK, SessionIsKnown, Phases
<1>3. GrantsAreKept'
  BY <1>0 DEF TypeOK, GrantsAreKept
<1>4. AnswersAreTrue'
  BY <1>0 DEF TypeOK, AnswersAreTrue, HasToken, SessionIsKnown, Phases
<1>5. WaitIsBounded'
  BY <1>0, TimesAreNumbers DEF TypeOK, WaitIsBounded, Phases
<1>6. TokenIsGranted'
  BY <1>0 DEF TypeOK, TokenIsGranted, AnswersAreTrue, Phases, SessionIsKnown, HasToken
<1>7. TimeoutIsDue'
  BY <1>0, TimesAreNumbers DEF TypeOK, TimeoutIsDue, WaitIsBounded, Phases
<1>8. ErrorHasCause'
  BY <1>0 DEF TypeOK, ErrorHasCause, AnswersAreTrue, Phases
<1> QED
  BY <1>0, <1>1, <1>2, <1>3, <1>4, <1>5, <1>6, <1>7, <1>8

LEMMA TickStep ==
  ASSUME IInv, Tick
  PROVE  IInv'
<1> USE DEF IInv, Tick, Later
<1>0. TypeOK'
  BY TimesAreNumbers DEF TypeOK, Base, Answers
<1>1. Phases'
  BY <1>0 DEF TypeOK, Phases
<1>2. SessionIsKnown'
  BY <1>0 DEF TypeOK, SessionIsKnown, Phases
<1>3. GrantsAreKept'
  BY <1>0 DEF TypeOK, GrantsAreKept
<1>4. AnswersAreTrue'
  BY <1>0 DEF TypeOK, AnswersAreTrue, HasToken, SessionIsKnown, Phases
<1>5. WaitIsBounded'
  BY <1>0, TimesAreNumbers DEF TypeOK, WaitIsBounded, Phases
<1>6. TokenIsGranted'
  BY <1>0 DEF TypeOK, TokenIsGranted, AnswersAreTrue, Phases, SessionIsKnown, HasToken
<1>7. TimeoutIsDue'
  BY <1>0, TimesAreNumbers DEF TypeOK, TimeoutIsDue, WaitIsBounded, Phases
<1>8. ErrorHasCause'
  BY <1>0 DEF TypeOK, ErrorHasCause, AnswersAreTrue, Phases
<1> QED
  BY <1>0, <1>1, <1>2, <1>3, <1>4, <1>5, <1>6, <1>7, <1>8

-----------------------------------------------------------------------------
LEMMA NextIInv == IInv /\ [Next]_vars => IInv'
<1> SUFFICES ASSUME IInv, [Next]_vars PROVE IInv'
  OBVIOUS
<1>1. CASE Driver
  BY <1>1, InitiateStep, InitiateAnsweredStep, InitiateRefusedStep, TimesOutStep, PollStep,
     PollAnsweredStep, WakesStep, SleepCanceledStep, RequestCanceledStep DEF Driver
<1>2. CASE Network \/ AnswerLost
  BY <1>2, ServerInitiatesStep, ServerAnswersPollStep, RequestFailsStep DEF Network, AnswerLost
<1>3. CASE CallerCancels \/ Tick
  BY <1>3, CallerCancelsStep, TickStep
<1>4. ASSUME NEW s \in Session,
             UserDecides(s, "granted") \/ UserDecides(s, "refused") \/ SessionExpires(s)
      PROVE  IInv'
  BY <1>4, UserDecidesStep, SessionExpiresStep
<1>5. CASE UNCHANGED vars
  <2> USE <1>5 DEF IInv
  <2>1. TypeOK' /\ Phases' /\ SessionIsKnown' /\ GrantsAreKept'
    BY DEF TypeOK, Phases, SessionIsKnown, GrantsAreKept
  <2>2. AnswersAreTrue' /\ WaitIsBounded'
    BY DEF AnswersAreTrue, HasToken, WaitIsBounded
  <2>3. TokenIsGranted' /\ TimeoutIsDue' /\ ErrorHasCause'
    BY DEF TokenIsGranted, TimeoutIsDue, ErrorHasCause
  <2> QED
    BY <2>1, <2>2, <2>3
<1> QED
  BY <1>1, <1>2, <1>3, <1>4, <1>5 DEF Next

LEMMA Invariance == Spec => []IInv
BY InitIInv, NextIInv, PTL DEF Spec

\* The flow, its server and its clocks keep their types.
THEOREM TypeCorrect == Spec => []TypeOK
<1>1. IInv => TypeOK
  BY DEF IInv
<1> QED
  BY <1>1, Invariance, PTL

\* A flow that succeeds has the token of the session it showed, and the user has
\* granted that session.
THEOREM TokenCorrect == Spec => []TokenIsGranted
<1>1. IInv => TokenIsGranted
  BY DEF IInv
<1> QED
  BY <1>1, Invariance, PTL

\* A user who grants the session early enough is not told that time is up.
THEOREM TimeoutCorrect == Spec => []TimeoutIsDue
<1>1. IInv => TimeoutIsDue
  BY DEF IInv
<1> QED
  BY <1>1, Invariance, PTL

\* The flow fails only for a reason outside of it.
THEOREM ErrorCorrect == Spec => []ErrorHasCause
<1>1. IInv => ErrorHasCause
  BY DEF IInv
<1> QED
  BY <1>1, Invariance, PTL
-----------------------------------------------------------------------------
(***************************************************************************)
(* How long a flow takes.  Each step of the driver uses up one of a number *)
(* of steps that neither time nor anybody else adds to: the two requests   *)
(* of the discovery, a cycle of poll and sleep for each tick before the    *)
(* deadline, and one cycle that meets it.                                  *)
(***************************************************************************)
MostCycles == 5 * Late + 3

OfDiscovery(p, a) == (IF p = "ask" THEN 2 ELSE 1) + (IF a = "https" THEN 2 ELSE 0)

\* With time left the sleep comes last, and is followed by a tick.
OfCycle(p, r) == IF p = "waiting" THEN 2
                 ELSE IF p = "check" THEN 3
                 ELSE IF r = 0 THEN 4 ELSE 1

OfLastCycle(p, r) == IF p = "waiting" THEN 4
                     ELSE IF p = "check" THEN 1
                     ELSE IF r = 0 THEN 2 ELSE 3

OfPolling(p, r, e) == IF e = Late THEN OfLastCycle(p, r) ELSE 5 * (Late - e) + OfCycle(p, r)

StepsLeft ==
  IF pc = "done" THEN 0
  ELSE IF session = None THEN MostCycles + OfDiscovery(pc, asking)
  ELSE OfPolling(pc, rest, elapsed)

\* A flow that has its session asks for nothing but its token.
OnlyPolls ==
  session # None => \/ pc \in {"check", "done"}
                    \/ pc \in {"waiting", "sleep"} /\ asking = "poll"

LEMMA OnlyPollsInvariance == Spec => []OnlyPolls
<1>1. Init => OnlyPolls
  BY DEF Init, OnlyPolls
<1>2. IInv /\ OnlyPolls /\ [Next]_vars => OnlyPolls'
  <2> SUFFICES ASSUME IInv, OnlyPolls, [Next]_vars PROVE OnlyPolls'
    OBVIOUS
  <2>1. CASE Driver
    BY <2>1 DEF Driver, Initiate, InitiateAnswered, InitiateRefused, InitiateFails, FallsBack,
                TimesOut, Poll, PollAnswered, Wakes, SleepCanceled, RequestCanceled, Send, End,
                OnlyPolls, IInv, Phases
  <2>2. CASE UNCHANGED << pc, asking, session >>
    BY <2>2 DEF OnlyPolls
  <2> QED
    BY <2>1, <2>2 DEF Next, Network, AnswerLost, ServerInitiates, ServerAnswersPoll,
                      RequestFails, CallerCancels, Tick, UserDecides, SessionExpires
<1> QED
  BY <1>1, <1>2, Invariance, PTL DEF Spec

LEMMA DiscoveryNumbers ==
  ASSUME NEW p, NEW a
  PROVE  /\ OfDiscovery(p, a) \in 1 .. 4
         /\ a # "https" => OfDiscovery("ask", a) = 2 /\ OfDiscovery("waiting", a) = 1
         /\ OfDiscovery("ask", "https") = 4 /\ OfDiscovery("waiting", "https") = 3
BY DEF OfDiscovery

LEMMA CycleNumbers ==
  ASSUME NEW p, NEW r
  PROVE  /\ OfCycle(p, r) \in 1 .. 4 /\ OfLastCycle(p, r) \in 1 .. 4
         /\ OfCycle("waiting", r) = 2 /\ OfLastCycle("waiting", r) = 4
         /\ OfCycle("check", r) = 3 /\ OfLastCycle("check", r) = 1
         /\ OfCycle("sleep", 0) = 4 /\ OfLastCycle("sleep", 0) = 2
         /\ r # 0 => OfCycle("sleep", r) = 1 /\ OfLastCycle("sleep", r) = 3
BY DEF OfCycle, OfLastCycle

LEMMA PollingNumbers ==
  ASSUME NEW p, NEW r, NEW e \in 0 .. Late
  PROVE  /\ OfPolling(p, r, e) \in Nat /\ OfPolling(p, r, e) > 0
         /\ OfPolling("check", r, 0) = MostCycles
         /\ e = Late => OfPolling(p, r, e) = OfLastCycle(p, r)
         /\ e # Late => OfPolling(p, r, e) = 5 * (Late - e) + OfCycle(p, r)
<1>1. Late \in Nat /\ Late # 0
  BY TimesAreNumbers
<1>2. OfPolling("check", r, 0) = 5 * (Late - 0) + 3
  BY <1>1, CycleNumbers DEF OfPolling
<1>3. CASE e = Late
  BY <1>1, <1>2, <1>3, CycleNumbers DEF OfPolling, MostCycles
<1>4. CASE e # Late
  <2>1. OfPolling(p, r, e) = 5 * (Late - e) + OfCycle(p, r)
    BY <1>4 DEF OfPolling
  <2>2. Late - e \in Nat
    BY <1>1
  <2> QED
    BY <1>1, <1>2, <1>4, <2>1, <2>2, CycleNumbers DEF MostCycles
<1> QED
  BY <1>3, <1>4

LEMMA StepsType ==
  ASSUME TypeOK
  PROVE  /\ StepsLeft \in Nat
         /\ pc # "done" => StepsLeft > 0
<1>1. Late \in Nat /\ MostCycles \in Nat
  BY TimesAreNumbers DEF MostCycles
<1>2. OfDiscovery(pc, asking) \in 1 .. 4
  BY DiscoveryNumbers
<1>3. OfPolling(pc, rest, elapsed) \in Nat /\ OfPolling(pc, rest, elapsed) > 0
  BY PollingNumbers DEF TypeOK
<1> QED
  BY <1>1, <1>2, <1>3 DEF StepsLeft

\* The discovery asks at two URLs at most, and then there is a session.
LEMMA DiscoveryUses ==
  ASSUME IInv, OnlyPolls,
         \/ Initiate \/ InitiateAnswered \/ InitiateRefused
         \/ RequestCanceled /\ asking # "poll"
  PROVE  StepsLeft' < StepsLeft
<1>1. Late \in Nat /\ MostCycles \in Nat
  BY TimesAreNumbers DEF MostCycles
<1>2. pc \in {"ask", "waiting"} /\ session = None /\ asking # "poll"
  BY DEF Initiate, InitiateAnswered, InitiateRefused, RequestCanceled, OnlyPolls, IInv, Phases
<1>3. StepsLeft = MostCycles + OfDiscovery(pc, asking) /\ OfDiscovery(pc, asking) \in 1 .. 4
  BY <1>2, DiscoveryNumbers DEF StepsLeft
<1>4. CASE Initiate
  <2>1. pc = "ask" /\ pc' = "waiting" /\ session' = None /\ asking' = asking
    BY <1>2, <1>4 DEF Initiate, Send
  <2>2. StepsLeft' = MostCycles + OfDiscovery(pc', asking')
    BY <2>1 DEF StepsLeft
  <2>3. OfDiscovery(pc', asking') < OfDiscovery(pc, asking) /\ OfDiscovery(pc', asking') \in 1 .. 4
    BY <2>1, DiscoveryNumbers
  <2> QED
    BY <1>1, <1>3, <2>2, <2>3
<1>5. CASE InitiateAnswered
  <2>1. pc' = "check" /\ session' # None /\ elapsed' = 0
    BY <1>5 DEF InitiateAnswered, Restarted, IInv, SessionIsKnown
  <2>2. StepsLeft' = OfPolling("check", rest', 0)
    BY <2>1 DEF StepsLeft
  <2>3. StepsLeft' = MostCycles
    BY <2>2, TimesAreNumbers, PollingNumbers
  <2> QED
    BY <1>1, <1>3, <2>3
<1>6. CASE InitiateRefused \/ RequestCanceled
  <2>1. pc = "waiting"
    BY <1>6 DEF InitiateRefused, RequestCanceled
  <2>2. PICK kind : InitiateFails(kind)
    BY <1>2, <1>6 DEF InitiateRefused, RequestCanceled
  <2>3. CASE pc' = "done"
    BY <1>1, <1>3, <2>3 DEF StepsLeft
  <2>4. CASE pc' # "done"
    <3>1. asking = "https" /\ pc' = "ask" /\ asking' = "http" /\ session' = None
      BY <1>2, <2>2, <2>4 DEF InitiateFails, FallsBack, End
    <3>2. StepsLeft' = MostCycles + OfDiscovery("ask", "http")
      BY <3>1 DEF StepsLeft
    <3>3. OfDiscovery("ask", "http") = 2 /\ OfDiscovery(pc, asking) = 3
      BY <2>1, <3>1, DiscoveryNumbers
    <3> QED
      BY <1>1, <1>3, <3>2, <3>3
  <2> QED
    BY <2>3, <2>4
<1> QED
  BY <1>4, <1>5, <1>6

\* A cycle that has time left ends in a sleep, and a flow out of time ends.
LEMMA PollingUses ==
  ASSUME IInv, IInv', OnlyPolls,
         \/ TimesOut \/ Poll \/ PollAnswered \/ Wakes \/ SleepCanceled
         \/ RequestCanceled /\ asking = "poll"
  PROVE  StepsLeft' < StepsLeft
<1>1. pc # "done" /\ session # None /\ session' = session /\ elapsed' = elapsed
  BY DEF TimesOut, Poll, PollAnswered, Wakes, SleepCanceled, RequestCanceled, Send, End,
         IInv, Phases, clocks
<1>2. StepsLeft \in Nat /\ StepsLeft > 0 /\ StepsLeft = OfPolling(pc, rest, elapsed)
  BY <1>1, StepsType DEF IInv, StepsLeft
<1>3. elapsed \in 0 .. Late /\ Late \in Nat /\ Timeout \in Nat /\ Late = Timeout + 1
  BY TimesAreNumbers DEF IInv, TypeOK
<1>4. CASE pc' = "done"
  BY <1>2, <1>4 DEF StepsLeft
<1>5. CASE pc' # "done"
  <2>1. StepsLeft' = OfPolling(pc', rest', elapsed)
    BY <1>1, <1>5 DEF StepsLeft
  <2>2. \/ pc = "check" /\ pc' = "waiting" /\ elapsed # Late
        \/ pc = "waiting" /\ pc' = "sleep" /\ rest' # 0
        \/ pc = "sleep" /\ pc' = "check" /\ rest = 0
    <3>1. CASE TimesOut \/ SleepCanceled \/ (RequestCanceled /\ asking = "poll")
      BY <1>5, <3>1 DEF TimesOut, SleepCanceled, RequestCanceled, End
    <3>2. CASE Poll
      BY <1>3, <3>2 DEF Poll, Send, Expired
    <3>3. CASE PollAnswered
      BY <1>5, <3>3, TimesAreNumbers DEF PollAnswered, End
    <3>4. CASE Wakes
      BY <3>4 DEF Wakes
    <3> QED
      BY <3>1, <3>2, <3>3, <3>4
  <2>3. /\ OfCycle(pc', rest') < OfCycle(pc, rest)
        /\ elapsed = Late => OfLastCycle(pc', rest') < OfLastCycle(pc, rest)
    BY <2>2, CycleNumbers
  <2>4. CASE elapsed = Late
    BY <1>2, <2>1, <2>3, <2>4, <1>3, PollingNumbers
  <2>5. CASE elapsed # Late
    <3>1. 5 * (Late - elapsed) \in Nat
      BY <1>3
    <3>2. OfCycle(pc', rest') \in 1 .. 4 /\ OfCycle(pc, rest) \in 1 .. 4
      BY CycleNumbers
    <3> QED
      BY <1>2, <1>3, <2>1, <2>3, <2>5, <3>1, <3>2, PollingNumbers
  <2> QED
    BY <2>4, <2>5
<1> QED
  BY <1>4, <1>5

\* Time gives the flow no steps: a tick that lets it wake takes a cycle away.
LEMMA TickAddsNone ==
  ASSUME IInv, IInv', OnlyPolls, Tick
  PROVE  StepsLeft' <= StepsLeft
<1>1. /\ pc' = pc /\ session' = session /\ asking' = asking
      /\ pc = "waiting" \/ (pc = "sleep" /\ rest # 0)
  BY DEF Tick
<1>2. StepsLeft \in Nat
  BY StepsType DEF IInv
<1>3. CASE session = None
  BY <1>1, <1>2, <1>3 DEF StepsLeft
<1>4. CASE session # None
  <2>1. StepsLeft = OfPolling(pc, rest, elapsed) /\ StepsLeft' = OfPolling(pc, rest', elapsed')
    BY <1>1, <1>4 DEF StepsLeft
  <2>2. /\ elapsed \in 0 .. Late /\ elapsed' \in 0 .. Late /\ Late \in Nat
        /\ elapsed' = IF elapsed < Late THEN elapsed + 1 ELSE elapsed
    BY TimesAreNumbers DEF IInv, TypeOK, Tick, Later
  <2>3. /\ OfCycle(pc, rest) \in {1, 2} /\ OfCycle(pc, rest') \in 1 .. 4
        /\ OfLastCycle(pc, rest') \in 1 .. 4
        /\ OfLastCycle(pc, rest') <= OfLastCycle(pc, rest) /\ OfLastCycle(pc, rest) \in 1 .. 4
    <3>1. OfCycle(pc, rest') \in 1 .. 4 /\ OfLastCycle(pc, rest') \in 1 .. 4
          /\ OfLastCycle(pc, rest) \in 1 .. 4
      BY CycleNumbers
    <3>2. CASE pc = "waiting"
      BY <3>1, <3>2, CycleNumbers
    <3>3. CASE pc = "sleep" /\ rest # 0
      <4>1. OfCycle(pc, rest) = 1 /\ OfLastCycle(pc, rest) = 3
        BY <3>3, CycleNumbers
      <4>2. OfLastCycle(pc, rest') \in {2, 3}
        BY <3>3 DEF OfLastCycle
      <4> QED
        BY <3>1, <4>1, <4>2
    <3> QED
      BY <1>1, <3>2, <3>3
  <2>4. CASE elapsed = Late
    BY <2>1, <2>2, <2>3, <2>4, PollingNumbers
  <2>5. CASE elapsed # Late
    <3>1. elapsed' = elapsed + 1 /\ StepsLeft = 5 * (Late - elapsed) + OfCycle(pc, rest)
      BY <2>1, <2>2, <2>5, PollingNumbers
    <3>2. CASE elapsed' = Late
      BY <2>1, <2>2, <2>3, <3>1, <3>2, PollingNumbers
    <3>3. CASE elapsed' # Late
      <4>1. StepsLeft' = 5 * (Late - elapsed') + OfCycle(pc, rest')
        BY <2>1, <2>2, <3>3, PollingNumbers
      <4> QED
        BY <2>2, <2>3, <3>1, <4>1
    <3> QED
      BY <3>2, <3>3
  <2> QED
    BY <2>4, <2>5
<1> QED
  BY <1>3, <1>4

\* The driver takes no more than 5 * (Timeout + 1) + 7 steps, however long the
\* server and the user keep it waiting: each one uses up one of the steps left,
\* and no step of the network, the user, the caller or time adds to them.
THEOREM StepsAreBounded ==
  /\ Init => StepsLeft <= 5 * (Timeout + 1) + 7
  /\ Spec => [](StepsLeft \in Nat)
  /\ Spec => [][StepsLeft' <= StepsLeft /\ (Driver => StepsLeft' < StepsLeft)]_vars
<1>1. Init => StepsLeft <= 5 * (Timeout + 1) + 7
  <2> SUFFICES ASSUME Init PROVE StepsLeft <= 5 * (Timeout + 1) + 7
    OBVIOUS
  <2>1. StepsLeft = MostCycles + OfDiscovery(pc, asking) /\ OfDiscovery(pc, asking) \in 1 .. 4
    BY DiscoveryNumbers DEF Init, StepsLeft
  <2>2. MostCycles = 5 * (Timeout + 1) + 3 /\ Timeout \in Nat
    BY TimesAreNumbers DEF MostCycles
  <2> QED
    BY <2>1, <2>2
<1>2. Spec => [](StepsLeft \in Nat)
  <2>1. IInv => StepsLeft \in Nat
    BY StepsType DEF IInv
  <2> QED
    BY <2>1, Invariance, PTL
<1>3. IInv /\ IInv' /\ OnlyPolls /\ (StepsLeft \in Nat)' /\ [Next]_vars =>
        [StepsLeft' <= StepsLeft /\ (Driver => StepsLeft' < StepsLeft)]_vars
  <2> SUFFICES ASSUME IInv, IInv', OnlyPolls, (StepsLeft \in Nat)', Next
               PROVE  StepsLeft' <= StepsLeft /\ (Driver => StepsLeft' < StepsLeft)
    OBVIOUS
  <2>1. StepsLeft \in Nat /\ StepsLeft' \in Nat
    BY StepsType DEF IInv
  <2>2. Driver => StepsLeft' < StepsLeft
    BY DiscoveryUses, PollingUses DEF Driver
  <2>3. CASE Tick
    BY <2>2, <2>3, TickAddsNone
  <2>4. CASE UNCHANGED << pc, asking, session, rest, elapsed >>
    BY <2>1, <2>2, <2>4 DEF StepsLeft
  <2> QED
    BY <2>1, <2>2, <2>3, <2>4 DEF Next, Network, AnswerLost, ServerInitiates,
       ServerAnswersPoll, RequestFails, CallerCancels, UserDecides, SessionExpires
<1>4. Spec => [][StepsLeft' <= StepsLeft /\ (Driver => StepsLeft' < StepsLeft)]_vars
  BY <1>2, <1>3, Invariance, OnlyPollsInvariance, PTL DEF Spec
<1> QED
  BY <1>1, <1>2, <1>4
=============================================================================
