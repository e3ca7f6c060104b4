----------------------------- MODULE OAuthFlow -----------------------------
(***************************************************************************)
(* The OAuth browser flow: GetOAuthToken of go/gizmosql/oauth.go and its   *)
(* Python twin get_oauth_token, the GizmoSQL server's OAuth endpoints, the *)
(* user at a browser, and the network between them.                        *)
(*                                                                         *)
(* The driver finds the server (HTTPS, then HTTP, or a URL it was given),  *)
(* initiates a session, shows its URL to the user, and polls until the     *)
(* session has a token.  It takes no time but to wait for an answer and to *)
(* sleep between polls.  Times are relative and saturate where they stop   *)
(* to matter.                                                              *)
(***************************************************************************)
EXTENDS Naturals

CONSTANTS
  Session,  \* sessions the server can make
  Timeout,  \* cfg.Timeout, in ticks
  Interval, \* cfg.PollInterval
  None

Base    == {"https", "http", "url"}
Answers == [kind : {"session", "pending", "complete", "error", "not_found",
                    "failed", "garbled"},
            id : Session \cup {None}]

ASSUME OAuthAssumption ==
  /\ Timeout \in Nat \ {0} /\ Interval \in Nat \ {0}
  /\ None \notin Session \cup Base \cup Answers

VARIABLES
  lib,       \* which of the two implementations runs: "go" or "python"
  pc,        \* "ask", "waiting" (for an answer), "check", "sleep", "done"
  asking,    \* what is asked: initiate by "https", "http" or "url", or "poll"
  base,      \* the base URL found
  session,   \* session_uuid
  elapsed,   \* time on the driver's clock, of which Timeout is the deadline
  rest,      \* time left to sleep
  cancelled, \* the caller's ctx is done (Go only)
  result,    \* "none", "token", "error", "timeout", "canceled"
  token,     \* whose token it is
  reply,     \* the answer on its way: a record, or None
  server,    \* what the server knows of each session
  home,      \* the base URL each session was made at
  shown,     \* sessions whose URL the user has
  granted,   \* history: sessions the user has granted, and when
  looking,   \* history: time since the URL was shown
  age,       \* history: how long the latest request has taken
  slowest,   \* history: the longest any poll has taken
  fault      \* history: the latest request failed or was answered wrongly

driver  == << pc, asking, base, session, rest, result, token >>
remote  == << server, home, shown, granted >>
clocks  == << elapsed, looking, age, slowest >>
vars    == << lib, driver, cancelled, reply, remote, clocks, fault >>

Late     == Timeout + 1 \* where times saturate: past the deadline
Never    == Timeout + 2
Later(t) == IF t < Late THEN t + 1 ELSE t

Init ==
  /\ lib \in {"go", "python"}
  /\ pc = "ask"
  /\ asking \in {"https", "url"}
  /\ base = None
  /\ session = None
  /\ elapsed = 0
  /\ rest = 0
  /\ cancelled = FALSE
  /\ result = "none"
  /\ token = None
  /\ reply = None
  /\ server = [s \in Session |-> "none"]
  /\ home = [s \in Session |-> None]
  /\ shown = {}
  /\ granted = [s \in Session |-> Never]
  /\ looking = 0
  /\ age = 0
  /\ slowest = 0
  /\ fault = FALSE

-----------------------------------------------------------------------------
(***************************************************************************)
(* The driver.                                                             *)
(***************************************************************************)
End(how) ==
  /\ pc' = "done"
  /\ result' = how
  /\ UNCHANGED << asking, base, session, rest, token >>

Send(what) ==
  /\ pc' = "waiting"
  /\ asking' = what
  /\ UNCHANGED << base, session, rest, result, token >>

\* GET /oauth/initiate
Initiate ==
  /\ pc = "ask"
  /\ Send(asking)
  /\ age' = 0
  /\ fault' = FALSE
  /\ UNCHANGED << lib, cancelled, reply, remote, elapsed, looking, slowest >>

\* Faulty: the timeout counts from the first request.
FromTheStart(e) == e

\* deadline := time.Now().Add(cfg.Timeout)
Restarted(e) == 0

\* Faulty: the polls go where the discovery began.
FirstBase(a) == IF a = "http" THEN "https" ELSE a

FoundBase(a) == a

\* The answer to initiate: the URL is shown and the polling begins.
InitiateAnswered ==
  /\ pc = "waiting" /\ asking # "poll"
  /\ reply # None /\ reply.kind = "session"
  /\ base' = FoundBase(asking)
  /\ session' = reply.id
  /\ shown' = shown \cup {reply.id}
  /\ elapsed' = Restarted(elapsed)
  /\ looking' = 0
  /\ pc' = "check"
  /\ reply' = None
  /\ UNCHANGED << lib, asking, rest, result, token, cancelled, server, home, granted,
                  age, slowest, fault >>

\* The probe by HTTPS falls back to HTTP.  In Python an answer that is no JSON
\* raises an exception that the discovery does not catch.
FallsBack(kind) ==
  /\ asking = "https"
  /\ kind = "failed" \/ (kind = "garbled" /\ lib = "go")

InitiateFails(kind) ==
  IF FallsBack(kind)
    THEN /\ pc' = "ask"
         /\ asking' = "http"
         /\ UNCHANGED << base, session, rest, result, token >>
    ELSE End("error")

InitiateRefused ==
  /\ pc = "waiting" /\ asking # "poll"
  /\ reply # None /\ reply.kind # "session"
  /\ InitiateFails(reply.kind)
  /\ reply' = None
  /\ UNCHANGED << lib, cancelled, remote, clocks, fault >>

\* Faulty: the deadline is never looked at.
NeverExpires(e) == FALSE

\* time.Now().After(deadline), elapsed >= timeout
Expired(e) == IF lib = "go" THEN e > Timeout ELSE e >= Timeout

TimesOut ==
  /\ pc = "check"
  /\ Expired(elapsed)
  /\ End("timeout")
  /\ UNCHANGED << lib, cancelled, reply, remote, clocks, fault >>

\* GET /oauth/token/{uuid}
Poll ==
  /\ pc = "check"
  /\ ~Expired(elapsed)
  /\ Send("poll")
  /\ age' = 0
  /\ fault' = FALSE
  /\ UNCHANGED << lib, cancelled, reply, remote, elapsed, looking, slowest >>

\* Faulty: the status alone decides.
StatusOnly(r) == r.kind = "complete"

HasToken(r) == r.kind = "complete" /\ r.id # None

PollAnswered ==
  /\ pc = "waiting" /\ asking = "poll"
  /\ reply # None
  /\ \/ /\ HasToken(reply)
        /\ pc' = "done" /\ result' = "token" /\ token' = reply.id
        /\ UNCHANGED << asking, base, session, rest >>
     \/ /\ reply.kind = "pending"
        /\ pc' = "sleep" /\ rest' = Interval
        /\ UNCHANGED << asking, base, session, result, token >>
     \/ /\ ~HasToken(reply) /\ reply.kind # "pending"
        /\ End("error")
  /\ reply' = None
  /\ slowest' = IF age > slowest THEN age ELSE slowest
  /\ UNCHANGED << lib, cancelled, remote, elapsed, looking, age, fault >>

\* time.After(cfg.PollInterval)
Wakes ==
  /\ pc = "sleep"
  /\ rest = 0
  /\ pc' = "check"
  /\ UNCHANGED << lib, asking, base, session, rest, result, token, cancelled, reply,
                  remote, clocks, fault >>

\* <-ctx.Done()
SleepCanceled ==
  /\ pc = "sleep"
  /\ cancelled
  /\ End("canceled")
  /\ UNCHANGED << lib, cancelled, reply, remote, clocks, fault >>

\* Faulty: the requests are made without the context.
WithoutContext == FALSE

ContextEnds == cancelled

\* A request whose context is done fails, answered or not.
RequestCanceled ==
  /\ pc = "waiting"
  /\ ContextEnds
  /\ IF asking = "poll" THEN End("error") ELSE InitiateFails("failed")
  /\ reply' = None
  /\ UNCHANGED << lib, cancelled, remote, clocks, fault >>

Driver ==
  \/ Initiate \/ InitiateAnswered \/ InitiateRefused
  \/ TimesOut \/ Poll \/ PollAnswered
  \/ Wakes \/ SleepCanceled \/ RequestCanceled

-----------------------------------------------------------------------------
(***************************************************************************)
(* The server, the network, the user, the caller, and time.                *)
(***************************************************************************)
Asked == pc = "waiting" /\ reply = None

Answer(kind, id) == reply' = [kind |-> kind, id |-> id]

ServerInitiates(s) ==
  /\ Asked /\ asking # "poll"
  /\ server[s] = "none"
  /\ server' = [server EXCEPT ![s] = "waiting"]
  /\ home' = [home EXCEPT ![s] = asking]
  /\ Answer("session", s)
  /\ UNCHANGED << lib, driver, cancelled, shown, granted, clocks, fault >>

\* The status of a session, asked at a base URL that may not be its own.
Status(s, b) ==
  IF home[s] # b THEN "not_found"
  ELSE CASE server[s] = "waiting" -> "pending"
         [] server[s] = "granted" -> "complete"
         [] server[s] = "refused" -> "error"
         [] server[s] = "gone"    -> "not_found"

ServerAnswersPoll ==
  /\ Asked /\ asking = "poll"
  /\ Answer(Status(session, base), session)
  /\ UNCHANGED << lib, driver, cancelled, remote, clocks, fault >>

\* The request or its answer is lost, or the answer is an HTTP error ("failed"),
\* no JSON ("garbled"), or lacks what the driver needs ("complete", and nothing).
RequestFails(kind) ==
  /\ pc = "waiting"
  /\ Answer(kind, None)
  /\ fault' = TRUE
  /\ UNCHANGED << lib, driver, cancelled, remote, clocks >>

Network ==
  \/ \E s \in Session : ServerInitiates(s)
  \/ ServerAnswersPoll
  \/ Asked /\ \E kind \in {"failed", "garbled", "complete"} : RequestFails(kind)

\* An answer that was on its way is lost.
AnswerLost == reply # None /\ RequestFails("failed")

UserDecides(s, what) ==
  /\ s \in shown
  /\ server[s] = "waiting"
  /\ server' = [server EXCEPT ![s] = what]
  /\ granted' = IF what = "granted" THEN [granted EXCEPT ![s] = looking] ELSE granted
  /\ UNCHANGED << lib, driver, cancelled, reply, home, shown, clocks, fault >>

SessionExpires(s) ==
  /\ server[s] \in {"waiting", "granted", "refused"}
  /\ server' = [server EXCEPT ![s] = "gone"]
  /\ UNCHANGED << lib, driver, cancelled, reply, home, shown, granted, clocks, fault >>

CallerCancels ==
  /\ lib = "go"
  /\ ~cancelled
  /\ cancelled' = TRUE
  /\ UNCHANGED << lib, driver, reply, remote, clocks, fault >>

Tick ==
  /\ pc = "waiting" \/ (pc = "sleep" /\ rest > 0)
  /\ elapsed' = Later(elapsed)
  /\ looking' = Later(looking)
  /\ age' = IF pc = "waiting" THEN Later(age) ELSE age
  /\ rest' = IF pc = "sleep" THEN rest - 1 ELSE rest
  /\ UNCHANGED << lib, pc, asking, base, session, result, token, cancelled, reply,
                  remote, slowest, fault >>

Next ==
  \/ Driver \/ Network \/ AnswerLost \/ CallerCancels \/ Tick
  \/ \E s \in Session :
       UserDecides(s, "granted") \/ UserDecides(s, "refused") \/ SessionExpires(s)

\* The driver goes on, and time does.  Nobody has to answer.
Spec == Init /\ [][Next]_vars /\ WF_vars(Driver) /\ WF_vars(Tick)

-----------------------------------------------------------------------------
(***************************************************************************)
(* Properties.                                                             *)
(***************************************************************************)

\* The type invariant of the flow.
TypeOK ==
  /\ lib \in {"go", "python"} /\ (cancelled => lib = "go")
  /\ pc \in {"ask", "waiting", "check", "sleep", "done"}
  /\ asking \in Base \cup {"poll"} /\ base \in Base \cup {None}
  /\ (base = None <=> session = None)
  /\ session \in Session \cup {None} /\ token \in Session \cup {None}
  /\ elapsed \in 0 .. Late /\ rest \in 0 .. Interval
  /\ result \in {"none", "token", "error", "timeout", "canceled"}
  /\ server \in [Session -> {"none", "waiting", "granted", "refused", "gone"}]
  /\ home \in [Session -> Base \cup {None}]
  /\ shown \subseteq Session
  /\ reply \in Answers \cup {None}
  /\ granted \in [Session -> 0 .. Never]
  /\ {looking, age, slowest} \subseteq 0 .. Late
  /\ fault \in BOOLEAN

\* A flow that succeeds has the token of the session whose URL it showed, and
\* the user has granted that session.
TokenIsGranted ==
  result = "token" => /\ token = session /\ session \in shown
                      /\ granted[session] # Never

\* A user who grants the session early enough is not told that time is up:
\* after the grant there was no time for one more poll before the deadline.
\* The deadline counts from when the user was shown the URL.
TimeoutIsDue ==
  result = "timeout" => granted[session] + Interval + slowest >= Timeout

\* The flow fails only for a reason outside of it: the latest request failed,
\* the caller gave up, the user refused or the session has expired.  So it
\* polls for the session it made, where it made it.
ErrorHasCause ==
  result = "error" =>
    \/ fault \/ cancelled
    \/ session # None /\ server[session] \in {"refused", "gone"}

Ended == pc = "done"

\* The flow ends, whatever the user does, if every request is answered or fails
\* in the end.  (HTTP requests have no timeout of their own.)
FlowEnds == WF_vars(Network) => <>Ended

\* A caller who cancels gets the call back, also from a server that is silent.
CancelEnds == cancelled ~> Ended
=============================================================================
