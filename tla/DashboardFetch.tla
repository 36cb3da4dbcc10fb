---------------------------- MODULE DashboardFetch ----------------------------
(***************************************************************************)
(* The requests a dashboard page makes.  Two wrappers stand around fetch:   *)
(* the inner one, of ClashWebViewController, remembers the rules the core   *)
(* answers and serves them, under a banner, when the core does not; the     *)
(* outer one, config.js, removes rule times that mean nothing.              *)
(*                                                                         *)
(* An action is one turn of the event loop: a head arrives, or a body has   *)
(* been read, or the request fails, and the wrapper goes on to its next     *)
(* await.  Several requests are under way at once.  The rules of a body are *)
(* treated one by one, so a body has one rule; what matters of its times is *)
(* the count and the date beside it.                                        *)
(*                                                                         *)
(* An operator named D_<Fault> is the definition D with a plausible bug in *)
(* it.  No action uses one: each shows that some property would notice.    *)
(***************************************************************************)
EXTENDS Integers, FiniteSets

CONSTANTS
    Requests,        \* identities of requests
    Answers          \* the bodies the core may answer with

VARIABLES
    core,      \* whether it listens, and the rules it would answer now
    requests,  \* the requests and where they are in the wrappers
    snapshot,  \* rulesSnapshot
    banner     \* whether the stale banner is in the document

vars == <<core, requests, snapshot, banner>>

NaN == -1000

\* a date: absent, or its text's milliseconds; NoText is a value that is no string
Absent == [present |-> FALSE, text |-> FALSE, milliseconds |-> NaN]
Date(milliseconds) == [present |-> TRUE, text |-> TRUE, milliseconds |-> milliseconds]
NotText == [present |-> TRUE, text |-> FALSE, milliseconds |-> NaN]

\* form: an array of rules, an object of rules, or not JSON.  The core's rules
\* have a hit count and date, and a miss count and date.
Body(form, version, hit, miss) == [form |-> form, version |-> version, hit |-> hit, miss |-> miss]
Times(count, at) == [count |-> count, at |-> at]
NoBody == Body("none", 0, Times(0, Absent), Times(0, Absent))

\* What a core may answer: a count is missing or natural.
Dates == [present : BOOLEAN, text : BOOLEAN, milliseconds : Int]
AllTimes == [count : Nat \cup {NaN}, at : Dates]
Bodies == [form : {"array", "map", "text"}, version : Int, hit : AllTimes, miss : AllTimes]

ASSUME AnswersAreBodies == Answers \subseteq Bodies

\* the backend's GET /rules; another path that ends in /rules, or another
\* origin; anything else
Kinds == {"rules", "otherRules", "other"}
-----------------------------------------------------------------------------
(* Rule times.                                                              *)

\* A count that is no number is not <= 0.
IsMeaningfulRuleTime(count, value) ==
    /\ ~(count # NaN /\ count <= 0) /\ value.text
    /\ value.milliseconds # NaN /\ value.milliseconds > 0

Sanitized(times) ==
    IF IsMeaningfulRuleTime(times.count, times.at) THEN times ELSE [times EXCEPT !.at = Absent]

SanitizeRuleTimes(body) == [body EXCEPT !.hit = Sanitized(@), !.miss = Sanitized(@)]

\* the inner wrapper's rules are an array
InnerSanitized(body) == IF body.form = "array" THEN SanitizeRuleTimes(body) ELSE body

OuterSanitized_ArraysOnly(body) == IF body.form = "array" THEN SanitizeRuleTimes(body) ELSE body

\* the outer wrapper's an array or an object
OuterSanitized(body) == IF body.form \in {"array", "map"} THEN SanitizeRuleTimes(body) ELSE body
-----------------------------------------------------------------------------
Idle == [kind |-> "other", phase |-> "idle", body |-> NoBody, answered |-> NoBody,
         stale |-> FALSE, outcome |-> "none", hadSnapshot |-> FALSE]

Init ==
    /\ core \in [up : BOOLEAN, answer : Answers]
    /\ requests = [r \in Requests |-> Idle]
    /\ snapshot = NoBody
    /\ banner = FALSE

\* Request q is settled: what fetch returned or threw is its outcome.
Settled(r, q) ==
    requests' = [requests EXCEPT ![r] = [q EXCEPT !.phase = "done"]]

\* The response with this body reaches the outer wrapper, which reads a clone.
Passed(r, q) ==
    requests' = [requests EXCEPT ![r] = [q EXCEPT !.phase = "parsing", !.outcome = "ok"]]

Failed_ThrownOnly(r, q, failure) ==
    IF q.kind = "rules" /\ snapshot # NoBody /\ failure = "thrown"
    THEN /\ banner' = TRUE
         /\ Passed(r, [q EXCEPT !.body = snapshot, !.answered = NoBody, !.stale = TRUE])
    ELSE Settled(r, [q EXCEPT !.outcome = failure]) /\ UNCHANGED banner

\* A body that broke off is asked for again.
Failed_AsksAgain(r, q, failure) ==
    IF q.kind = "rules" /\ snapshot # NoBody
    THEN /\ banner' = TRUE
         /\ Passed(r, [q EXCEPT !.body = snapshot, !.answered = NoBody, !.stale = TRUE])
    ELSE /\ IF q.phase = "reading" THEN requests' = [requests EXCEPT ![r] = [q EXCEPT !.phase = "sent"]]
            ELSE Settled(r, [q EXCEPT !.outcome = failure])
         /\ UNCHANGED banner

\* The inner fetch failed: status 503, or "thrown", a rejection.  Remembered
\* rules are served under the banner.
Failed(r, q, failure) ==
    IF q.kind = "rules" /\ snapshot # NoBody
    THEN /\ banner' = TRUE
         /\ Passed(r, [q EXCEPT !.body = snapshot, !.answered = NoBody, !.stale = TRUE])
    ELSE Settled(r, [q EXCEPT !.outcome = failure]) /\ UNCHANGED banner

\* A request is sent; its name may have been that of one long settled.
Send(r, kind) ==
    /\ requests[r].phase \in {"idle", "done"}
    /\ requests' = [requests EXCEPT ![r] =
           [Idle EXCEPT !.kind = kind, !.phase = "sent", !.hadSnapshot = snapshot # NoBody]]
    /\ UNCHANGED <<core, snapshot, banner>>

\* A head with status 200: the inner wrapper reads the text of the rules, the
\* outer one the JSON of what else ends in /rules.
Answered(r) ==
    /\ requests[r].phase = "sent" /\ core.up
    /\ LET q == [requests[r] EXCEPT !.body = core.answer, !.answered = core.answer]
       IN  CASE q.kind = "rules" ->
                  requests' = [requests EXCEPT ![r] = [q EXCEPT !.phase = "reading"]]
             [] q.kind = "otherRules" -> Passed(r, q)
             [] q.kind = "other" -> Settled(r, [q EXCEPT !.outcome = "ok"])
    /\ UNCHANGED <<core, snapshot, banner>>

\* A head with another status: 401 is handed on.
Refused(r) ==
    /\ requests[r].phase = "sent" /\ core.up
    /\ \/ Failed(r, requests[r], "status 503")
       \/ Settled(r, [requests[r] EXCEPT !.outcome = "status 401"]) /\ UNCHANGED banner
    /\ UNCHANGED <<core, snapshot>>

\* No connection, or it broke before or within the body that is read, or the
\* page's time limit aborted it.  The core may be back by the time the page
\* learns of it.
Rejected(r) ==
    /\ requests[r].phase \in {"sent", "reading"}
    /\ Failed(r, requests[r], "thrown")
    /\ UNCHANGED <<core, snapshot>>

\* normalizeAndRememberRules
Remember(r) ==
    LET q == requests[r]
        normalized == InnerSanitized(q.body)
    IN  IF q.body.form = "array"
        THEN /\ snapshot' = normalized /\ banner' = FALSE
             /\ Passed(r, [q EXCEPT !.body = normalized])
        ELSE UNCHANGED <<snapshot, banner>> /\ Passed(r, q)

\* The text has been read to its end.  It may have been in flight already when
\* the core went away.
BodyRead(r) ==
    /\ requests[r].phase = "reading"
    /\ Remember(r)
    /\ UNCHANGED core

\* The outer wrapper has read the JSON, or found none.
Parsed(r) ==
    /\ requests[r].phase = "parsing"
    /\ Settled(r, [requests[r] EXCEPT !.body = OuterSanitized(@)])
    /\ UNCHANGED <<core, snapshot, banner>>

\* The body of a response the inner wrapper did not read breaks off: the outer
\* one hands on a response that cannot be read.
ParseLost(r) ==
    /\ requests[r].phase = "parsing" /\ requests[r].kind = "otherRules"
    /\ Settled(r, [requests[r] EXCEPT !.outcome = "broken"])
    /\ UNCHANGED <<core, snapshot, banner>>

\* The core stops, starts, or has other rules.
CoreChanges ==
    /\ \/ core' = [core EXCEPT !.up = ~@]
       \/ \E answer \in Answers : core' = [core EXCEPT !.answer = answer]
    /\ UNCHANGED <<requests, snapshot, banner>>

Proceeds(r) ==
    Answered(r) \/ Refused(r) \/ Rejected(r) \/ BodyRead(r) \/ Parsed(r) \/ ParseLost(r)

Next ==
    \/ \E r \in Requests, kind \in Kinds : Send(r, kind)
    \/ \E r \in Requests : Proceeds(r)
    \/ CoreChanges

\* The network answers or fails, and the event loop goes on.
Fairness(r) == WF_vars(Proceeds(r))

Spec == Init /\ [][Next]_vars /\ \A r \in Requests : Fairness(r)
-----------------------------------------------------------------------------
(* Properties.                                                              *)

Request == [kind : Kinds, phase : {"idle", "sent", "reading", "parsing", "done"},
            body : Bodies \cup {NoBody}, answered : Bodies \cup {NoBody}, stale : BOOLEAN,
            outcome : {"none", "ok", "thrown", "broken", "status 503", "status 401"},
            hadSnapshot : BOOLEAN]

TypeOK ==
    /\ core \in [up : BOOLEAN, answer : Answers]
    /\ requests \in [Requests -> Request]
    /\ snapshot \in Bodies \cup {NoBody}
    /\ banner \in BOOLEAN

\* A date that a reader can make sense of, or none: with at least one match and
\* after the epoch.
Sensible(times) ==
    times.at = Absent \/ (times.at.text /\ times.at.milliseconds > 0 /\ times.count # 0)

\* No rule list the page is given, fresh or cached, an array or an object, from
\* this backend or another, shows a date of a match that never was.
NoNonsenseTimes ==
    \A r \in Requests :
        LET q == requests[r]
        IN  q.phase = "done" /\ q.outcome = "ok" /\ q.kind # "other" /\ q.body.form \in {"array", "map"}
                => Sensible(q.body.hit) /\ Sensible(q.body.miss)

\* Nothing else is changed: real dates survive both wrappers, counts too, and
\* what is not a rule list passes as the core sent it.
RestUntouched ==
    \A r \in Requests :
        LET q == requests[r]
            kept(is, was) == /\ is.count = was.count
                             /\ is.at = was.at \/ (is.at = Absent /\ ~Sensible(was))
        IN  q.phase = "done" /\ q.outcome = "ok" /\ ~q.stale =>
                /\ <<q.body.form, q.body.version>> = <<q.answered.form, q.answered.version>>
                /\ kept(q.body.hit, q.answered.hit) /\ kept(q.body.miss, q.answered.miss)
                /\ q.kind = "other" \/ q.body.form = "text" => q.body = q.answered

\* Exactly the dates that mean nothing are taken away.
RuleTimesTrue == NoNonsenseTimes /\ RestUntouched

\* Cached rules are a whole list of rules the core once answered, with sensible
\* times: an answer that is no rule list never becomes the snapshot.
CacheValid ==
    snapshot # NoBody =>
        /\ snapshot.form = "array" /\ Sensible(snapshot.hit) /\ Sensible(snapshot.miss)
        /\ \E answer \in Answers : answer.form = "array" /\ answer.version = snapshot.version

\* Rules that were seen once do not disappear with the core: a request for them
\* sent since is answered from the cache if the core fails it.
RulesSurvive ==
    \A r \in Requests :
        requests[r].kind = "rules" /\ requests[r].hadSnapshot =>
            requests[r].outcome \notin {"thrown", "status 503"}

\* The cache can be relied on: what it holds is good, and it is used.
CacheServes == CacheValid /\ RulesSurvive

Underway == {"sent", "reading", "parsing"}

\* No wrapper awaits what cannot come: whatever the core answered, and if it is
\* gone, a request under way can go on, or fail.
NoneHangs ==
    \A r \in Requests : requests[r].phase \in Underway => ENABLED <<Proceeds(r)>>_vars

\* Every request settles, whatever the core and the page do meanwhile, and none hangs
\* on the way.
FetchSettles ==
    /\ []NoneHangs
    /\ \A r \in Requests : requests[r].phase = "sent" ~> requests[r].phase = "done"
=============================================================================
