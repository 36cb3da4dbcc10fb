------------------------ MODULE DashboardFetch_proofs ------------------------
(***************************************************************************)
(* For any number of requests and any answers of the core: the types, what  *)
(* the wrappers do to rule times, the cache of the rules, and that requests *)
(* settle if none hangs.                                                    *)
(***************************************************************************)
EXTENDS DashboardFetch, TLAPS

\* what became of a body: RestUntouched's relation
KeptTimes(is, was) ==
    /\ is.count = was.count
    /\ is.at = was.at \/ (is.at = Absent /\ ~Sensible(was))

KeptBody(is, was) ==
    /\ is.form = was.form /\ is.version = was.version
    /\ KeptTimes(is.hit, was.hit) /\ KeptTimes(is.miss, was.miss)
    /\ is.form = "text" => is = was

SensibleBody(body) == Sensible(body.hit) /\ Sensible(body.miss)

\* Until it is settled a request has no outcome or a good one, and its body is
\* what the core answered, treated so far.
Going(q) ==
    /\ q.phase \in {"idle", "sent"} => q.outcome = "none" /\ ~q.stale
    /\ q.phase = "reading" =>
           q.kind = "rules" /\ q.outcome = "none" /\ ~q.stale /\ q.body \in Answers /\ q.answered = q.body
    /\ q.phase = "parsing" =>
           q.kind # "other" /\ q.outcome = "ok" /\ q.body \in Bodies /\ (~q.stale => KeptBody(q.body, q.answered))

\* A settled one satisfies both halves of RuleTimesTrue.
Finished(q) ==
    q.phase = "done" /\ q.outcome = "ok" =>
        /\ q.kind # "other" /\ q.body.form \in {"array", "map"} => SensibleBody(q.body)
        /\ ~q.stale => KeptBody(q.body, q.answered) /\ (q.kind = "other" => q.body = q.answered)

\* Whoever was sent when there were rules on record may rely on them, that is
\* on the snapshot s.
Covered(q, s) ==
    q.kind = "rules" /\ q.hadSnapshot =>
        s # NoBody /\ q.outcome \notin {"thrown", "status 503"}

Sound(q, s) == Going(q) /\ Finished(q) /\ Covered(q, s)

FetchInvariant ==
    /\ TypeOK
    /\ CacheValid
    /\ \A r \in Requests : Sound(requests[r], snapshot)
-----------------------------------------------------------------------------
(* The wrappers' treatment of times.                                        *)

\* Sanitizing leaves a sensible date or none, and takes nothing that is sensible.
LEMMA SanitizedTimes ==
    ASSUME NEW times \in AllTimes
    PROVE  /\ Sanitized(times) \in AllTimes
           /\ Sensible(Sanitized(times))
           /\ KeptTimes(Sanitized(times), times)
<1>1. times.count \in Nat \cup {NaN} /\ times.at \in Dates
  BY DEF AllTimes
<1>2. times.at.milliseconds \in Int
  BY <1>1 DEF Dates
<1>3. CASE IsMeaningfulRuleTime(times.count, times.at)
  <2>1. Sanitized(times) = times
    BY <1>3 DEF Sanitized
  <2>2. times.at.text /\ times.at.milliseconds > 0
    BY <1>3 DEF IsMeaningfulRuleTime
  <2>3. times.count # 0
    BY <1>3 DEF IsMeaningfulRuleTime, NaN
  <2> QED
    BY <2>1, <2>2, <2>3 DEF Sensible, KeptTimes
<1>4. CASE ~IsMeaningfulRuleTime(times.count, times.at)
  <2>1. Sanitized(times) = [count |-> times.count, at |-> Absent]
    BY <1>4 DEF Sanitized, AllTimes
  <2>2. Absent \in Dates
    BY DEF Absent, Dates, NaN
  <2>3. times.count # NaN /\ times.count <= 0 => times.count = 0
    BY <1>1
  <2>4. times.at.milliseconds = NaN => ~(times.at.milliseconds > 0)
    BY DEF NaN
  <2>5. Sensible(times) => times.at = Absent
    BY <1>4, <2>3, <2>4 DEF Sensible, IsMeaningfulRuleTime
  <2> QED
    BY <1>1, <2>1, <2>2, <2>5 DEF Sensible, KeptTimes, AllTimes
<1> QED
  BY <1>3, <1>4

\* What was kept once and is sanitized again is still kept.
LEMMA SanitizedTwice ==
    ASSUME NEW is \in AllTimes, NEW was, KeptTimes(is, was)
    PROVE  KeptTimes(Sanitized(is), was)
<1>1. KeptTimes(Sanitized(is), is)
  BY SanitizedTimes
<1>2. CASE is.at = was.at /\ Sanitized(is).at = Absent /\ ~Sensible(is)
  BY <1>1, <1>2 DEF KeptTimes, Sensible
<1> QED
  BY <1>1, <1>2 DEF KeptTimes

LEMMA SanitizedBody ==
    ASSUME NEW body \in Bodies
    PROVE  /\ SanitizeRuleTimes(body) \in Bodies
           /\ SensibleBody(SanitizeRuleTimes(body))
           /\ SanitizeRuleTimes(body).form = body.form
           /\ SanitizeRuleTimes(body).version = body.version
           /\ SanitizeRuleTimes(body).hit = Sanitized(body.hit)
           /\ SanitizeRuleTimes(body).miss = Sanitized(body.miss)
<1>1. body.hit \in AllTimes /\ body.miss \in AllTimes
  BY DEF Bodies
<1>2. /\ Sanitized(body.hit) \in AllTimes /\ Sanitized(body.miss) \in AllTimes
      /\ Sensible(Sanitized(body.hit)) /\ Sensible(Sanitized(body.miss))
  BY <1>1, SanitizedTimes
<1>3. ASSUME NEW hit \in AllTimes, NEW miss \in AllTimes
      PROVE  LET b == [body EXCEPT !.hit = hit, !.miss = miss]
             IN  /\ b \in Bodies /\ b.form = body.form /\ b.version = body.version
                 /\ b.hit = hit /\ b.miss = miss
  BY DEF Bodies
<1> QED
  BY <1>2, <1>3 DEF SanitizeRuleTimes, SensibleBody

\* What the inner wrapper remembers is sensible and from the core's answer.
LEMMA InnerTreatment ==
    ASSUME NEW body \in Bodies
    PROVE  /\ InnerSanitized(body) \in Bodies
           /\ InnerSanitized(body).form = body.form
           /\ InnerSanitized(body).version = body.version
           /\ body.form = "array" => SensibleBody(InnerSanitized(body))
           /\ KeptBody(InnerSanitized(body), body)
<1>1. body.hit \in AllTimes /\ body.miss \in AllTimes
  BY DEF Bodies
<1>2. CASE body.form = "array"
  <2>1. KeptTimes(Sanitized(body.hit), body.hit) /\ KeptTimes(Sanitized(body.miss), body.miss)
    BY <1>1, SanitizedTimes
  <2> QED
    BY <1>2, <2>1, SanitizedBody DEF InnerSanitized, KeptBody
<1>3. CASE body.form # "array"
  BY <1>3 DEF InnerSanitized, KeptBody, KeptTimes
<1> QED
  BY <1>2, <1>3

\* What the outer wrapper hands on is sensible, and as much the core's as what
\* it was given.
LEMMA OuterTreatment ==
    ASSUME NEW body \in Bodies
    PROVE  /\ OuterSanitized(body) \in Bodies
           /\ OuterSanitized(body).form = body.form
           /\ body.form \in {"array", "map"} => SensibleBody(OuterSanitized(body))
           /\ \A answered : KeptBody(body, answered) => KeptBody(OuterSanitized(body), answered)
<1>1. body.hit \in AllTimes /\ body.miss \in AllTimes
  BY DEF Bodies
<1>2. CASE body.form \in {"array", "map"}
  <2>1. OuterSanitized(body) = SanitizeRuleTimes(body)
    BY <1>2 DEF OuterSanitized
  <2>2. ASSUME NEW answered, KeptBody(body, answered)
        PROVE  KeptBody(OuterSanitized(body), answered)
    <3>1. /\ KeptTimes(Sanitized(body.hit), answered.hit)
          /\ KeptTimes(Sanitized(body.miss), answered.miss)
      BY <1>1, <2>2, SanitizedTwice DEF KeptBody
    <3> QED
      BY <1>2, <2>1, <2>2, <3>1, SanitizedBody DEF KeptBody
  <2> QED
    BY <2>1, <2>2, SanitizedBody
<1>3. CASE body.form \notin {"array", "map"}
  BY <1>3 DEF OuterSanitized
<1> QED
  BY <1>2, <1>3
-----------------------------------------------------------------------------
(* The handlers.                                                            *)

\* A turn that changes one request, and the cache at most for a good one.
LEMMA OneRequest ==
    ASSUME FetchInvariant, NEW r \in Requests, NEW q \in Request,
           requests' = [requests EXCEPT ![r] = q],
           Sound(q, snapshot'),
           snapshot' \in Bodies \cup {NoBody},
           snapshot # NoBody => snapshot' # NoBody,
           CacheValid',
           UNCHANGED core, banner' \in BOOLEAN
    PROVE  FetchInvariant'
<1>1. TypeOK'
  BY DEF FetchInvariant, TypeOK
<1>2. ASSUME NEW x \in Requests PROVE Sound(requests'[x], snapshot')
  <2>1. CASE x = r
    <3>1. requests'[x] = q
      BY <2>1 DEF FetchInvariant, TypeOK
    <3> QED
      BY <3>1
  <2>2. CASE x # r
    <3>1. requests'[x] = requests[x]
      BY <2>2 DEF FetchInvariant, TypeOK
    <3>2. Sound(requests[x], snapshot)
      BY DEF FetchInvariant
    <3> QED
      BY <3>1, <3>2 DEF Sound, Covered
  <2> QED
    BY <2>1, <2>2
<1> QED
  BY <1>1, <1>2 DEF FetchInvariant

\* The same if the cache stays as it is.
LEMMA OneRequestOnly ==
    ASSUME FetchInvariant, NEW r \in Requests, NEW q \in Request,
           requests' = [requests EXCEPT ![r] = q],
           Sound(q, snapshot),
           UNCHANGED <<core, snapshot>>, banner' \in BOOLEAN
    PROVE  FetchInvariant'
<1>1. snapshot \in Bodies \cup {NoBody} /\ CacheValid
  BY DEF FetchInvariant, TypeOK
<1>2. CacheValid'
  BY <1>1 DEF CacheValid
<1> QED
  BY <1>1, <1>2, OneRequest

LEMMA SendSafe ==
    ASSUME FetchInvariant, NEW r \in Requests, NEW kind \in Kinds, Send(r, kind)
    PROVE  FetchInvariant'
<1> DEFINE new(had) == [Idle EXCEPT !.kind = kind, !.phase = "sent", !.hadSnapshot = had]
<1>1. ASSUME NEW had \in BOOLEAN, had => snapshot # NoBody
      PROVE  new(had) \in Request /\ Sound(new(had), snapshot)
  <2>1. Idle \in Request /\ Idle.outcome = "none" /\ ~Idle.stale
    BY DEF Idle, Request, Kinds
  <2>2. /\ new(had) \in Request /\ new(had).phase = "sent" /\ new(had).outcome = "none"
        /\ ~new(had).stale /\ new(had).hadSnapshot = had
    BY <2>1 DEF Request
  <2> QED
    BY <1>1, <2>2 DEF Sound, Going, Finished, Covered
<1>2. /\ requests' = [requests EXCEPT ![r] = new(snapshot # NoBody)]
      /\ UNCHANGED <<core, snapshot, banner>>
  BY DEF Send
<1>3. banner' \in BOOLEAN
  BY <1>2 DEF FetchInvariant, TypeOK
<1> HIDE DEF new
<1>4. new(snapshot # NoBody) \in Request /\ Sound(new(snapshot # NoBody), snapshot)
  BY <1>1
<1> QED
  BY <1>2, <1>3, <1>4, OneRequestOnly

\* A request that fails under way is served from the cache, or was never promised
\* anything.
LEMMA FailedSafe ==
    ASSUME FetchInvariant, NEW r \in Requests, requests[r].phase \in {"sent", "reading"},
           NEW failure \in {"thrown", "status 503"}, Failed(r, requests[r], failure),
           UNCHANGED <<core, snapshot>>
    PROVE  FetchInvariant'
<1> DEFINE q == requests[r]
<1>1. q \in Request /\ Sound(q, snapshot)
  BY DEF FetchInvariant, TypeOK
<1>2. banner \in BOOLEAN /\ snapshot \in Bodies \cup {NoBody}
  BY DEF FetchInvariant, TypeOK
<1>3. CASE q.kind = "rules" /\ snapshot # NoBody
  <2> DEFINE new == [q EXCEPT !.body = snapshot, !.answered = NoBody, !.stale = TRUE,
                              !.phase = "parsing", !.outcome = "ok"]
  <2>1. requests' = [requests EXCEPT ![r] = new] /\ banner' = TRUE
    BY <1>1, <1>3 DEF Failed, Passed, Request
  <2>2. new \in Request /\ Sound(new, snapshot)
    BY <1>1, <1>2, <1>3 DEF Request, Sound, Going, Finished, Covered
  <2> HIDE DEF new
  <2> QED
    BY <2>1, <2>2, OneRequestOnly
<1>4. CASE ~(q.kind = "rules" /\ snapshot # NoBody)
  <2> DEFINE new == [q EXCEPT !.outcome = failure, !.phase = "done"]
  <2>1. requests' = [requests EXCEPT ![r] = new] /\ banner' = banner
    BY <1>1, <1>4 DEF Failed, Settled, Request
  <2>2. new \in Request /\ Sound(new, snapshot)
    BY <1>1, <1>2, <1>4 DEF Request, Sound, Going, Finished, Covered
  <2> HIDE DEF new
  <2> QED
    BY <1>2, <2>1, <2>2, OneRequestOnly
<1> QED
  BY <1>3, <1>4

LEMMA AnsweredSafe ==
    ASSUME FetchInvariant, NEW r \in Requests, Answered(r)
    PROVE  FetchInvariant'
<1> DEFINE q == requests[r]
           p == [q EXCEPT !.body = core.answer, !.answered = core.answer]
<1>1. q \in Request /\ Sound(q, snapshot) /\ q.phase = "sent" /\ core.answer \in Answers
  BY DEF FetchInvariant, TypeOK, Answered
<1>2. /\ core.answer \in Bodies
      /\ KeptBody(core.answer, core.answer)
  BY <1>1, AnswersAreBodies DEF KeptBody, KeptTimes
<1>3. UNCHANGED <<core, snapshot, banner>> /\ banner' \in BOOLEAN
  BY DEF Answered, FetchInvariant, TypeOK
<1>4. q.kind \in Kinds /\ p.kind = q.kind
  BY <1>1 DEF Request
<1>5. CASE q.kind = "rules"
  <2> DEFINE new == [p EXCEPT !.phase = "reading"]
  <2>1. requests' = [requests EXCEPT ![r] = new]
    BY <1>4, <1>5 DEF Answered
  <2>2. new \in Request /\ Sound(new, snapshot)
    BY <1>1, <1>2, <1>5 DEF Request, Sound, Going, Finished, Covered
  <2> HIDE DEF new
  <2> QED
    BY <1>3, <2>1, <2>2, OneRequestOnly
<1>6. CASE q.kind = "otherRules"
  <2> DEFINE new == [p EXCEPT !.phase = "parsing", !.outcome = "ok"]
  <2>1. requests' = [requests EXCEPT ![r] = new]
    BY <1>4, <1>6 DEF Answered, Passed
  <2>2. new \in Request /\ Sound(new, snapshot)
    BY <1>1, <1>2, <1>6 DEF Request, Sound, Going, Finished, Covered
  <2> HIDE DEF new
  <2> QED
    BY <1>3, <2>1, <2>2, OneRequestOnly
<1>7. CASE q.kind = "other"
  <2> DEFINE new == [p EXCEPT !.outcome = "ok", !.phase = "done"]
  <2>1. requests' = [requests EXCEPT ![r] = new]
    BY <1>4, <1>7 DEF Answered, Settled
  <2>2. new \in Request /\ Sound(new, snapshot)
    BY <1>1, <1>2, <1>7 DEF Request, Sound, Going, Finished, Covered
  <2> HIDE DEF new
  <2> QED
    BY <1>3, <2>1, <2>2, OneRequestOnly
<1> QED
  BY <1>4, <1>5, <1>6, <1>7 DEF Kinds

LEMMA RefusedSafe ==
    ASSUME FetchInvariant, NEW r \in Requests, Refused(r)
    PROVE  FetchInvariant'
<1> DEFINE q == requests[r]
           new == [q EXCEPT !.outcome = "status 401", !.phase = "done"]
<1>1. q \in Request /\ Sound(q, snapshot) /\ q.phase = "sent" /\ banner \in BOOLEAN
  BY DEF FetchInvariant, TypeOK, Refused
<1>2. UNCHANGED <<core, snapshot>>
  BY DEF Refused
<1>3. CASE Failed(r, q, "status 503")
  BY <1>1, <1>2, <1>3, FailedSafe
<1>4. CASE Settled(r, [q EXCEPT !.outcome = "status 401"]) /\ UNCHANGED banner
  <2>1. requests' = [requests EXCEPT ![r] = new]
    BY <1>4 DEF Settled
  <2>2. new \in Request /\ Sound(new, snapshot)
    BY <1>1 DEF Request, Sound, Going, Finished, Covered
  <2> HIDE DEF new
  <2> QED
    BY <1>1, <1>2, <1>4, <2>1, <2>2, OneRequestOnly
<1> QED
  BY <1>3, <1>4 DEF Refused

LEMMA RejectedSafe ==
    ASSUME FetchInvariant, NEW r \in Requests, Rejected(r)
    PROVE  FetchInvariant'
BY FailedSafe DEF Rejected

\* Only an array that the core answered gets into the cache, sanitized.
LEMMA BodyReadSafe ==
    ASSUME FetchInvariant, NEW r \in Requests, BodyRead(r)
    PROVE  FetchInvariant'
<1> DEFINE q == requests[r]
           normalized == InnerSanitized(q.body)
<1>1. /\ q \in Request /\ Sound(q, snapshot) /\ q.phase = "reading" /\ banner \in BOOLEAN
      /\ snapshot \in Bodies \cup {NoBody} /\ CacheValid
  BY DEF FetchInvariant, TypeOK, BodyRead
<1>2. /\ q.kind = "rules" /\ q.outcome = "none" /\ ~q.stale
      /\ q.body \in Answers /\ q.answered = q.body /\ q.body \in Bodies
  BY <1>1, AnswersAreBodies DEF Sound, Going
<1>3. UNCHANGED core
  BY DEF BodyRead
<1>4. CASE q.body.form = "array"
  <2> DEFINE new == [q EXCEPT !.body = normalized, !.phase = "parsing", !.outcome = "ok"]
  <2>1. /\ normalized \in Bodies /\ KeptBody(normalized, q.answered)
        /\ normalized.form = "array" /\ SensibleBody(normalized)
        /\ normalized.version = q.body.version
    BY <1>2, <1>4, InnerTreatment
  <2> HIDE DEF normalized
  <2>2. requests' = [requests EXCEPT ![r] = new] /\ snapshot' = normalized /\ banner' = FALSE
    BY <1>4 DEF BodyRead, Remember, Passed, normalized
  <2>3. normalized # NoBody
    BY <2>1 DEF NoBody, Body
  <2>4. new \in Request /\ Sound(new, normalized)
    BY <1>1, <1>2, <2>1, <2>3 DEF Request, Sound, Going, Finished, Covered
  <2>5. CacheValid'
    BY <1>2, <1>4, <2>1, <2>2 DEF CacheValid, SensibleBody
  <2> HIDE DEF new
  <2> QED
    BY <1>3, <2>1, <2>2, <2>3, <2>4, <2>5, OneRequest
<1>5. CASE q.body.form # "array"
  <2> DEFINE new == [q EXCEPT !.phase = "parsing", !.outcome = "ok"]
  <2>1. requests' = [requests EXCEPT ![r] = new] /\ UNCHANGED <<snapshot, banner>>
    BY <1>5 DEF BodyRead, Remember, Passed
  <2>2. new \in Request /\ Sound(new, snapshot)
    BY <1>1, <1>2 DEF Request, Sound, Going, Finished, Covered, KeptBody, KeptTimes
  <2> HIDE DEF new
  <2> QED
    BY <1>1, <1>3, <2>1, <2>2, OneRequestOnly
<1> QED
  BY <1>4, <1>5

LEMMA ParsedSafe ==
    ASSUME FetchInvariant, NEW r \in Requests, Parsed(r)
    PROVE  FetchInvariant'
<1> DEFINE q == requests[r]
           handed == OuterSanitized(q.body)
           new == [q EXCEPT !.body = handed, !.phase = "done"]
<1>1. q \in Request /\ Sound(q, snapshot) /\ q.phase = "parsing" /\ banner \in BOOLEAN
  BY DEF FetchInvariant, TypeOK, Parsed
<1>2. /\ q.kind # "other" /\ q.outcome = "ok" /\ q.body \in Bodies
      /\ ~q.stale => KeptBody(q.body, q.answered)
  BY <1>1 DEF Sound, Going
<1>3. /\ handed \in Bodies /\ handed.form = q.body.form
      /\ handed.form \in {"array", "map"} => SensibleBody(handed)
      /\ ~q.stale => KeptBody(handed, q.answered)
  BY <1>2, OuterTreatment
<1> HIDE DEF handed
<1>4. requests' = [requests EXCEPT ![r] = new] /\ UNCHANGED <<core, snapshot, banner>>
  BY <1>1 DEF Parsed, Settled, Request, handed
<1>5. new \in Request /\ Sound(new, snapshot)
  BY <1>1, <1>2, <1>3 DEF Request, Sound, Going, Finished, Covered
<1> HIDE DEF new
<1> QED
  BY <1>1, <1>4, <1>5, OneRequestOnly

LEMMA ParseLostSafe ==
    ASSUME FetchInvariant, NEW r \in Requests, ParseLost(r)
    PROVE  FetchInvariant'
<1> DEFINE q == requests[r]
           new == [q EXCEPT !.outcome = "broken", !.phase = "done"]
<1>1. q \in Request /\ Sound(q, snapshot) /\ banner \in BOOLEAN
  BY DEF FetchInvariant, TypeOK
<1>2. requests' = [requests EXCEPT ![r] = new] /\ UNCHANGED <<core, snapshot, banner>>
  BY DEF ParseLost, Settled
<1>3. new \in Request /\ Sound(new, snapshot)
  BY <1>1 DEF Request, Sound, Going, Finished, Covered
<1> HIDE DEF new
<1> QED
  BY <1>1, <1>2, <1>3, OneRequestOnly

LEMMA CoreChangesSafe ==
    ASSUME FetchInvariant, CoreChanges
    PROVE  FetchInvariant'
<1>1. core \in [up : BOOLEAN, answer : Answers]
  BY DEF FetchInvariant, TypeOK
<1>2. core' \in [up : BOOLEAN, answer : Answers]
  <2>1. CASE core' = [core EXCEPT !.up = ~@]
    BY <1>1, <2>1
  <2>2. ASSUME NEW answer \in Answers, core' = [core EXCEPT !.answer = answer]
        PROVE  core' \in [up : BOOLEAN, answer : Answers]
    BY <1>1, <2>2
  <2> QED
    BY <2>1, <2>2 DEF CoreChanges
<1> QED
  BY <1>2 DEF CoreChanges, FetchInvariant, TypeOK, CacheValid
-----------------------------------------------------------------------------
\* However many requests are under way and whatever the core answers.
LEMMA FetchInvariantHolds == Spec => []FetchInvariant
<1>1. Init => FetchInvariant
  <2> SUFFICES ASSUME Init PROVE FetchInvariant
    OBVIOUS
  <2>1. Idle \in Request
    BY DEF Idle, Request, Kinds
  <2>2. Sound(Idle, snapshot)
    BY DEF Idle, Sound, Going, Finished, Covered
  <2>3. TypeOK
    BY <2>1 DEF Init, TypeOK
  <2> QED
    BY <2>2, <2>3 DEF Init, FetchInvariant, CacheValid
<1>2. FetchInvariant /\ [Next]_vars => FetchInvariant'
  <2> SUFFICES ASSUME FetchInvariant, [Next]_vars PROVE FetchInvariant'
    OBVIOUS
  <2>1. ASSUME NEW r \in Requests, NEW kind \in Kinds, Send(r, kind) PROVE FetchInvariant'
    BY <2>1, SendSafe
  <2>2. ASSUME NEW r \in Requests, Proceeds(r) PROVE FetchInvariant'
    BY <2>2, AnsweredSafe, RefusedSafe, RejectedSafe, BodyReadSafe, ParsedSafe, ParseLostSafe
       DEF Proceeds
  <2>3. CASE CoreChanges
    BY <2>3, CoreChangesSafe
  <2>4. CASE UNCHANGED vars
    BY <2>4 DEF vars, FetchInvariant, TypeOK, CacheValid
  <2> QED
    BY <2>1, <2>2, <2>3, <2>4 DEF Next
<1> QED
  BY <1>1, <1>2, PTL DEF Spec

\* RuleTimesTrue: both wrappers together take away exactly the dates that mean
\* nothing, from any answer.
THEOREM RuleTimesCorrect == Spec => []RuleTimesTrue
<1>1. FetchInvariant => RuleTimesTrue
  <2> SUFFICES ASSUME FetchInvariant, NEW r \in Requests,
                      requests[r].phase = "done", requests[r].outcome = "ok"
               PROVE  /\ requests[r].kind # "other" /\ requests[r].body.form \in {"array", "map"}
                             => Sensible(requests[r].body.hit) /\ Sensible(requests[r].body.miss)
                      /\ ~requests[r].stale =>
                             /\ KeptBody(requests[r].body, requests[r].answered)
                             /\ requests[r].kind = "other" => requests[r].body = requests[r].answered
    BY DEF RuleTimesTrue, NoNonsenseTimes, RestUntouched, KeptBody, KeptTimes
  <2> QED
    BY DEF FetchInvariant, Sound, Finished, SensibleBody
<1> QED
  BY <1>1, FetchInvariantHolds, PTL

\* CacheServes: the cache holds sensible rules of the core, and whoever may rely
\* on it is answered from it, however many requests overlap.
THEOREM CacheCorrect == Spec => []CacheServes
<1>1. FetchInvariant => CacheServes
  BY DEF FetchInvariant, Sound, Covered, CacheServes, RulesSurvive
<1> QED
  BY <1>1, FetchInvariantHolds, PTL
-----------------------------------------------------------------------------
(* Every request settles.                                                   *)

Phase(r) == requests[r].phase

LEMMA RequestFields ==
    ASSUME NEW q \in Request
    PROVE  DOMAIN q = {"kind", "phase", "body", "answered", "stale", "outcome", "hadSnapshot"}
BY DEF Request

\* What a turn of r does to phases.
LEMMA OnePhase ==
    ASSUME TypeOK, NEW r \in Requests, NEW q, requests' = [requests EXCEPT ![r] = q]
    PROVE  Phase(r)' = q.phase /\ \A s \in Requests \ {r} : Phase(s)' = Phase(s)
BY DEF TypeOK, Phase

\* the fields the wrappers write
Fields == {"phase", "outcome", "body", "answered", "stale"}

\* A request is handed to the outer wrapper, or settled; others are not moved.
LEMMA PhaseAfter ==
    ASSUME TypeOK, NEW r \in Requests, NEW q, Fields \subseteq DOMAIN q
    PROVE  /\ Passed(r, q) => Phase(r)' = "parsing"
           /\ Settled(r, q) => Phase(r)' = "done"
           /\ Passed(r, q) \/ Settled(r, q) => \A s \in Requests \ {r} : Phase(s)' = Phase(s)
<1>1. Passed(r, q) => Phase(r)' = "parsing" /\ \A s \in Requests \ {r} : Phase(s)' = Phase(s)
  BY OnePhase DEF Passed, Fields
<1>2. Settled(r, q) => Phase(r)' = "done" /\ \A s \in Requests \ {r} : Phase(s)' = Phase(s)
  BY OnePhase DEF Settled, Fields
<1> QED
  BY <1>1, <1>2

LEMMA PhaseAfterFailure ==
    ASSUME TypeOK, NEW r \in Requests, NEW q, Fields \subseteq DOMAIN q, NEW failure,
           Failed(r, q, failure)
    PROVE  Phase(r)' \in {"parsing", "done"} /\ \A s \in Requests \ {r} : Phase(s)' = Phase(s)
<1> DEFINE cached == [q EXCEPT !.body = snapshot, !.answered = NoBody, !.stale = TRUE]
           lost == [q EXCEPT !.outcome = failure]
<1>1. Fields \subseteq DOMAIN cached /\ Fields \subseteq DOMAIN lost
  OBVIOUS
<1>2. Passed(r, cached) \/ Settled(r, lost)
  BY DEF Failed
<1> HIDE DEF cached, lost
<1> QED
  BY <1>1, <1>2, PhaseAfter

\* A request that proceeds is nearer to its end, and moves no other.
LEMMA ProceedsOn ==
    ASSUME TypeOK, NEW r \in Requests, Proceeds(r)
    PROVE  /\ Phase(r) = "sent"    => Phase(r)' \in {"reading", "parsing", "done"}
           /\ Phase(r) = "reading" => Phase(r)' \in {"parsing", "done"}
           /\ Phase(r) = "parsing" => Phase(r)' = "done"
           /\ \A s \in Requests \ {r} : Phase(s)' = Phase(s)
<1> DEFINE q == requests[r]
           Others == \A s \in Requests \ {r} : Phase(s)' = Phase(s)
<1>1. q \in Request /\ q.phase = Phase(r)
  BY DEF TypeOK, Phase
<1>2. Fields \subseteq DOMAIN q
  BY <1>1, RequestFields DEF Fields
<1>3. \A v : Fields \subseteq DOMAIN [q EXCEPT !.outcome = v]
  BY <1>2
<1>4. \A v : Fields \subseteq DOMAIN [q EXCEPT !.body = v]
  BY <1>2
<1>5. CASE Answered(r)
  <2> DEFINE p == [q EXCEPT !.body = core.answer, !.answered = core.answer]
             settled == [p EXCEPT !.outcome = "ok"]
             reading == [p EXCEPT !.phase = "reading"]
  <2>1. Fields \subseteq DOMAIN p /\ Fields \subseteq DOMAIN settled
    BY <1>2
  <2>2. reading.phase = "reading" /\ p.kind = q.kind
    BY <1>2 DEF Fields
  <2>3. q.kind \in Kinds
    BY <1>1 DEF Request
  <2>4. \/ requests' = [requests EXCEPT ![r] = reading]
        \/ Passed(r, p) \/ Settled(r, settled)
    BY <1>5, <2>2, <2>3 DEF Answered, Kinds
  <2>5. Phase(r) = "sent"
    BY <1>5 DEF Answered, Phase
  <2> HIDE DEF p, settled, reading
  <2> QED
    BY <2>1, <2>2, <2>4, <2>5, PhaseAfter, OnePhase
<1>6. CASE Refused(r)
  <2>1. Phase(r) = "sent" /\ (Failed(r, q, "status 503") \/ Settled(r, [q EXCEPT !.outcome = "status 401"]))
    BY <1>6 DEF Refused, Phase
  <2> QED
    BY <1>2, <1>3, <2>1, PhaseAfter, PhaseAfterFailure
<1>7. CASE Rejected(r)
  <2>1. Phase(r) \in {"sent", "reading"} /\ Failed(r, q, "thrown")
    BY <1>7 DEF Rejected, Phase
  <2> QED
    BY <1>2, <2>1, PhaseAfterFailure
<1>8. CASE BodyRead(r)
  <2>1. Phase(r) = "reading" /\ (Passed(r, q) \/ \E v : Passed(r, [q EXCEPT !.body = v]))
    BY <1>8 DEF BodyRead, Remember, Phase
  <2> QED
    BY <1>2, <1>4, <2>1, PhaseAfter
<1>9. CASE Parsed(r)
  <2>1. Phase(r) = "parsing" /\ \E v : Settled(r, [q EXCEPT !.body = v])
    BY <1>9 DEF Parsed, Phase
  <2> QED
    BY <1>4, <2>1, PhaseAfter
<1>10. CASE ParseLost(r)
  <2>1. Phase(r) = "parsing" /\ Settled(r, [q EXCEPT !.outcome = "broken"])
    BY <1>10 DEF ParseLost, Phase
  <2> QED
    BY <1>3, <2>1, PhaseAfter
<1> QED
  BY <1>5, <1>6, <1>7, <1>8, <1>9, <1>10 DEF Proceeds

\* Nobody else moves a request under way.
LEMMA OnlyProceeds ==
    ASSUME TypeOK, NEW r \in Requests, Phase(r) \in Underway, [Next]_vars
    PROVE  Phase(r)' = Phase(r) \/ Proceeds(r)
<1>1. requests \in [Requests -> Request]
  BY DEF TypeOK
<1>2. ASSUME NEW s \in Requests, NEW kind \in Kinds, Send(s, kind) PROVE Phase(r)' = Phase(r)
  BY <1>1, <1>2 DEF Send, Phase, Underway
<1>3. ASSUME NEW s \in Requests, s # r, Proceeds(s) PROVE Phase(r)' = Phase(r)
  BY <1>3, ProceedsOn
<1>4. CASE CoreChanges \/ UNCHANGED vars
  BY <1>4 DEF CoreChanges, vars, Phase
<1> QED
  BY <1>2, <1>3, <1>4 DEF Next

\* FetchSettles: with the fairness of the event loop and the network every request
\* settles, after at most three turns of its own.  That one of them can be taken
\* is NoneHangs.
THEOREM FetchSettlesCorrect == Spec /\ []NoneHangs => FetchSettles
<1> SUFFICES ASSUME NEW r \in Requests
             PROVE  Spec /\ []NoneHangs => (Phase(r) = "sent" ~> Phase(r) = "done")
  BY DEF FetchSettles, Phase
<1>1. TypeOK /\ Phase(r) \in Underway /\ [Next]_vars => Phase(r)' = Phase(r) \/ Proceeds(r)
  BY OnlyProceeds
<1>2. TypeOK /\ Proceeds(r) =>
          /\ Phase(r) = "sent"    => Phase(r)' \in {"reading", "parsing", "done"}
          /\ Phase(r) = "reading" => Phase(r)' \in {"parsing", "done"}
          /\ Phase(r) = "parsing" => Phase(r)' = "done"
  BY ProceedsOn
<1>3. NoneHangs /\ Phase(r) \in Underway => ENABLED <<Proceeds(r)>>_vars
  BY DEF NoneHangs, Phase
<1>4. Spec => [][Next]_vars /\ []TypeOK /\ Fairness(r)
  <2>1. Spec => Fairness(r)
    BY DEF Spec
  <2>2. FetchInvariant => TypeOK
    BY DEF FetchInvariant
  <2> QED
    BY <2>1, <2>2, FetchInvariantHolds, PTL DEF Spec
<1>5. Spec /\ []NoneHangs => (Phase(r) = "parsing" ~> Phase(r) = "done")
  <2>1. Phase(r) = "parsing" /\ TypeOK /\ [Next]_vars => (Phase(r) = "parsing")' \/ (Phase(r) = "done")'
    BY <1>1, <1>2 DEF Underway
  <2>2. Phase(r) = "parsing" /\ TypeOK /\ <<Proceeds(r)>>_vars => (Phase(r) = "done")'
    BY <1>2
  <2>3. Phase(r) = "parsing" /\ NoneHangs => ENABLED <<Proceeds(r)>>_vars
    BY <1>3 DEF Underway
  <2> QED
    BY <1>4, <2>1, <2>2, <2>3, PTL DEF Fairness
<1>6. Spec /\ []NoneHangs => (Phase(r) = "reading" ~> Phase(r) \in {"parsing", "done"})
  <2>1. Phase(r) = "reading" /\ TypeOK /\ [Next]_vars =>
            (Phase(r) = "reading")' \/ (Phase(r) \in {"parsing", "done"})'
    BY <1>1, <1>2 DEF Underway
  <2>2. Phase(r) = "reading" /\ TypeOK /\ <<Proceeds(r)>>_vars => (Phase(r) \in {"parsing", "done"})'
    BY <1>2
  <2>3. Phase(r) = "reading" /\ NoneHangs => ENABLED <<Proceeds(r)>>_vars
    BY <1>3 DEF Underway
  <2> QED
    BY <1>4, <2>1, <2>2, <2>3, PTL DEF Fairness
<1>7. Spec /\ []NoneHangs => (Phase(r) = "sent" ~> Phase(r) \in {"reading", "parsing", "done"})
  <2>1. Phase(r) = "sent" /\ TypeOK /\ [Next]_vars =>
            (Phase(r) = "sent")' \/ (Phase(r) \in {"reading", "parsing", "done"})'
    BY <1>1, <1>2 DEF Underway
  <2>2. Phase(r) = "sent" /\ TypeOK /\ <<Proceeds(r)>>_vars =>
            (Phase(r) \in {"reading", "parsing", "done"})'
    BY <1>2
  <2>3. Phase(r) = "sent" /\ NoneHangs => ENABLED <<Proceeds(r)>>_vars
    BY <1>3 DEF Underway
  <2> QED
    BY <1>4, <2>1, <2>2, <2>3, PTL DEF Fairness
<1>8. Phase(r) \in {"parsing", "done"} => Phase(r) = "parsing" \/ Phase(r) = "done"
  OBVIOUS
<1>9. Phase(r) \in {"reading", "parsing", "done"} =>
          Phase(r) = "reading" \/ Phase(r) = "parsing" \/ Phase(r) = "done"
  OBVIOUS
<1> QED
  BY <1>5, <1>6, <1>7, <1>8, <1>9, PTL
=============================================================================
