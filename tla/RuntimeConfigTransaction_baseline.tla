----------------- MODULE RuntimeConfigTransaction_baseline ------------------
(***************************************************************************)
(* What the requests of a transaction say about the core: a candidate is   *)
(* applied at most twice, no two applies are open at one core, and an idle *)
(* controller knows what its core runs.  The last two assume what callers  *)
(* do: they adopt and invalidate only when the core changes.               *)
(***************************************************************************)
EXTENDS RuntimeConfigTransaction_proofs

-----------------------------------------------------------------------------
(* The inductive invariants behind RetryBounded, and behind OneApplyInFlight *)
(* and CoreMatchesConfirmed.                                                 *)

\* c is a request of op to apply its candidate.
ApplyOf(c, op) == c.phase = "applying" /\ c.op = op

\* A verified rollback of op came after every apply it has asked for.
RolledBackSince(cs, op) ==
    \E e \in cs :
        /\ e.op = op /\ e.phase = "rollbackVerifying" /\ e.st = "verified"
        /\ \A c \in cs : ApplyOf(c, op) => c.token < e.token

AppliedOnce(cs, op) ==
    \A c, d \in cs : ApplyOf(c, op) /\ ApplyOf(d, op) => c.token = d.token

\* How often the running operation has applied its candidate, told by its phase
\* and by its retry budget: a second apply starts from retryValidating only, and
\* that is reached from the callback of a verified rollback only.
RetryHistory ==
    /\ RetryBounded
    /\ \A c \in calls : c.op <= ops
    /\ Busy =>
        /\ active.token = tokens
        /\ active.phase \in {"preparing", "validating"} =>
              \A c \in calls : ~ApplyOf(c, active.op)
        /\ ~active.retryUsed => AppliedOnce(calls, active.op)
        /\ active.phase = "retryValidating" \/ hook = active.op =>
              /\ active.retryUsed
              /\ AppliedOnce(calls, active.op)
              /\ RolledBackSince(calls, active.op)

\* An apply the live core may still serve and the controller answers for.
HeldApply(c) == OpenApply(c) /\ c.token \notin orphans

\* The core runs d, as far as the controller can tell.
CoreIs(d) == core = d \/ adrift

\* Nothing refers to a core session that has not begun.
ScopesPast ==
    /\ \A x \in {confirmed.scope, active.scope, active.candidate.scope} : x <= curScope
    /\ \A c \in calls : c.scope <= curScope
    /\ \A s \in seeds : s.scope <= curScope

\* The phases in which the core is known to run the confirmed configuration.
AtBaseline ==
    \/ ~Busy
    \/ active.phase \in {"preparing", "validating", "retryValidating"}
    \/ hook = active.op

\* The data the requests of an apply or verify phase carry.
Asked == IF active.phase \in {"applying", "verifying"}
           THEN active.candidate.data ELSE active.previous.data

\* An open apply is the request of the running operation, or the controller is
\* uncertain, or it was reset over that apply; so between applies the core stays what
\* the last verified readback saw, unless such an orphan lands, and a seed that is
\* still fresh has seen it too.
BaselineInvariant ==
    /\ ScopesPast
    /\ OneApplyInFlight
    /\ \A c \in calls : HeldApply(c) => uncertain \/ Matches(c)
    /\ Busy =>
        /\ active.previous = confirmed
        /\ confirmed.id # 0 => confirmed.scope = active.scope
    /\ ~uncertain /\ AtBaseline /\ confirmed.id # 0 /\ confirmed.scope = curScope
          => CoreIs(confirmed.data)
    /\ \A c \in calls : Matches(c) =>
        /\ c.scope = active.scope
        /\ c.phase \in ApplyPhases \cup VerifyPhases => c.data = Asked
        /\ c.phase \in VerifyPhases /\ c.st = "verified" /\ c.scope = curScope
              => CoreIs(c.data)
    /\ \A s \in seeds :
        /\ s.epoch <= stateEpoch
        /\ s.epoch = stateEpoch /\ ~Busy =>
              ~uncertain /\ (s.scope = curScope => CoreIs(s.data))

-----------------------------------------------------------------------------
(* Requests and their history *)

\* cs records the same requests as calls, some of them further along.
Rewrites(cs) ==
    /\ cs \subseteq Call
    /\ \A d \in cs : \E e \in calls :
          /\ e.op = d.op /\ e.token = d.token /\ e.phase = d.phase
          /\ e.data = d.data /\ e.scope = d.scope
          /\ e.st = d.st \/ e.st = "sent"
    /\ \A e \in calls : \E d \in cs :
          /\ e.op = d.op /\ e.token = d.token /\ e.phase = d.phase
          /\ e.st # "sent" => e.st = d.st

LEMMA OneRewritten ==
    ASSUME TypeOK, NEW STATE c, c \in calls, NEW STATE x, x \in Call,
           x.op = c.op, x.token = c.token, x.phase = c.phase,
           x.data = c.data, x.scope = c.scope, x.st = c.st \/ c.st = "sent"
    PROVE  Rewrites((calls \ {c}) \cup {x})
BY DEF TypeOK, Rewrites

LEMMA SameRewrites == ASSUME TypeOK PROVE Rewrites(calls)
BY DEF TypeOK, Rewrites

LEMMA AnswerRewrites ==
    ASSUME TypeOK, NEW STATE c, c \in calls
    PROVE  Rewrites(Answer(c))
<1> DEFINE x == [c EXCEPT !.answered = TRUE]
<1>1. c \in Call
  BY DEF TypeOK
<1>2. /\ x.op = c.op /\ x.token = c.token /\ x.phase = c.phase
      /\ x.data = c.data /\ x.scope = c.scope /\ x.st = c.st /\ x \in Call
  BY <1>1 DEF Call
<1>3. Answer(c) = (calls \ {c}) \cup {x}
  BY DEF Answer
<1> HIDE DEF x
<1> QED
  BY <1>2, <1>3, OneRewritten

LEMMA ServeRewrites ==
    ASSUME TypeOK, NEW STATE c, c \in calls, c.st = "sent",
           NEW STATE st, st \in {"written", "failed", "accepted", "rejected", "verified"}
    PROVE  Rewrites(Serve(c, st))
<1> DEFINE x == [c EXCEPT !.st = st]
<1>1. c \in Call
  BY DEF TypeOK
<1>2. /\ x.op = c.op /\ x.token = c.token /\ x.phase = c.phase
      /\ x.data = c.data /\ x.scope = c.scope /\ x \in Call
  BY <1>1 DEF Call
<1>3. Serve(c, st) = (calls \ {c}) \cup {x}
  BY DEF Serve
<1> HIDE DEF x
<1> QED
  BY <1>2, <1>3, OneRewritten

\* The history of an operation survives the rewriting.
LEMMA RewriteKeeps ==
    ASSUME NEW STATE cs, Rewrites(cs), NEW STATE op
    PROVE  /\ AppliedOnce(calls, op) => AppliedOnce(cs, op)
           /\ RolledBackSince(calls, op) => RolledBackSince(cs, op)
           /\ (\A c \in calls : ~ApplyOf(c, op)) => \A c \in cs : ~ApplyOf(c, op)
           /\ (\A c \in calls : c.op <= ops) => \A c \in cs : c.op <= ops
<1>1. AppliedOnce(calls, op) => AppliedOnce(cs, op)
  BY DEF Rewrites, AppliedOnce, ApplyOf
<1>2. ASSUME RolledBackSince(calls, op) PROVE RolledBackSince(cs, op)
  <2>1. PICK e \in calls :
          /\ e.op = op /\ e.phase = "rollbackVerifying" /\ e.st = "verified"
          /\ \A c \in calls : ApplyOf(c, op) => c.token < e.token
    BY <1>2 DEF RolledBackSince
  <2>2. PICK d \in cs : e.op = d.op /\ e.token = d.token /\ e.phase = d.phase /\ d.st = "verified"
    BY <2>1 DEF Rewrites
  <2>3. \A c \in cs : ApplyOf(c, op) => c.token < d.token
    BY <2>1, <2>2 DEF Rewrites, ApplyOf
  <2> QED
    BY <2>1, <2>2, <2>3 DEF RolledBackSince
<1>3. (\A c \in calls : ~ApplyOf(c, op)) => \A c \in cs : ~ApplyOf(c, op)
  BY DEF Rewrites, ApplyOf
<1>4. (\A c \in calls : c.op <= ops) => \A c \in cs : c.op <= ops
  BY DEF Rewrites
<1> QED
  BY <1>1, <1>2, <1>3, <1>4

\* RetryBounded of the requests in cs.
Bounded(cs) ==
    \A c, d \in cs :
        /\ c.phase = "applying" /\ d.phase = "applying"
        /\ c.op = d.op /\ c.token < d.token
        => /\ \A e \in cs : e.phase = "applying" /\ e.op = c.op => e \in {c, d}
           /\ \E e \in cs : /\ e.op = c.op /\ e.phase = "rollbackVerifying"
                            /\ e.st = "verified"
                            /\ c.token < e.token /\ e.token < d.token

LEMMA RewriteBounded ==
    ASSUME NEW STATE cs, Rewrites(cs), RetryBounded,
           \A d, e \in cs : d.token = e.token => d = e
    PROVE  Bounded(cs)
<1> SUFFICES ASSUME NEW c \in cs, NEW d \in cs,
                    c.phase = "applying", d.phase = "applying",
                    c.op = d.op, c.token < d.token
             PROVE  /\ \A e \in cs : e.phase = "applying" /\ e.op = c.op => e \in {c, d}
                    /\ \E e \in cs : /\ e.op = c.op /\ e.phase = "rollbackVerifying"
                                     /\ e.st = "verified"
                                     /\ c.token < e.token /\ e.token < d.token
  BY DEF Bounded
<1>1. PICK c0 \in calls : c0.op = c.op /\ c0.token = c.token /\ c0.phase = c.phase
  BY DEF Rewrites
<1>2. PICK d0 \in calls : d0.op = d.op /\ d0.token = d.token /\ d0.phase = d.phase
  BY DEF Rewrites
<1>3. /\ \A e \in calls : e.phase = "applying" /\ e.op = c.op => e \in {c0, d0}
      /\ \E e \in calls : /\ e.op = c.op /\ e.phase = "rollbackVerifying"
                          /\ e.st = "verified"
                          /\ c.token < e.token /\ e.token < d.token
  BY <1>1, <1>2 DEF RetryBounded
<1>4. ASSUME NEW e \in cs, e.phase = "applying", e.op = c.op PROVE e \in {c, d}
  <2>1. PICK e0 \in calls : e0.op = e.op /\ e0.token = e.token /\ e0.phase = e.phase
    BY DEF Rewrites
  <2>2. e.token = c.token \/ e.token = d.token
    BY <1>1, <1>2, <1>3, <1>4, <2>1
  <2> QED
    BY <2>2
<1>5. \E e \in cs : /\ e.op = c.op /\ e.phase = "rollbackVerifying"
                    /\ e.st = "verified"
                    /\ c.token < e.token /\ e.token < d.token
  BY <1>3 DEF Rewrites
<1> QED
  BY <1>4, <1>5

\* A step that starts no request: the running operation stays as it is, or ends.
LEMMA HistoryRewritten ==
    ASSUME TypeOK, RetryHistory, IdsAllocated',
           NEW STATE cs, calls' = cs, Rewrites(cs), UNCHANGED ops,
           \/ ~Busy'
           \/ /\ Busy /\ tokens' = tokens /\ hook' \in {0, hook}
              /\ active'.op = active.op /\ active'.phase = active.phase
              /\ active'.token = active.token /\ active'.retryUsed = active.retryUsed
    PROVE  RetryHistory'
<1>1. \A d, e \in cs : d.token = e.token => d = e
  BY DEF IdsAllocated
<1>2. Bounded(cs)
  BY <1>1, RewriteBounded DEF RetryHistory
<1>3. RetryBounded'
  BY <1>2 DEF RetryBounded, Bounded
<1>4. \A c \in calls' : c.op <= ops'
  BY RewriteKeeps DEF RetryHistory
<1>5. CASE ~Busy'
  BY <1>3, <1>4, <1>5 DEF RetryHistory
<1>6. CASE /\ Busy /\ tokens' = tokens /\ hook' \in {0, hook}
           /\ active'.op = active.op /\ active'.phase = active.phase
           /\ active'.token = active.token /\ active'.retryUsed = active.retryUsed
  <2>1. /\ AppliedOnce(calls, active.op) => AppliedOnce(cs, active.op)
        /\ RolledBackSince(calls, active.op) => RolledBackSince(cs, active.op)
        /\ (\A c \in calls : ~ApplyOf(c, active.op)) => \A c \in cs : ~ApplyOf(c, active.op)
    BY RewriteKeeps
  <2>2. active.op # 0
    BY <1>6 DEF Busy
  <2> QED
    BY <1>3, <1>4, <1>6, <2>1, <2>2 DEF RetryHistory
<1> QED
  BY <1>5, <1>6

\* The next request of the running operation.
LEMMA HistoryProceeds ==
    ASSUME TypeOK, TypeOK', Busy, RetryHistory, IdsAllocated, IdsAllocated',
           NEW STATE o, o \in OwnOperation, o.op = active.op, o.retryUsed = active.retryUsed,
           NEW STATE phase, phase \in Phases \ {"preparing"},
           NEW STATE r, r \in Receipt,
           NEW STATE cs, Rewrites(cs),
           Proceed(o, phase, r, cs),
           UNCHANGED ops, hook' = 0,
           phase = "validating" => active.phase = "preparing",
           phase = "applying" => active.phase \in {"validating", "retryValidating"},
           phase = "retryValidating" => hook = active.op
    PROVE  RetryHistory'
<1> DEFINE n == [op |-> o.op, token |-> tokens + 1, phase |-> phase, file |-> r.id,
           data |-> r.data, scope |-> o.scope, answered |-> FALSE, st |-> "sent"]
           b == phase # "preparing"
<1>1. /\ active' = [o EXCEPT !.phase = phase, !.token = tokens + 1, !.fileMayBeInUse = b]
      /\ tokens' = tokens + 1
      /\ calls' = cs \cup {n}
  BY DEF Proceed, BeginPhase
<1>2. /\ n.op = active.op /\ n.token = tokens + 1 /\ n.phase = phase /\ n.st = "sent"
  OBVIOUS
<1> HIDE DEF n, b
<1>3. /\ active'.op = active.op /\ active'.phase = phase /\ active'.token = tokens + 1
      /\ active'.retryUsed = active.retryUsed
  BY <1>1 DEF OwnOperation, Operation
<1>4. tokens \in Nat /\ \A c \in cs : c.token \in Nat /\ c.token <= tokens
  <2>1. tokens \in Nat /\ \A c \in cs : c.token \in Nat
    BY DEF TypeOK, Rewrites, Call
  <2> QED
    BY <2>1 DEF IdsAllocated, Rewrites
<1>5. \A d, e \in cs : d.token = e.token => d = e
  BY <1>1 DEF IdsAllocated
<1>6. Bounded(cs)
  BY <1>5, RewriteBounded DEF RetryHistory
<1>7. /\ active.phase \in {"preparing", "validating"} =>
            \A c \in cs : ~ApplyOf(c, active.op)
      /\ ~active.retryUsed => AppliedOnce(cs, active.op)
      /\ active.phase = "retryValidating" \/ hook = active.op =>
            /\ active.retryUsed
            /\ AppliedOnce(cs, active.op) /\ RolledBackSince(cs, active.op)
  BY RewriteKeeps DEF RetryHistory
<1>8. \A c \in calls' : c.op <= ops'
  <2>1. \A c \in cs : c.op <= ops
    BY RewriteKeeps DEF RetryHistory
  <2> QED
    BY <1>1, <1>2, <2>1 DEF IdsAllocated
<1>9. Bounded(calls')
  <2> SUFFICES ASSUME NEW c \in cs \cup {n}, NEW d \in cs \cup {n},
                      c.phase = "applying", d.phase = "applying",
                      c.op = d.op, c.token < d.token
               PROVE  /\ \A e \in cs \cup {n} :
                            e.phase = "applying" /\ e.op = c.op => e \in {c, d}
                      /\ \E e \in cs \cup {n} :
                            /\ e.op = c.op /\ e.phase = "rollbackVerifying"
                            /\ e.st = "verified"
                            /\ c.token < e.token /\ e.token < d.token
    BY <1>1 DEF Bounded
  <2>1. c \in cs
    BY <1>2, <1>4
  <2>2. CASE d = n
    <3>1. ApplyOf(c, active.op) /\ phase = "applying"
      BY <1>2, <2>2 DEF ApplyOf
    <3>2. AppliedOnce(cs, active.op) /\ RolledBackSince(cs, active.op)
      BY <1>7, <2>1, <3>1
    <3>3. \A e \in cs : e.phase = "applying" /\ e.op = c.op => e = c
      BY <1>5, <2>1, <3>1, <3>2 DEF AppliedOnce, ApplyOf
    <3>4. PICK e \in cs : /\ e.op = active.op /\ e.phase = "rollbackVerifying"
                          /\ e.st = "verified" /\ c.token < e.token
      BY <2>1, <3>1, <3>2 DEF RolledBackSince
    <3>5. e.op = c.op /\ e.token < d.token
      BY <1>2, <1>4, <2>2, <3>1, <3>4 DEF ApplyOf
    <3> QED
      BY <2>2, <3>3, <3>4, <3>5
  <2>3. CASE d \in cs /\ (phase # "applying" \/ c.op # active.op)
    BY <1>2, <1>6, <2>1, <2>3 DEF Bounded
  <2>4. CASE d \in cs /\ phase = "applying" /\ c.op = active.op
    <3>1. ApplyOf(c, active.op) /\ ApplyOf(d, active.op)
      BY <2>4 DEF ApplyOf
    <3>2. c.token = d.token
      BY <1>7, <2>1, <2>4, <3>1 DEF AppliedOnce
    <3> QED
      BY <1>4, <2>1, <3>2
  <2> QED
    BY <2>2, <2>3, <2>4
<1>10. RetryBounded'
  BY <1>9 DEF Bounded, RetryBounded
<1>11. CASE phase = "applying"
  <2>1. ~active.retryUsed => \A c \in cs : ~ApplyOf(c, active.op)
    BY <1>7, <1>11
  <2>2. ~active.retryUsed => AppliedOnce(calls', active.op)
    BY <1>1, <2>1 DEF AppliedOnce
  <2> QED
    BY <1>1, <1>3, <1>8, <1>10, <1>11, <2>2 DEF RetryHistory, Busy
<1>12. CASE phase # "applying"
  <2>1. ~ApplyOf(n, active.op)
    BY <1>2, <1>12 DEF ApplyOf
  <2>2. AppliedOnce(cs, active.op) => AppliedOnce(calls', active.op)
    BY <1>1, <2>1 DEF AppliedOnce
  <2>3. RolledBackSince(cs, active.op) => RolledBackSince(calls', active.op)
    BY <1>1, <2>1 DEF RolledBackSince
  <2>4. phase = "validating" => \A c \in calls' : ~ApplyOf(c, active.op)
    BY <1>1, <1>7, <2>1
  <2>5. /\ ~active'.retryUsed => AppliedOnce(calls', active'.op)
        /\ active'.phase = "retryValidating" =>
             /\ active'.retryUsed
             /\ AppliedOnce(calls', active'.op) /\ RolledBackSince(calls', active'.op)
        /\ active'.phase \in {"preparing", "validating"} =>
             \A c \in calls' : ~ApplyOf(c, active'.op)
        /\ hook' # active'.op /\ active'.token = tokens'
    BY <1>1, <1>3, <1>7, <2>2, <2>3, <2>4 DEF Busy
  <2> QED
    BY <1>8, <1>10, <2>5 DEF RetryHistory
<1> QED
  BY <1>11, <1>12

LEMMA EndsIdle ==
    ASSUME NEW STATE o,
           \/ EndForStaleScope(o) \/ Reject(o) \/ MarkUnknown(o)
           \/ \E keep \in BOOLEAN : FinishRetryValidation(o, keep)
           \/ \E result, conf, unc, retain, remove :
                 Finish(o, result, conf, unc, retain, remove)
    PROVE  ~Busy'
BY DEF EndForStaleScope, Reject, MarkUnknown, FinishRetryValidation, Finish, Busy, NoOperation

\* The settled operation differs from the running one in marks only.
LEMMA MarksOnly ==
    ASSUME TypeOK, Busy, NEW b \in BOOLEAN
    PROVE  \A o \in {active, Settled,
                     [Settled EXCEPT !.applyStarted = TRUE, !.applySettled = FALSE],
                     [Settled EXCEPT !.applySettled = TRUE],
                     [[Settled EXCEPT !.applySettled = TRUE] EXCEPT !.retryRejection = b]} :
             /\ o \in OwnOperation
             /\ o.op = active.op /\ o.scope = active.scope
             /\ o.retryUsed = active.retryUsed
             /\ o.previous = active.previous /\ o.candidate = active.candidate
<1>1. active \in OwnOperation
  BY OwnTypes
<1> DEFINE Same(x, y) == /\ y \in OwnOperation
                        /\ y.op = x.op /\ y.scope = x.scope
                        /\ y.retryUsed = x.retryUsed
                        /\ y.previous = x.previous /\ y.candidate = x.candidate
<1>2. \A x \in OwnOperation :
        /\ Same(x, [x EXCEPT !.fileMayBeInUse = FALSE])
        /\ Same(x, [x EXCEPT !.applyStarted = TRUE, !.applySettled = FALSE])
        /\ Same(x, [x EXCEPT !.applySettled = TRUE])
        /\ Same(x, [x EXCEPT !.retryRejection = b])
  BY DEF OwnOperation, Operation
<1>3. \A x, y, z : Same(x, y) /\ Same(y, z) => Same(x, z)
  OBVIOUS
<1>4. Settled = [active EXCEPT !.fileMayBeInUse = FALSE]
  BY DEF Settled
<1> HIDE DEF Same
<1>5. /\ Same(active, Settled) /\ Settled \in OwnOperation
  BY <1>1, <1>2, <1>4 DEF Same
<1>6. /\ Same(Settled, [Settled EXCEPT !.applySettled = TRUE])
      /\ [Settled EXCEPT !.applySettled = TRUE] \in OwnOperation
  BY <1>2, <1>5 DEF Same
<1>7. Same(Settled, [[Settled EXCEPT !.applySettled = TRUE] EXCEPT !.retryRejection = b])
  BY <1>2, <1>3, <1>6
<1>8. Same(active, active)
  BY <1>1 DEF Same
<1>9. /\ Same(active, [Settled EXCEPT !.applyStarted = TRUE, !.applySettled = FALSE])
      /\ Same(active, [Settled EXCEPT !.applySettled = TRUE])
      /\ Same(active, [[Settled EXCEPT !.applySettled = TRUE] EXCEPT !.retryRejection = b])
  BY <1>2, <1>3, <1>5, <1>6, <1>7
<1> QED
  BY <1>5, <1>8, <1>9, Zenon DEF Same

LEMMA HistoryEnds ==
    ASSUME TypeOK, TypeOK', Safe', RetryHistory, UNCHANGED ops,
           NEW STATE cs, calls' = cs, Rewrites(cs), ~Busy'
    PROVE  RetryHistory'
BY HistoryRewritten DEF Safe

LEMMA HistoryRollsBackOrUnknown ==
    ASSUME TypeOK, TypeOK', Safe, Safe', RetryHistory, Busy,
           NEW STATE o, o \in {active, Settled},
           NEW STATE cs, Rewrites(cs), RollbackOrUnknown(o, cs),
           UNCHANGED ops, hook' = 0
    PROVE  RetryHistory'
<1>1. /\ o \in OwnOperation /\ o.op = active.op /\ o.retryUsed = active.retryUsed
      /\ o.previous \in Receipt
  BY MarksOnly, ActiveFacts
<1>2. CASE BeginRollback(o, cs)
  <2>1. "rollbackApplying" \in Phases \ {"preparing"}
    BY DEF Phases
  <2>2. Proceed(o, "rollbackApplying", o.previous, cs)
    BY <1>2 DEF BeginRollback
  <2> QED
    BY <1>1, <2>1, <2>2, HistoryProceeds DEF Safe
<1>3. CASE MarkUnknown(o) /\ calls' = cs
  BY <1>3, EndsIdle, HistoryEnds
<1> QED
  BY <1>2, <1>3 DEF RollbackOrUnknown

LEMMA HistoryReply ==
    ASSUME TypeOK, TypeOK', Safe, Safe', RetryHistory,
           NEW c \in calls, NEW ok \in BOOLEAN,
           NEW result \in {"accepted", "rejected", "uncertain"},
           \/ StaleReply(c) \/ ValidationReply(c, ok) \/ VerifyReply(c, ok)
           \/ ApplyReply(c, result) \/ RollbackApplyReply(c, result)
           \/ SnapshotWritten(c, ok)
    PROVE  RetryHistory'
<1> DEFINE cs == Answer(c)
<1>1. /\ Rewrites(cs) /\ Busy /\ hook = 0 /\ hook' = 0 /\ UNCHANGED ops
      /\ active.phase = c.phase /\ active \in OwnOperation
  <2>1. Busy /\ hook = 0 /\ hook' = 0 /\ UNCHANGED ops /\ active.phase = c.phase
    BY DEF StaleReply, ValidationReply, VerifyReply, ApplyReply, RollbackApplyReply,
       SnapshotWritten, Received, Matches, MainTurn
  <2> QED
    BY <2>1, AnswerRewrites, OwnTypes
<1>2. \A o \in OwnOperation : o.candidate \in Receipt /\ o.previous \in Receipt
  BY DEF OwnOperation, Operation
<1>3. CASE calls' = cs /\ ~Busy'
  BY <1>1, <1>3, HistoryEnds
<1>4. CASE StaleReply(c)
  BY <1>3, <1>4, EndsIdle DEF StaleReply
<1>5. CASE ValidationReply(c, ok)
  <2> DEFINE o == [Settled EXCEPT !.applyStarted = TRUE, !.applySettled = FALSE]
  <2>1. o \in OwnOperation /\ o.op = active.op /\ o.retryUsed = active.retryUsed
        /\ Settled.candidate \in Receipt
    BY <1>1, <1>2, MarksOnly
  <2>2. \/ Proceed(o, "applying", Settled.candidate, cs)
        \/ calls' = cs /\ ~Busy'
    BY <1>5, EndsIdle DEF ValidationReply, BeginApply
  <2>3. active.phase \in {"validating", "retryValidating"}
        /\ "applying" \in Phases \ {"preparing"}
    BY <1>1, <1>5 DEF ValidationReply, Phases
  <2> HIDE DEF o, cs
  <2> QED
    BY <1>1, <1>3, <2>1, <2>2, <2>3, HistoryProceeds DEF Safe
<1>6. CASE VerifyReply(c, ok)
  <2>1. \/ calls' = cs /\ ~Busy'
        \/ RollbackOrUnknown(Settled, cs)
    BY <1>6, EndsIdle DEF VerifyReply
  <2> HIDE DEF cs
  <2> QED
    BY <1>1, <1>3, <2>1, HistoryRollsBackOrUnknown
<1>7. CASE ApplyReply(c, result)
  <2> DEFINE o == [Settled EXCEPT !.applySettled = TRUE]
             b == o.retryRejection \/ (o.retryAfterVerifiedRollback /\ ~o.retryUsed)
             r == [o EXCEPT !.retryRejection = b]
  <2>1. r = [o EXCEPT !.retryRejection =
                @ \/ (o.retryAfterVerifiedRollback /\ ~o.retryUsed)]
    OBVIOUS
  <2>2. \/ Proceed(o, "verifying", o.candidate, cs)
        \/ BeginRollback(r, cs)
        \/ calls' = cs /\ (Reject(o) \/ MarkUnknown(o))
    BY <1>7, <2>1, Zenon DEF ApplyReply
  <2>3. b \in BOOLEAN
    OBVIOUS
  <2> HIDE DEF b
  <2>4. /\ o \in OwnOperation /\ o.op = active.op /\ o.retryUsed = active.retryUsed
        /\ r \in OwnOperation /\ r.op = active.op /\ r.retryUsed = active.retryUsed
    BY <1>1, <2>3, MarksOnly
  <2>5. {"verifying", "rollbackApplying"} \subseteq Phases \ {"preparing"}
    BY DEF Phases
  <2>6. o.candidate \in Receipt /\ r.previous \in Receipt
    BY <1>2, <2>4
  <2> HIDE DEF o, r, cs
  <2>7. CASE Proceed(o, "verifying", o.candidate, cs)
    BY <1>1, <2>4, <2>5, <2>6, <2>7, HistoryProceeds DEF Safe
  <2>8. CASE BeginRollback(r, cs)
    BY <1>1, <2>4, <2>5, <2>6, <2>8, HistoryProceeds DEF Safe, BeginRollback
  <2> QED
    BY <1>3, <2>2, <2>7, <2>8, EndsIdle
<1>8. CASE RollbackApplyReply(c, result)
  <2>1. \/ Proceed(Settled, "rollbackVerifying", active.previous, cs)
        \/ calls' = cs /\ ~Busy'
    BY <1>8, EndsIdle DEF RollbackApplyReply
  <2>2. /\ Settled \in OwnOperation /\ Settled.op = active.op
        /\ Settled.retryUsed = active.retryUsed /\ active.previous \in Receipt
    BY <1>1, <1>2, MarksOnly
  <2>3. "rollbackVerifying" \in Phases \ {"preparing"}
    BY DEF Phases
  <2> HIDE DEF cs
  <2> QED
    BY <1>1, <1>3, <2>1, <2>2, <2>3, HistoryProceeds DEF Safe
<1>9. CASE SnapshotWritten(c, ok)
  <2> DEFINE x == IF c.st = "written" THEN SnapshotOf(c) ELSE NoReceipt
             o == [active EXCEPT !.candidate = x]
  <2>1. \/ Proceed(o, "validating", o.candidate, cs)
        \/ calls' = cs /\ (EndForStaleScope(o) \/ Reject(o))
    BY <1>9 DEF SnapshotWritten
  <2>2. x \in Receipt
    BY NoneTypes DEF SnapshotOf, TypeOK, Call, Receipt
  <2> HIDE DEF x
  <2>3. o \in OwnOperation /\ o.op = active.op /\ o.retryUsed = active.retryUsed
        /\ o.candidate \in Receipt
    BY <1>1, <2>2 DEF OwnOperation, Operation
  <2>4. "validating" \in Phases \ {"preparing"} /\ active.phase = "preparing"
    BY <1>1, <1>9 DEF SnapshotWritten, Phases
  <2> HIDE DEF o, cs
  <2>5. CASE Proceed(o, "validating", o.candidate, cs)
    BY <1>1, <2>3, <2>4, <2>5, HistoryProceeds DEF Safe
  <2> QED
    BY <1>3, <2>1, <2>5, EndsIdle
<1> QED
  BY <1>4, <1>5, <1>6, <1>7, <1>8, <1>9

LEMMA HistoryRollbackVerifyReply ==
    ASSUME TypeOK, TypeOK', Safe, Safe', RetryHistory,
           NEW c \in calls, NEW ok \in BOOLEAN, RollbackVerifyReply(c, ok)
    PROVE  RetryHistory'
<1> DEFINE cs == Answer(c)
           n == [Settled EXCEPT !.restoredBaseline = active.previous,
                                !.retryUsed = TRUE, !.retryRejection = FALSE]
<1>1. /\ Rewrites(cs) /\ Busy /\ Matches(c) /\ hook = 0 /\ UNCHANGED <<ops, tokens>>
      /\ c.phase = "rollbackVerifying" /\ active \in OwnOperation
  <2>1. Busy /\ Matches(c) /\ hook = 0 /\ UNCHANGED <<ops, tokens>> /\ c.phase = "rollbackVerifying"
    BY DEF RollbackVerifyReply, Received, Matches, MainTurn
  <2> QED
    BY <2>1, AnswerRewrites, OwnTypes
<1>2. CASE calls' = cs /\ ~Busy'
  BY <1>1, <1>2, HistoryEnds
<1>3. CASE /\ c.st = "verified" /\ RetryDue(active)
           /\ active' = n /\ hook' = active.op /\ calls' = cs
  <2>1. /\ n.op = active.op /\ n.phase = "rollbackVerifying" /\ n.token = active.token
        /\ n.retryUsed
    BY <1>1 DEF OwnOperation, Operation, Settled, Matches
  <2>2. /\ active.token = tokens /\ AppliedOnce(calls, active.op)
    BY <1>1, <1>3 DEF RetryHistory, RetryDue
  <2>3. RolledBackSince(calls, active.op)
    <3>1. \A d \in calls : ApplyOf(d, active.op) => d.token < c.token
      <4> SUFFICES ASSUME NEW d \in calls, ApplyOf(d, active.op) PROVE d.token < c.token
        OBVIOUS
      <4>1. c.token = tokens /\ d.token <= tokens /\ d.token # c.token
        BY <1>1, <2>2 DEF Matches, ApplyOf, Safe, IdsAllocated
      <4>2. d.token \in Nat /\ tokens \in Nat
        BY DEF TypeOK, Call
      <4> QED
        BY <4>1, <4>2
    <3> QED
      BY <1>1, <1>3, <3>1 DEF RolledBackSince, Matches
  <2>4. /\ AppliedOnce(cs, active.op) /\ RolledBackSince(cs, active.op)
        /\ \A d \in cs : d.op <= ops
    BY <1>1, <2>2, <2>3, RewriteKeeps DEF RetryHistory
  <2>5. Bounded(cs)
    <3>1. \A d, e \in cs : d.token = e.token => d = e
      BY <1>3 DEF Safe, IdsAllocated
    <3> QED
      BY <1>1, <3>1, RewriteBounded DEF RetryHistory
  <2> HIDE DEF cs, n
  <2>6. RetryBounded'
    BY <1>3, <2>5 DEF Bounded, RetryBounded
  <2> QED
    BY <1>1, <1>3, <2>1, <2>2, <2>4, <2>6 DEF RetryHistory
<1>4. \/ calls' = cs /\ ~Busy'
      \/ /\ c.st = "verified" /\ RetryDue(active)
         /\ active' = n /\ hook' = active.op /\ calls' = cs
  BY EndsIdle DEF RollbackVerifyReply
<1> QED
  BY <1>2, <1>3, <1>4

\* A step that leaves the operation and its requests alone.
LEMMA HistoryQuiet ==
    ASSUME TypeOK, Safe', RetryHistory,
           UNCHANGED <<active, calls, ops, tokens>>, hook' \in {0, hook}
    PROVE  RetryHistory'
<1>1. Busy' => Busy
  BY DEF Busy
<1> QED
  BY <1>1, SameRewrites, HistoryRewritten DEF Safe

LEMMA HistoryRetryHookReturns ==
    ASSUME TypeOK, TypeOK', Safe, Safe', RetryHistory,
           NEW cur \in BOOLEAN, RetryHookReturns(cur)
    PROVE  RetryHistory'
<1>1. hook # 0 /\ hook' = 0 /\ UNCHANGED ops /\ Rewrites(calls)
  BY SameRewrites DEF RetryHookReturns
<1>2. CASE UNCHANGED <<ctl, calls, tokens>>
  BY <1>1, <1>2, HistoryQuiet DEF ctl
<1>3. CASE calls' = calls /\ ~Busy'
  BY <1>1, <1>3, HistoryEnds
<1>4. CASE active.op = hook /\ Proceed(active, "retryValidating", active.candidate, calls)
  <2>1. Busy /\ active \in OwnOperation /\ "retryValidating" \in Phases \ {"preparing"}
        /\ active.candidate \in Receipt
    <3>1. Busy
      BY <1>1, <1>4 DEF Busy
    <3> QED
      BY <3>1, OwnTypes, ActiveFacts DEF Phases
  <2> QED
    BY <1>1, <1>4, <2>1, HistoryProceeds DEF Safe
<1>5. \/ UNCHANGED <<ctl, calls, tokens>>
      \/ calls' = calls /\ ~Busy'
      \/ active.op = hook /\ Proceed(active, "retryValidating", active.candidate, calls)
  BY EndsIdle DEF RetryHookReturns
<1> QED
  BY <1>2, <1>3, <1>4, <1>5

LEMMA HistoryTimeout ==
    ASSUME TypeOK, TypeOK', Safe, Safe', RetryHistory, Timeout
    PROVE  RetryHistory'
<1>1. Busy /\ hook' = 0 /\ UNCHANGED ops /\ Rewrites(calls)
  BY SameRewrites DEF Timeout, MainTurn
<1>2. \/ calls' = calls /\ ~Busy'
      \/ RollbackOrUnknown(active, calls)
  BY EndsIdle DEF Timeout
<1> QED
  BY <1>1, <1>2, HistoryEnds, HistoryRollsBackOrUnknown

LEMMA HistorySubmitRefused ==
    ASSUME TypeOK, Safe', RetryHistory, SubmitRefused
    PROVE  RetryHistory'
<1>1. UNCHANGED <<active, calls, hook, tokens>> /\ ops' = ops + 1 /\ ops \in Nat
  BY BoundsAssumption DEF SubmitRefused, TypeOK
<1>2. \A c \in calls : c.op \in Nat
  BY DEF TypeOK, Call
<1>3. \A c \in calls' : c.op <= ops'
  BY <1>1, <1>2 DEF RetryHistory
<1>4. RetryBounded'
  BY <1>1 DEF RetryHistory, RetryBounded
<1> QED
  BY <1>1, <1>3, <1>4 DEF RetryHistory, Busy

LEMMA HistorySubmit ==
    ASSUME TypeOK, TypeOK', Safe, Safe', RetryHistory,
           NEW s \in 1..MaxScopes, NEW retry \in BOOLEAN, Submit(s, retry)
    PROVE  RetryHistory'
<1> DEFINE o == Submitted(s, retry)
           r == [id |-> snapshots + 1, scope |-> s, data |-> snapshots + 1]
           n == [op |-> o.op, token |-> tokens + 1, phase |-> "preparing", file |-> r.id,
                 data |-> r.data, scope |-> o.scope, answered |-> FALSE, st |-> "sent"]
           b == "preparing" # "preparing"
<1>1. /\ active' = [o EXCEPT !.phase = "preparing", !.token = tokens + 1, !.fileMayBeInUse = b]
      /\ tokens' = tokens + 1 /\ calls' = calls \cup {n} /\ ops' = ops + 1
      /\ hook' = hook
  BY DEF Submit, BeginPhase
<1>2. o.op = ops + 1 /\ o = [o EXCEPT !.op = ops + 1]
  BY DEF Submitted, NoOperation
<1>3. n.op = ops + 1 /\ n.phase = "preparing"
  BY <1>2
<1>4. /\ active'.op = ops + 1 /\ active'.phase = "preparing" /\ active'.token = tokens + 1
  BY <1>1 DEF Submitted, NoOperation
<1> HIDE DEF n, o, r, b
<1>5. ops \in Nat /\ \A c \in calls : c.op \in Nat /\ c.op <= ops
  BY BoundsAssumption DEF TypeOK, Call, RetryHistory
<1>6. \A c \in calls' : c.op <= ops' /\ ~ApplyOf(c, active'.op)
  BY <1>1, <1>3, <1>4, <1>5 DEF ApplyOf
<1>7. RetryBounded'
  BY <1>1, <1>3 DEF RetryHistory, RetryBounded
<1>8. hook' # active'.op /\ AppliedOnce(calls', active'.op)
  <2>1. hook \in Nat /\ hook <= ops
    BY BoundsAssumption DEF TypeOK, Safe, IdsAllocated
  <2> QED
    BY <1>1, <1>4, <1>5, <1>6, <2>1 DEF AppliedOnce
<1> QED
  BY <1>1, <1>4, <1>6, <1>7, <1>8 DEF RetryHistory

LEMMA HistoryStep == TypeOK /\ Safe /\ RetryHistory /\ [Next]_vars => RetryHistory'
<1> SUFFICES ASSUME TypeOK, Safe, RetryHistory, [Next]_vars PROVE RetryHistory'
  OBVIOUS
<1>0. TypeOK' /\ Safe'
  BY TypeStep, SafeStep
<1>1. CASE SubmitRefused
  BY <1>0, <1>1, HistorySubmitRefused
<1>2. ASSUME NEW s \in 1..MaxScopes, NEW retry \in BOOLEAN, Submit(s, retry)
      PROVE RetryHistory'
  BY <1>0, <1>2, HistorySubmit
<1>3. ASSUME NEW c \in calls, NEW ok \in BOOLEAN,
             NEW r \in {"accepted", "rejected", "uncertain"},
             \/ StaleReply(c) \/ ValidationReply(c, ok) \/ VerifyReply(c, ok)
             \/ ApplyReply(c, r) \/ RollbackApplyReply(c, r)
             \/ SnapshotWritten(c, ok)
      PROVE RetryHistory'
  BY <1>0, <1>3, HistoryReply
<1>4. ASSUME NEW c \in calls, NEW ok \in BOOLEAN, RollbackVerifyReply(c, ok)
      PROVE RetryHistory'
  BY <1>0, <1>4, HistoryRollbackVerifyReply
<1>5. ASSUME NEW c \in calls, c.st = "sent",
             NEW st \in {"written", "failed", "accepted", "rejected", "verified"},
             calls' = Serve(c, st), UNCHANGED <<active, ops, tokens, hook>>
      PROVE RetryHistory'
  <2>1. Busy' => Busy
    BY <1>5 DEF Busy
  <2> QED
    BY <1>0, <1>5, <2>1, ServeRewrites, HistoryRewritten DEF Safe
<1>6. ASSUME NEW c \in calls,
             \/ \E ok \in BOOLEAN : WriteSnapshot(c, ok)
             \/ ServeVerify(c)
             \/ \E st \in {"accepted", "rejected"}, after \in {core, Mixed, c.data} :
                   ServeApply(c, st, after)
      PROVE RetryHistory'
  BY <1>5, <1>6 DEF WriteSnapshot, ServeVerify, ServeApply, ctl
<1>7. ASSUME NEW c \in calls, DiscardLateSnapshot(c) PROVE RetryHistory'
  <2>1. /\ calls' = Answer(c) /\ UNCHANGED <<active, ops, tokens, hook>>
        /\ Busy' => Busy
    BY <1>7 DEF DiscardLateSnapshot, MainTurn, Busy
  <2> QED
    BY <1>0, <2>1, AnswerRewrites, HistoryRewritten DEF Safe
<1>8. CASE \/ \E s \in seeds, ok \in BOOLEAN : WriteSeed(s, ok) \/ SettleSeed(s, ok)
           \/ BeginSeed \/ ReplaceCore \/ UNCHANGED vars
  BY <1>0, <1>8, HistoryQuiet DEF WriteSeed, SettleSeed, BeginSeed, ReplaceCore, vars, ctl
<1>9. CASE HookReturns
  BY <1>0, <1>9, HistoryRetryHookReturns DEF HookReturns
<1>10. CASE Timeout
  BY <1>0, <1>10, HistoryTimeout
<1>11. CASE AdoptConfirmed \/ Invalidate \/ RestartCore
  <2>1. ~Busy' /\ UNCHANGED <<calls, ops>>
    BY <1>11 DEF AdoptConfirmed, Invalidate, RestartCore, InvalidateState, Detach,
       Busy, NoOperation
  <2> QED
    BY <1>0, <2>1, SameRewrites, HistoryEnds
<1> QED
  BY <1>1, <1>2, <1>3, <1>4, <1>6, <1>7, <1>8, <1>9, <1>10, <1>11, Zenon DEF Next

\* However often replies, deadlines, resets and retries race, a candidate is
\* applied at most twice, and again only after a rollback was read back.
THEOREM RetryBoundedCorrect == Spec => []RetryBounded
<1>1. Init => RetryHistory
  BY DEF Init, RetryHistory, RetryBounded, Busy, NoOperation
<1>2. TypeOK /\ Safe /\ RetryHistory /\ [Next]_vars => RetryHistory'
  BY HistoryStep
<1>3. Init => Safe
  BY SafeInit
<1>4. TypeOK /\ Safe /\ [Next]_vars => Safe'
  BY SafeStep
<1>5. RetryHistory => RetryBounded
  BY DEF RetryHistory
<1> QED
  BY <1>1, <1>2, <1>3, <1>4, <1>5, TypeCorrect, PTL DEF Spec

-----------------------------------------------------------------------------
(* The baseline: what the core is known to run *)

NoneHeld(cs) == \A d \in cs : ~HeldApply(d)

LEMMA OpenFacts ==
    ASSUME TypeOK, Safe, BaselineInvariant
    PROVE  /\ ~Busy /\ ~uncertain => NoneHeld(calls)
           /\ Busy => ~uncertain
           /\ Busy /\ active.phase \notin ApplyPhases => NoneHeld(calls)
           /\ \A c \in calls : Matches(c) /\ c.st # "sent" => NoneHeld(calls)
           /\ \A cs : Rewrites(cs) /\ NoneHeld(calls) => NoneHeld(cs)
<1>1. Busy => ~uncertain
  BY DEF Safe, UncertainBlocks
<1>2. \A d \in calls : HeldApply(d) => uncertain \/ Matches(d)
  BY DEF BaselineInvariant
<1>3. \A d \in calls : Matches(d) => Busy /\ d.phase = active.phase
  BY DEF Matches
<1>4. \A c, d \in calls : Matches(c) /\ Matches(d) => c = d
  BY DEF Matches, Safe, IdsAllocated
<1>5. \A cs : Rewrites(cs) /\ NoneHeld(calls) => NoneHeld(cs)
  BY DEF Rewrites, NoneHeld, HeldApply, OpenApply
<1> QED
  BY <1>1, <1>2, <1>3, <1>4, <1>5 DEF NoneHeld, HeldApply, OpenApply

LEMMA OneApplyRewritten ==
    ASSUME OneApplyInFlight, NEW STATE cs, Rewrites(cs),
           \A d, e \in cs : d.token = e.token => d = e
    PROVE  \A c, d \in cs :
              OpenApply(c) /\ OpenApply(d) /\ c.token < d.token => c.token \in orphans
BY DEF OneApplyInFlight, Rewrites, OpenApply

\* The running operation ends.
LEMMA BaselineEnds ==
    ASSUME TypeOK, TypeOK', Safe', BaselineInvariant,
           NEW STATE cs, calls' = cs, Rewrites(cs),
           active' = NoOperation, stateEpoch' = stateEpoch + 1,
           UNCHANGED <<seeds, curScope, core, orphans, adrift>>,
           uncertain' \/ NoneHeld(cs),
           confirmed'.scope <= curScope,
           ~uncertain' /\ confirmed'.id # 0 /\ confirmed'.scope = curScope
             => CoreIs(confirmed'.data)
    PROVE  BaselineInvariant'
<1>1. ~Busy' /\ \A c : ~Matches(c)'
  BY DEF Busy, Matches, NoOperation
<1>2. ScopesPast'
  <2>1. \A c \in cs : c.scope <= curScope
    BY DEF Rewrites, BaselineInvariant, ScopesPast
  <2>2. NoOperation.scope = 0 /\ NoOperation.candidate.scope = 0 /\ 0 <= curScope
    BY DEF NoOperation, NoReceipt, TypeOK
  <2> QED
    BY <2>1, <2>2 DEF BaselineInvariant, ScopesPast
<1>3. OneApplyInFlight'
  <2>1. \A d, e \in cs : d.token = e.token => d = e
    BY DEF Safe, IdsAllocated
  <2> QED
    BY <2>1, OneApplyRewritten DEF BaselineInvariant, OneApplyInFlight, OpenApply
<1>4. \A c \in calls' : HeldApply(c)' => uncertain'
  BY DEF NoneHeld, HeldApply, OpenApply
<1>5. \A s \in seeds' : s.epoch < stateEpoch'
  <2>1. stateEpoch \in Nat /\ \A s \in seeds : s.epoch \in Nat /\ s.epoch <= stateEpoch
    BY DEF TypeOK, Seed, BaselineInvariant
  <2> QED
    BY <2>1
<1>6. \A s \in seeds' : s.epoch <= stateEpoch' /\ s.epoch # stateEpoch'
  <2>1. stateEpoch' \in Nat /\ \A s \in seeds' : s.epoch \in Nat
    BY DEF TypeOK, Seed
  <2> QED
    BY <1>5, <2>1
<1> QED
  BY <1>1, <1>2, <1>3, <1>4, <1>6 DEF BaselineInvariant, CoreIs

\* The running operation asks for its next phase.
LEMMA BaselineProceeds ==
    ASSUME TypeOK, TypeOK', Safe, Safe', BaselineInvariant, Busy,
           NEW STATE o, o \in OwnOperation, o.op = active.op, o.scope = active.scope,
           o.previous = active.previous, o.candidate.scope <= curScope,
           active.scope = curScope,
           NEW STATE phase, phase \in Phases \ {"preparing"},
           NEW STATE r, r \in Receipt,
           NEW STATE cs, Rewrites(cs), NoneHeld(cs), Proceed(o, phase, r, cs),
           UNCHANGED <<seeds, curScope, core, orphans, adrift>>, hook' = 0,
           phase \in {"validating", "retryValidating"} => AtBaseline,
           phase \in {"applying", "verifying"} => r.data = o.candidate.data,
           phase \in {"rollbackApplying", "rollbackVerifying"} => r.data = o.previous.data
    PROVE  BaselineInvariant'
<1> DEFINE n == [op |-> o.op, token |-> tokens + 1, phase |-> phase, file |-> r.id,
           data |-> r.data, scope |-> o.scope, answered |-> FALSE, st |-> "sent"]
           b == phase # "preparing"
<1>1. /\ active' = [o EXCEPT !.phase = phase, !.token = tokens + 1, !.fileMayBeInUse = b]
      /\ calls' = cs \cup {n}
      /\ UNCHANGED <<confirmed, uncertain, stateEpoch>>
  BY DEF Proceed, BeginPhase
<1>2. /\ n.op = active.op /\ n.token = tokens + 1 /\ n.phase = phase /\ n.st = "sent"
      /\ n.scope = curScope /\ n.data = r.data
  OBVIOUS
<1> HIDE DEF n, b
<1>3. /\ active'.op = active.op /\ active'.phase = phase /\ active'.token = tokens + 1
      /\ active'.scope = curScope /\ active'.previous = active.previous
      /\ active'.candidate = o.candidate
  BY <1>1 DEF OwnOperation, Operation
<1>4. Busy' /\ ~uncertain /\ hook' # active'.op
  BY <1>3, OpenFacts DEF Busy
<1>5. \A d, e \in cs : d.token = e.token => d = e
  BY <1>1 DEF Safe, IdsAllocated
<1>6. \A c \in calls' : Matches(c)' => c = n
  <2>1. tokens \in Nat /\ \A c \in cs : c.token \in Nat /\ c.token <= tokens
    BY DEF TypeOK, Rewrites, Call, Safe, IdsAllocated
  <2> QED
    BY <1>1, <1>3, <2>1 DEF Matches
<1>7. \A c : c = n => Matches(c)'
  BY <1>2, <1>3, <1>4 DEF Matches
<1>8. ScopesPast'
  <2>1. \A c \in cs : c.scope <= curScope
    BY DEF Rewrites, BaselineInvariant, ScopesPast
  <2>2. curScope <= curScope
    BY DEF TypeOK
  <2> QED
    BY <1>1, <1>2, <1>3, <2>1, <2>2 DEF BaselineInvariant, ScopesPast
<1>9. OneApplyInFlight'
  <2>1. \A c, d \in cs :
              OpenApply(c) /\ OpenApply(d) /\ c.token < d.token => c.token \in orphans
    BY <1>5, OneApplyRewritten DEF BaselineInvariant
  <2>2. \A c \in cs : OpenApply(c) => c.token \in orphans
    BY DEF NoneHeld, HeldApply
  <2>3. \A c \in cs : c.token \in Nat /\ c.token <= tokens /\ tokens \in Nat
    BY DEF TypeOK, Rewrites, Call, Safe, IdsAllocated
  <2>4. \A c : OpenApply(c)' = OpenApply(c)
    BY DEF OpenApply
  <2>5. \A d \in calls' : ~(n.token < d.token)
    <3>1. tokens \in Nat
      BY DEF TypeOK
    <3> QED
      BY <1>1, <1>2, <2>3, <3>1
  <2> SUFFICES ASSUME NEW c \in calls', NEW d \in calls', OpenApply(c), OpenApply(d),
                      c.token < d.token
               PROVE  c.token \in orphans
    BY <2>4 DEF OneApplyInFlight
  <2> QED
    BY <1>1, <2>2, <2>5
<1>10. \A c \in calls' : HeldApply(c)' => Matches(c)'
  BY <1>1, <1>7 DEF NoneHeld, HeldApply, OpenApply
<1>11. n.phase \in ApplyPhases \cup VerifyPhases => n.data = Asked'
  BY <1>2, <1>3 DEF Asked, ApplyPhases, VerifyPhases
<1>12. AtBaseline' => AtBaseline
  BY <1>3, <1>4 DEF AtBaseline, Phases
<1> QED
  BY <1>1, <1>2, <1>3, <1>4, <1>6, <1>8, <1>9, <1>10, <1>11, <1>12 DEF BaselineInvariant, CoreIs

\* The endings: an uncertain one, one that drops the receipt of its scope, and
\* one that leaves the confirmed receipt alone.
LEMMA BaselineUnknown ==
    ASSUME TypeOK, TypeOK', Safe', BaselineInvariant,
           NEW STATE o, MarkUnknown(o),
           NEW STATE cs, calls' = cs, Rewrites(cs), UNCHANGED <<seeds, curScope, core, orphans, adrift>>
    PROVE  BaselineInvariant'
<1>1. /\ active' = NoOperation /\ stateEpoch' = stateEpoch + 1 /\ uncertain'
      /\ confirmed' \in {confirmed, NoReceipt}
  BY DEF MarkUnknown, Finish, WithoutScope
<1>2. confirmed'.scope <= curScope
  BY <1>1 DEF BaselineInvariant, ScopesPast, NoReceipt, TypeOK
<1> QED
  BY <1>1, <1>2, BaselineEnds

LEMMA BaselineStale ==
    ASSUME TypeOK, TypeOK', Safe, Safe', BaselineInvariant, Busy,
           NEW STATE o, EndForStaleScope(o),
           o.scope = active.scope, o.applyStarted = active.applyStarted,
           NEW STATE cs, calls' = cs, Rewrites(cs), UNCHANGED <<seeds, curScope, core, orphans, adrift>>
    PROVE  BaselineInvariant'
<1>1. /\ active' = NoOperation /\ stateEpoch' = stateEpoch + 1
      /\ confirmed' = WithoutScope(active.scope)
      /\ active.applyStarted => uncertain'
  BY DEF EndForStaleScope, Finish
<1>2. confirmed'.id = 0 /\ confirmed'.scope <= curScope
  BY <1>1 DEF BaselineInvariant, ScopesPast, WithoutScope, NoReceipt, TypeOK
<1>3. ~active.applyStarted => NoneHeld(cs)
  <2>1. active.phase \in ApplyPhases => active.applyStarted
    BY DEF Safe, OperationConsistent
  <2> QED
    BY <2>1, OpenFacts
<1> QED
  BY <1>1, <1>2, <1>3, BaselineEnds

LEMMA BaselineKept ==
    ASSUME TypeOK, TypeOK', Safe, Safe', BaselineInvariant, Busy,
           NEW STATE o,
           \/ Reject(o)
           \/ \E keep \in BOOLEAN : FinishRetryValidation(o, keep)
           \/ \E result, retain, remove :
                 Finish(o, result, confirmed, uncertain, retain, remove),
           NEW STATE cs, calls' = cs, Rewrites(cs), UNCHANGED <<seeds, curScope, core, orphans, adrift>>,
           NoneHeld(calls), AtBaseline \/ confirmed.id = 0
    PROVE  BaselineInvariant'
<1>1. /\ active' = NoOperation /\ stateEpoch' = stateEpoch + 1
      /\ UNCHANGED <<confirmed, uncertain>>
  BY DEF Reject, FinishRetryValidation, Finish
<1>2. NoneHeld(cs) /\ confirmed.scope <= curScope
  BY OpenFacts DEF BaselineInvariant, ScopesPast
<1>3. ~uncertain /\ confirmed.id # 0 /\ confirmed.scope = curScope => CoreIs(confirmed.data)
  BY DEF BaselineInvariant
<1> QED
  BY <1>1, <1>2, <1>3, BaselineEnds

LEMMA BaselineRollsBackOrUnknown ==
    ASSUME TypeOK, TypeOK', Safe, Safe', BaselineInvariant, Busy,
           active.scope = curScope, active.phase \notin ApplyPhases,
           NEW STATE o, o \in {active, Settled},
           NEW STATE cs, Rewrites(cs), RollbackOrUnknown(o, cs),
           UNCHANGED <<seeds, curScope, core, orphans, adrift>>, hook' = 0
    PROVE  BaselineInvariant'
<1>1. /\ o \in OwnOperation /\ o.op = active.op /\ o.scope = active.scope
      /\ o.previous = active.previous /\ o.candidate = active.candidate
      /\ o.previous \in Receipt
  BY MarksOnly, ActiveFacts
<1>2. NoneHeld(cs) /\ o.candidate.scope <= curScope
  BY <1>1, OpenFacts DEF BaselineInvariant, ScopesPast
<1>3. CASE BeginRollback(o, cs)
  <2>1. "rollbackApplying" \in Phases \ {"preparing"}
    BY DEF Phases
  <2>2. Proceed(o, "rollbackApplying", o.previous, cs)
    BY <1>3 DEF BeginRollback
  <2> QED
    BY <1>1, <1>2, <2>1, <2>2, BaselineProceeds
<1>4. CASE MarkUnknown(o) /\ calls' = cs
  BY <1>4, BaselineUnknown
<1> QED
  BY <1>3, <1>4 DEF RollbackOrUnknown

\* A reply the operation takes while its session is the live one.
LEMMA BaselineReplyFacts ==
    ASSUME TypeOK, Safe, BaselineInvariant, NEW c \in calls, Received(c)
    PROVE  /\ Rewrites(Answer(c)) /\ Busy /\ Matches(c) /\ hook = 0 /\ ~uncertain
           /\ UNCHANGED <<seeds, curScope, core, orphans, adrift>>
           /\ active.phase = c.phase /\ active \in OwnOperation
           /\ c.st # "sent" \/ c.phase \notin ApplyPhases =>
                NoneHeld(calls) /\ NoneHeld(Answer(c))
           /\ TRUE \in Current(active.scope) => active.scope = curScope
           /\ active.candidate.scope <= curScope
<1>1. Busy /\ Matches(c) /\ hook = 0 /\ UNCHANGED <<seeds, curScope, core, orphans, adrift>>
      /\ active.phase = c.phase
  BY DEF Received, Matches, MainTurn
<1>2. TRUE \in Current(active.scope) => active.scope = curScope
  BY DEF Current
<1>3. active.candidate.scope <= curScope
  BY DEF BaselineInvariant, ScopesPast
<1> QED
  BY <1>1, <1>2, <1>3, AnswerRewrites, OwnTypes, OpenFacts

LEMMA BaselineStaleReply ==
    ASSUME TypeOK, TypeOK', Safe, Safe', BaselineInvariant,
           NEW c \in calls, StaleReply(c)
    PROVE  BaselineInvariant'
<1>1. Received(c) /\ EndForStaleScope(Settled) /\ calls' = Answer(c)
  BY DEF StaleReply
<1> QED
  BY <1>1, BaselineReplyFacts, SettledFields, BaselineStale

LEMMA BaselineSnapshotWritten ==
    ASSUME TypeOK, TypeOK', Safe, Safe', BaselineInvariant,
           NEW c \in calls, NEW ok \in BOOLEAN, SnapshotWritten(c, ok)
    PROVE  BaselineInvariant'
<1> DEFINE cs == Answer(c)
           x == IF c.st = "written" THEN SnapshotOf(c) ELSE NoReceipt
           o == [active EXCEPT !.candidate = x]
<1>1. /\ Received(c) /\ active.phase = "preparing" /\ hook' = 0
  BY DEF SnapshotWritten, Received, MainTurn, Matches
<1>2. /\ Rewrites(cs) /\ Busy /\ Matches(c) /\ NoneHeld(calls) /\ NoneHeld(cs)
      /\ UNCHANGED <<seeds, curScope, core, orphans, adrift>> /\ active \in OwnOperation
  <2>1. c.phase \notin ApplyPhases
    BY <1>1 DEF Received, Matches, ApplyPhases
  <2> QED
    BY <1>1, <2>1, BaselineReplyFacts
<1>3. \/ ok /\ TRUE \in Current(active.scope) /\ Proceed(o, "validating", o.candidate, cs)
      \/ calls' = cs /\ (EndForStaleScope(o) \/ Reject(o))
  BY DEF SnapshotWritten
<1>4. x \in Receipt /\ x.scope <= curScope
  <2>1. c \in Call /\ c.scope <= curScope /\ 0 <= curScope
    BY DEF TypeOK, BaselineInvariant, ScopesPast
  <2>2. SnapshotOf(c) \in Receipt /\ SnapshotOf(c).scope = c.scope
    BY <2>1 DEF SnapshotOf, Call, Receipt
  <2>3. NoReceipt \in Receipt /\ NoReceipt.scope = 0
    BY NoneTypes DEF NoReceipt
  <2> QED
    BY <2>1, <2>2, <2>3
<1> HIDE DEF x
<1>5. /\ o \in OwnOperation /\ o.op = active.op /\ o.scope = active.scope
      /\ o.previous = active.previous /\ o.applyStarted = active.applyStarted
      /\ o.candidate = x
  BY <1>2, <1>4 DEF OwnOperation, Operation
<1>6. AtBaseline /\ "validating" \in Phases \ {"preparing"}
  BY <1>1 DEF AtBaseline, Phases
<1> HIDE DEF o, cs
<1>7. CASE TRUE \in Current(active.scope) /\ Proceed(o, "validating", o.candidate, cs)
  <2>1. active.scope = curScope
    BY <1>7 DEF Current
  <2> QED
    BY <1>1, <1>2, <1>4, <1>5, <1>6, <1>7, <2>1, BaselineProceeds
<1>8. CASE calls' = cs /\ EndForStaleScope(o)
  BY <1>2, <1>5, <1>8, BaselineStale
<1>9. CASE calls' = cs /\ Reject(o)
  BY <1>2, <1>6, <1>9, BaselineKept
<1> QED
  BY <1>3, <1>7, <1>8, <1>9

LEMMA BaselineValidationReply ==
    ASSUME TypeOK, TypeOK', Safe, Safe', BaselineInvariant,
           NEW c \in calls, NEW ok \in BOOLEAN, ValidationReply(c, ok)
    PROVE  BaselineInvariant'
<1> DEFINE cs == Answer(c)
           o == [Settled EXCEPT !.applyStarted = TRUE, !.applySettled = FALSE]
<1>1. /\ Received(c) /\ c.phase \in {"validating", "retryValidating"} /\ hook' = 0
      /\ TRUE \in Current(active.scope)
  BY DEF ValidationReply, Received, MainTurn
<1>2. /\ Rewrites(cs) /\ Busy /\ NoneHeld(calls) /\ NoneHeld(cs)
      /\ UNCHANGED <<seeds, curScope, core, orphans, adrift>> /\ active.scope = curScope
      /\ active.phase = c.phase /\ active.candidate.scope <= curScope
  <2>1. c.phase \notin ApplyPhases
    BY <1>1 DEF ApplyPhases
  <2> QED
    BY <1>1, <2>1, BaselineReplyFacts
<1>3. /\ o \in OwnOperation /\ o.op = active.op /\ o.scope = active.scope
      /\ o.previous = active.previous /\ o.candidate = active.candidate
      /\ Settled.candidate = active.candidate /\ Settled.candidate \in Receipt
  BY <1>2, MarksOnly, ActiveFacts
<1>4. AtBaseline /\ "applying" \in Phases \ {"preparing"}
  BY <1>1, <1>2 DEF AtBaseline, Phases
<1>5. \/ Proceed(o, "applying", Settled.candidate, cs)
      \/ /\ calls' = cs
         /\ Reject(Settled) \/ FinishRetryValidation(Settled, FALSE)
  BY DEF ValidationReply, BeginApply
<1> HIDE DEF o, cs
<1>6. CASE Proceed(o, "applying", Settled.candidate, cs)
  BY <1>1, <1>2, <1>3, <1>4, <1>6, BaselineProceeds
<1>7. CASE calls' = cs /\ (Reject(Settled) \/ FinishRetryValidation(Settled, FALSE))
  BY <1>2, <1>4, <1>7, BaselineKept
<1> QED
  BY <1>5, <1>6, <1>7

LEMMA BaselineApplyReply ==
    ASSUME TypeOK, TypeOK', Safe, Safe', BaselineInvariant,
           NEW c \in calls, NEW result \in {"accepted", "rejected", "uncertain"},
           ApplyReply(c, result)
    PROVE  BaselineInvariant'
<1> DEFINE cs == Answer(c)
           o == [Settled EXCEPT !.applySettled = TRUE]
           b == o.retryRejection \/ (o.retryAfterVerifiedRollback /\ ~o.retryUsed)
           r == [o EXCEPT !.retryRejection = b]
<1>1. /\ Received(c) /\ hook' = 0 /\ TRUE \in Current(active.scope)
      /\ result = "uncertain" \/ result = c.st
  BY DEF ApplyReply, Received, MainTurn
<1>2. /\ Rewrites(cs) /\ Busy /\ UNCHANGED <<seeds, curScope, core, orphans, adrift>>
      /\ active.scope = curScope /\ active.candidate.scope <= curScope
      /\ result # "uncertain" => NoneHeld(calls) /\ NoneHeld(cs)
  BY <1>1, BaselineReplyFacts
<1>3. b \in BOOLEAN /\ r = [o EXCEPT !.retryRejection =
                @ \/ (o.retryAfterVerifiedRollback /\ ~o.retryUsed)]
  OBVIOUS
<1>4. \/ result = "accepted" /\ Proceed(o, "verifying", o.candidate, cs)
      \/ result = "rejected" /\ BeginRollback(r, cs)
      \/ result = "rejected" /\ ~HasBaseline(o) /\ Reject(o) /\ calls' = cs
      \/ MarkUnknown(o) /\ calls' = cs
  BY <1>3, Zenon DEF ApplyReply
<1> HIDE DEF b
<1>5. /\ o \in OwnOperation /\ o.op = active.op /\ o.scope = active.scope
      /\ o.previous = active.previous /\ o.candidate = active.candidate
      /\ r \in OwnOperation /\ r.op = active.op /\ r.scope = active.scope
      /\ r.previous = active.previous /\ r.candidate = active.candidate
  BY <1>2, <1>3, MarksOnly
<1>6. /\ {"verifying", "rollbackApplying"} \subseteq Phases \ {"preparing"}
      /\ active.candidate \in Receipt /\ active.previous \in Receipt
  BY <1>2, ActiveFacts DEF Phases
<1> HIDE DEF o, r, cs
<1>7. CASE result = "accepted" /\ Proceed(o, "verifying", o.candidate, cs)
  BY <1>1, <1>2, <1>5, <1>6, <1>7, BaselineProceeds
<1>8. CASE result = "rejected" /\ BeginRollback(r, cs)
  <2>1. Proceed(r, "rollbackApplying", r.previous, cs)
    BY <1>8 DEF BeginRollback
  <2> QED
    BY <1>1, <1>2, <1>5, <1>6, <1>8, <2>1, BaselineProceeds
<1>9. CASE result = "rejected" /\ ~HasBaseline(o) /\ Reject(o) /\ calls' = cs
  <2>1. confirmed.id = 0
    BY <1>2, <1>5, <1>9 DEF HasBaseline, BaselineInvariant
  <2> QED
    BY <1>2, <1>9, <2>1, BaselineKept
<1>10. CASE MarkUnknown(o) /\ calls' = cs
  BY <1>2, <1>10, BaselineUnknown
<1> QED
  BY <1>4, <1>7, <1>8, <1>9, <1>10

LEMMA BaselineVerifyReply ==
    ASSUME TypeOK, TypeOK', Safe, Safe', BaselineInvariant,
           NEW c \in calls, NEW ok \in BOOLEAN, VerifyReply(c, ok)
    PROVE  BaselineInvariant'
<1> DEFINE cs == Answer(c)
<1>1. /\ Received(c) /\ hook' = 0 /\ TRUE \in Current(active.scope)
      /\ c.phase = "verifying" /\ c.phase \in VerifyPhases \ ApplyPhases
  BY DEF VerifyReply, Received, MainTurn, ApplyPhases, VerifyPhases
<1>2. /\ Rewrites(cs) /\ Busy /\ Matches(c) /\ UNCHANGED <<seeds, curScope, core, orphans, adrift>>
      /\ active.scope = curScope /\ active.candidate.scope <= curScope
      /\ NoneHeld(cs) /\ active.phase = "verifying"
  BY <1>1, BaselineReplyFacts
<1>3. \/ /\ c.st = "verified"
         /\ Finish(Settled, "applied", active.candidate, FALSE, {}, {confirmed.id})
         /\ calls' = cs
      \/ RollbackOrUnknown(Settled, cs)
  BY DEF VerifyReply
<1> HIDE DEF cs
<1>4. CASE /\ c.st = "verified"
           /\ Finish(Settled, "applied", active.candidate, FALSE, {}, {confirmed.id})
           /\ calls' = cs
  <2>1. CoreIs(active.candidate.data)
    BY <1>1, <1>2, <1>4 DEF BaselineInvariant, Asked
  <2>2. /\ active' = NoOperation /\ stateEpoch' = stateEpoch + 1
        /\ confirmed' = active.candidate
    BY <1>4 DEF Finish
  <2> QED
    BY <1>2, <1>4, <2>1, <2>2, BaselineEnds
<1>5. CASE RollbackOrUnknown(Settled, cs)
  BY <1>1, <1>2, <1>5, BaselineRollsBackOrUnknown
<1> QED
  BY <1>3, <1>4, <1>5

LEMMA BaselineRollbackApplyReply ==
    ASSUME TypeOK, TypeOK', Safe, Safe', BaselineInvariant,
           NEW c \in calls, NEW result \in {"accepted", "rejected", "uncertain"},
           RollbackApplyReply(c, result)
    PROVE  BaselineInvariant'
<1> DEFINE cs == Answer(c)
<1>1. /\ Received(c) /\ hook' = 0 /\ TRUE \in Current(active.scope)
      /\ result = "uncertain" \/ result = c.st
  BY DEF RollbackApplyReply, Received, MainTurn
<1>2. /\ Rewrites(cs) /\ Busy /\ UNCHANGED <<seeds, curScope, core, orphans, adrift>>
      /\ active.scope = curScope /\ active.candidate.scope <= curScope
      /\ result # "uncertain" => NoneHeld(cs)
  BY <1>1, BaselineReplyFacts
<1>3. \/ /\ result = "accepted"
         /\ Proceed(Settled, "rollbackVerifying", active.previous, cs)
      \/ MarkUnknown(Settled) /\ calls' = cs
  BY DEF RollbackApplyReply
<1>4. /\ Settled \in OwnOperation /\ Settled.op = active.op /\ Settled.scope = active.scope
      /\ Settled.previous = active.previous /\ Settled.candidate = active.candidate
      /\ active.previous \in Receipt /\ "rollbackVerifying" \in Phases \ {"preparing"}
  BY <1>2, MarksOnly, ActiveFacts DEF Phases
<1> HIDE DEF cs
<1>5. CASE /\ result = "accepted"
           /\ Proceed(Settled, "rollbackVerifying", active.previous, cs)
  BY <1>1, <1>2, <1>4, <1>5, BaselineProceeds
<1>6. CASE MarkUnknown(Settled) /\ calls' = cs
  BY <1>2, <1>6, BaselineUnknown
<1> QED
  BY <1>3, <1>5, <1>6

LEMMA BaselineRollbackVerifyReply ==
    ASSUME TypeOK, TypeOK', Safe, Safe', BaselineInvariant,
           NEW c \in calls, NEW ok \in BOOLEAN, RollbackVerifyReply(c, ok)
    PROVE  BaselineInvariant'
<1> DEFINE cs == Answer(c)
           n == [Settled EXCEPT !.restoredBaseline = active.previous,
                                !.retryUsed = TRUE, !.retryRejection = FALSE]
<1>1. /\ Received(c) /\ TRUE \in Current(active.scope)
      /\ c.phase = "rollbackVerifying" /\ c.phase \in VerifyPhases \ ApplyPhases
      /\ UNCHANGED stateEpoch \/ stateEpoch' = stateEpoch + 1
  BY DEF RollbackVerifyReply, MarkUnknown, Finish, ApplyPhases, VerifyPhases
<1>2. /\ Rewrites(cs) /\ Busy /\ Matches(c) /\ UNCHANGED <<seeds, curScope, core, orphans, adrift>>
      /\ active.scope = curScope /\ NoneHeld(cs) /\ active.phase = "rollbackVerifying"
      /\ active \in OwnOperation
  BY <1>1, BaselineReplyFacts
<1>3. c.st = "verified" => CoreIs(active.previous.data)
  BY <1>1, <1>2 DEF BaselineInvariant, Asked
<1>4. active.previous = confirmed /\ confirmed.scope <= curScope
  BY <1>2 DEF BaselineInvariant, ScopesPast
<1>5. \/ /\ c.st = "verified" /\ active' = n /\ hook' = active.op
         /\ confirmed' = active.previous /\ stateEpoch' = stateEpoch + 1
         /\ calls' = cs /\ uncertain' = FALSE
      \/ /\ c.st = "verified" /\ calls' = cs
         /\ Finish(Settled, "rolledBack", active.previous, FALSE, {},
                   {active.candidate.id})
      \/ MarkUnknown(Settled) /\ calls' = cs
  BY DEF RollbackVerifyReply
<1>6. /\ n.op = active.op /\ n.phase = active.phase /\ n.token = active.token
      /\ n.scope = active.scope /\ n.previous = active.previous
      /\ n.candidate = active.candidate
  BY <1>2 DEF OwnOperation, Operation, Settled
<1> HIDE DEF cs, n
<1>7. CASE /\ c.st = "verified" /\ active' = n /\ hook' = active.op
           /\ confirmed' = active.previous /\ stateEpoch' = stateEpoch + 1
           /\ calls' = cs /\ uncertain' = FALSE
  <2>1. Busy' /\ Asked' = Asked /\ CoreIs(confirmed.data)'
    BY <1>2, <1>3, <1>6, <1>7 DEF Busy, Asked, CoreIs
  <2>2. \A d, e \in cs : d.token = e.token => d = e
    BY <1>7 DEF Safe, IdsAllocated
  <2>3. OneApplyInFlight'
    BY <1>2, <1>7, <2>2, OneApplyRewritten DEF BaselineInvariant, OneApplyInFlight, OpenApply
  <2>4. ScopesPast'
    <3>1. \A d \in cs : d.scope <= curScope
      BY <1>2 DEF Rewrites, BaselineInvariant, ScopesPast
    <3> QED
      BY <1>2, <1>4, <1>6, <1>7, <3>1 DEF BaselineInvariant, ScopesPast
  <2>5. \A d \in calls' : ~HeldApply(d)'
    BY <1>2, <1>7 DEF NoneHeld, HeldApply, OpenApply
  <2>6. \A d \in calls' : Matches(d)' =>
          /\ d.scope = active'.scope
          /\ d.phase \in ApplyPhases \cup VerifyPhases => d.data = Asked'
          /\ d.phase \in VerifyPhases /\ d.st = "verified" /\ d.scope = curScope'
                => CoreIs(d.data)'
    <3> SUFFICES ASSUME NEW d \in cs, Matches(d)'
                 PROVE  /\ d.scope = active'.scope
                        /\ d.data = Asked'
      BY <1>1, <1>2, <1>3, <1>4, <1>6, <1>7, <2>1 DEF Asked
    <3>1. PICK e \in calls : /\ e.op = d.op /\ e.token = d.token /\ e.phase = d.phase
                             /\ e.data = d.data /\ e.scope = d.scope
      BY <1>2 DEF Rewrites
    <3>2. Matches(e)
      BY <1>2, <1>6, <1>7, <3>1 DEF Matches
    <3>3. e.phase \in VerifyPhases
      BY <1>1, <1>2, <3>2 DEF Matches
    <3> QED
      BY <1>6, <1>7, <2>1, <3>1, <3>2, <3>3 DEF BaselineInvariant
  <2>7. \A s \in seeds' : s.epoch <= stateEpoch'
    <3>1. stateEpoch \in Nat /\ \A s \in seeds : s.epoch \in Nat /\ s.epoch <= stateEpoch
      BY DEF TypeOK, Seed, BaselineInvariant
    <3> QED
      BY <1>2, <1>7, <3>1
  <2>8. active'.previous = confirmed' /\ (confirmed'.id # 0 => confirmed'.scope = active'.scope)
    BY <1>2, <1>4, <1>6, <1>7 DEF BaselineInvariant
  <2> QED
    BY <2>1, <2>3, <2>4, <2>5, <2>6, <2>7, <2>8 DEF BaselineInvariant
<1>8. CASE /\ c.st = "verified" /\ calls' = cs
           /\ Finish(Settled, "rolledBack", active.previous, FALSE, {},
                     {active.candidate.id})
  <2>1. /\ active' = NoOperation /\ stateEpoch' = stateEpoch + 1
        /\ confirmed' = active.previous
    BY <1>8 DEF Finish
  <2> QED
    BY <1>2, <1>3, <1>4, <1>8, <2>1, BaselineEnds
<1>9. CASE MarkUnknown(Settled) /\ calls' = cs
  BY <1>2, <1>9, BaselineUnknown
<1> QED
  BY <1>5, <1>7, <1>8, <1>9

LEMMA BaselineTimeout ==
    ASSUME TypeOK, TypeOK', Safe, Safe', BaselineInvariant, Timeout
    PROVE  BaselineInvariant'
<1>1. Busy /\ hook' = 0 /\ UNCHANGED <<seeds, curScope, core, orphans, adrift>> /\ Rewrites(calls)
  BY SameRewrites DEF Timeout, MainTurn
<1>2. \/ EndForStaleScope(active) /\ UNCHANGED calls
      \/ /\ active.phase \in {"preparing", "validating", "retryValidating"}
         /\ \/ Reject(active)
            \/ \E keep \in BOOLEAN : FinishRetryValidation(active, keep)
            \/ \E result, retain, remove :
                  Finish(active, result, confirmed, uncertain, retain, remove)
         /\ UNCHANGED calls
      \/ MarkUnknown(active) /\ UNCHANGED calls
      \/ /\ TRUE \in Current(active.scope) /\ active.phase = "verifying"
         /\ RollbackOrUnknown(active, calls)
  BY DEF Timeout
<1>3. CASE EndForStaleScope(active) /\ UNCHANGED calls
  BY <1>1, <1>3, BaselineStale
<1>4. CASE /\ active.phase \in {"preparing", "validating", "retryValidating"}
           /\ \/ Reject(active)
              \/ \E keep \in BOOLEAN : FinishRetryValidation(active, keep)
              \/ \E result, retain, remove :
                    Finish(active, result, confirmed, uncertain, retain, remove)
           /\ UNCHANGED calls
  <2>1. NoneHeld(calls) /\ AtBaseline
    <3>1. active.phase \notin ApplyPhases
      BY <1>4 DEF ApplyPhases
    <3> QED
      BY <1>1, <1>4, <3>1, OpenFacts DEF AtBaseline
  <2> QED
    BY <1>1, <1>4, <2>1, BaselineKept
<1>5. CASE MarkUnknown(active) /\ UNCHANGED calls
  BY <1>1, <1>5, BaselineUnknown
<1>6. CASE /\ TRUE \in Current(active.scope) /\ active.phase = "verifying"
           /\ RollbackOrUnknown(active, calls)
  <2>1. active.scope = curScope /\ active.phase \notin ApplyPhases
    BY <1>6 DEF Current, ApplyPhases
  <2> QED
    BY <1>1, <1>6, <2>1, BaselineRollsBackOrUnknown
<1> QED
  BY <1>2, <1>3, <1>4, <1>5, <1>6

LEMMA BaselineRetryHookReturns ==
    ASSUME TypeOK, TypeOK', Safe, Safe', BaselineInvariant,
           NEW cur \in BOOLEAN, RetryHookReturns(cur)
    PROVE  BaselineInvariant'
<1>1. hook # 0 /\ hook' = 0 /\ UNCHANGED <<seeds, curScope, core, orphans, adrift>> /\ Rewrites(calls)
      /\ cur \in Current(active.scope)
  BY SameRewrites DEF RetryHookReturns
<1>2. CASE active.op # hook
  <2>1. UNCHANGED <<active, confirmed, uncertain, stateEpoch, calls>>
    BY <1>2 DEF RetryHookReturns, ctl
  <2>2. AtBaseline' => AtBaseline
    BY <1>1, <2>1 DEF AtBaseline, Busy
  <2> QED
    BY <1>1, <2>1, <2>2 DEF BaselineInvariant, ScopesPast, OneApplyInFlight, HeldApply, OpenApply,
       CoreIs, Matches, Busy, Asked
<1>3. CASE active.op = hook
  <2>1. Busy /\ active.phase = "rollbackVerifying" /\ active \in OwnOperation
        /\ active.candidate \in Receipt /\ active.candidate.scope <= curScope
    <3>1. Busy
      BY <1>1, <1>3 DEF Busy
    <3> QED
      BY <1>1, <1>3, <3>1, OwnTypes, ActiveFacts
         DEF Safe, OperationConsistent, BaselineInvariant, ScopesPast
  <2>2. NoneHeld(calls) /\ AtBaseline /\ "retryValidating" \in Phases \ {"preparing"}
    <3>1. active.phase \notin ApplyPhases
      BY <2>1 DEF ApplyPhases
    <3> QED
      BY <1>3, <2>1, <3>1, OpenFacts DEF AtBaseline, Phases
  <2>3. \/ EndForStaleScope(active) /\ UNCHANGED calls
        \/ cur /\ Proceed(active, "retryValidating", active.candidate, calls)
        \/ MarkUnknown(active) /\ UNCHANGED calls
    BY <1>3 DEF RetryHookReturns
  <2>4. CASE EndForStaleScope(active) /\ UNCHANGED calls
    BY <1>1, <2>1, <2>4, BaselineStale
  <2>5. CASE cur /\ Proceed(active, "retryValidating", active.candidate, calls)
    <3>1. active.scope = curScope
      BY <1>1, <2>5 DEF Current
    <3> QED
      BY <1>1, <2>1, <2>2, <2>5, <3>1, BaselineProceeds
  <2>6. CASE MarkUnknown(active) /\ UNCHANGED calls
    BY <1>1, <2>6, BaselineUnknown
  <2> QED
    BY <2>3, <2>4, <2>5, <2>6
<1> QED
  BY <1>2, <1>3

\* A request is served, or its record written, while the controller stands still:
\* what it knew of the core holds on, and no apply it answers for is added.
LEMMA BaselineRewritten ==
    ASSUME TypeOK, TypeOK', Safe', BaselineInvariant,
           NEW STATE cs, calls' = cs, Rewrites(cs),
           UNCHANGED <<active, confirmed, uncertain, stateEpoch, seeds, hook, curScope>>,
           \A d : CoreIs(d) => CoreIs(d)',
           \A d \in cs : OpenApply(d) /\ d.token \in orphans => d.token \in orphans',
           \A d \in cs : d.phase \in VerifyPhases /\ d.st = "verified" /\ ~CoreIs(d.data)' =>
              \E e \in calls : /\ e.op = d.op /\ e.token = d.token /\ e.phase = d.phase
                               /\ e.data = d.data /\ e.scope = d.scope /\ e.st = d.st
    PROVE  BaselineInvariant'
<1>1. \A d, e \in cs : d.token = e.token => d = e
  BY DEF Safe, IdsAllocated
<1>0. \A d : OpenApply(d)' = OpenApply(d)
  BY DEF OpenApply
<1>2. OneApplyInFlight'
  <2>1. \A c, d \in cs :
            OpenApply(c) /\ OpenApply(d) /\ c.token < d.token => c.token \in orphans
    BY <1>1, OneApplyRewritten DEF BaselineInvariant
  <2> QED
    BY <1>0, <2>1 DEF OneApplyInFlight
<1>3. ScopesPast'
  <2>1. \A d \in cs : d.scope <= curScope
    BY DEF Rewrites, BaselineInvariant, ScopesPast
  <2> QED
    BY <2>1 DEF BaselineInvariant, ScopesPast
<1>4. /\ Busy' = Busy /\ Asked' = Asked /\ AtBaseline' = AtBaseline
  BY DEF Busy, Asked, AtBaseline
<1>5. \A d \in calls' : HeldApply(d)' => uncertain' \/ Matches(d)'
  <2> SUFFICES ASSUME NEW d \in cs, OpenApply(d), d.token \notin orphans'
               PROVE  uncertain \/ Matches(d)'
    BY <1>0 DEF HeldApply
  <2>1. d.token \notin orphans
    OBVIOUS
  <2>2. PICK e \in calls : /\ e.op = d.op /\ e.token = d.token /\ e.phase = d.phase
                           /\ e.scope = d.scope
                           /\ e.st = d.st \/ e.st = "sent"
    BY DEF Rewrites
  <2>3. HeldApply(e)
    BY <2>1, <2>2 DEF HeldApply, OpenApply
  <2> QED
    BY <2>2, <2>3 DEF BaselineInvariant, Matches, Busy
<1>6. \A d \in calls' : Matches(d)' =>
        /\ d.scope = active'.scope
        /\ d.phase \in ApplyPhases \cup VerifyPhases => d.data = Asked'
  <2> SUFFICES ASSUME NEW d \in cs, Matches(d)'
               PROVE  /\ d.scope = active.scope
                      /\ d.phase \in ApplyPhases \cup VerifyPhases => d.data = Asked
    BY <1>4
  <2>1. PICK e \in calls : /\ e.op = d.op /\ e.token = d.token /\ e.phase = d.phase
                           /\ e.data = d.data /\ e.scope = d.scope
    BY DEF Rewrites
  <2>2. Matches(e)
    BY <2>1 DEF Matches, Busy
  <2> QED
    BY <2>1, <2>2 DEF BaselineInvariant
<1>7. ASSUME NEW d \in calls', Matches(d)', d.phase \in VerifyPhases, d.st = "verified",
             d.scope = curScope'
      PROVE  CoreIs(d.data)'
  <2> SUFFICES ASSUME ~CoreIs(d.data)' PROVE FALSE
    OBVIOUS
  <2>1. PICK e \in calls : /\ e.op = d.op /\ e.token = d.token /\ e.phase = d.phase
                           /\ e.data = d.data /\ e.scope = d.scope /\ e.st = d.st
    BY <1>7
  <2>2. Matches(e)
    BY <1>7, <2>1 DEF Matches, Busy
  <2>3. CoreIs(e.data)
    BY <1>7, <2>1, <2>2 DEF BaselineInvariant
  <2> QED
    BY <2>1, <2>3
<1>8. ~uncertain' /\ AtBaseline' /\ confirmed'.id # 0 /\ confirmed'.scope = curScope'
        => CoreIs(confirmed.data)'
  <2>1. CoreIs(confirmed.data) => CoreIs(confirmed.data)'
    <3> DEFINE f == confirmed.data
    <3>1. CoreIs(f) => (core' = f \/ adrift')
      BY DEF CoreIs
    <3> QED
      BY <3>1 DEF CoreIs
  <2> QED
    BY <1>4, <2>1 DEF BaselineInvariant
<1>9. \A s \in seeds' :
        /\ s.epoch <= stateEpoch'
        /\ s.epoch = stateEpoch' /\ ~Busy' =>
              ~uncertain' /\ (s.scope = curScope' => CoreIs(s.data)')
  BY <1>4 DEF BaselineInvariant
<1> QED
  BY <1>2, <1>3, <1>4, <1>5, <1>6, <1>7, <1>8, <1>9 DEF BaselineInvariant

LEMMA BaselineServeVerify ==
    ASSUME TypeOK, TypeOK', Safe', BaselineInvariant, NEW c \in calls, ServeVerify(c)
    PROVE  BaselineInvariant'
<1> DEFINE x == [c EXCEPT !.st = "verified"]
           cs == (calls \ {c}) \cup {x}
<1>1. /\ c.st = "sent" /\ core = c.data /\ calls' = cs /\ c \in Call
      /\ UNCHANGED <<active, confirmed, uncertain, stateEpoch, seeds, hook, curScope, core,
                     orphans, adrift>>
  BY DEF ServeVerify, Serve, ctl, TypeOK
<1>2. Rewrites(cs)
  BY <1>1, ServeRewrites DEF Serve
<1>3. x.data = core
  BY <1>1 DEF Call
<1> HIDE DEF x
<1>4. /\ \A d \in cs : ~CoreIs(d.data)' => d \in calls
      /\ \A d : CoreIs(d) => CoreIs(d)'
  BY <1>1, <1>3 DEF CoreIs
<1> HIDE DEF cs
<1> QED
  BY <1>1, <1>2, <1>4, BaselineRewritten

\* The file queue, or a hop that drops a file nobody waits for any more.
LEMMA BaselineFileJob ==
    ASSUME TypeOK, TypeOK', Safe', BaselineInvariant, NEW c \in calls,
           DiscardLateSnapshot(c) \/ \E ok \in BOOLEAN : WriteSnapshot(c, ok)
    PROVE  BaselineInvariant'
<1>1. /\ c.phase = "preparing" /\ c \in Call /\ calls \subseteq Call
      /\ UNCHANGED <<active, confirmed, uncertain, stateEpoch, seeds, hook, curScope, core,
                     orphans, adrift>>
  BY DEF DiscardLateSnapshot, WriteSnapshot, MainTurn, TypeOK
<1>0. \A d : CoreIs(d) => CoreIs(d)'
  BY <1>1 DEF CoreIs
<1>2. "preparing" \notin VerifyPhases
  BY DEF VerifyPhases
<1>3. CASE DiscardLateSnapshot(c)
  <2> DEFINE cs == Answer(c)
  <2>1. calls' = cs /\ Rewrites(cs)
    BY <1>3, AnswerRewrites DEF DiscardLateSnapshot
  <2>2. \A d \in cs : d \in calls \/ d.phase = "preparing"
    BY <1>1 DEF Answer, Call
  <2> HIDE DEF cs
  <2> QED
    BY <1>0, <1>1, <1>2, <2>1, <2>2, BaselineRewritten
<1>4. ASSUME NEW ok \in BOOLEAN, WriteSnapshot(c, ok) PROVE BaselineInvariant'
  <2> DEFINE st == IF ok THEN "written" ELSE "failed"
             cs == Serve(c, st)
  <2>1. c.st = "sent" /\ calls' = cs
    BY <1>4 DEF WriteSnapshot
  <2>2. st \in {"written", "failed", "accepted", "rejected", "verified"}
    OBVIOUS
  <2> HIDE DEF st
  <2>3. Rewrites(cs)
    BY <2>1, <2>2, ServeRewrites
  <2>4. \A d \in cs : d \in calls \/ d.phase = "preparing"
    BY <1>1 DEF Serve, Call
  <2> HIDE DEF cs
  <2> QED
    BY <1>0, <1>1, <1>2, <2>1, <2>3, <2>4, BaselineRewritten
<1> QED
  BY <1>3, <1>4

\* The core decides an apply that was open: an orphan, or a held one, which then is
\* the running operation's request or left the controller uncertain.
LEMMA BaselineServeApply ==
    ASSUME TypeOK, TypeOK', Safe, Safe', BaselineInvariant, NEW c \in calls,
           NEW st \in {"accepted", "rejected"},
           NEW after \in {core, Mixed, c.data}, ServeApply(c, st, after)
    PROVE  BaselineInvariant'
<1> DEFINE x == [c EXCEPT !.st = st]
           cs == (calls \ {c}) \cup {x}
<1>1. /\ c.st = "sent" /\ OpenApply(c) /\ calls' = cs /\ c \in Call
      /\ UNCHANGED <<active, confirmed, uncertain, stateEpoch, seeds, hook, curScope>>
      /\ core' = after /\ orphans' = orphans \ {c.token}
      /\ adrift' = IF st = "rejected" /\ after = core THEN adrift ELSE c.token \in orphans
  BY DEF ServeApply, Serve, OpenApply, ctl, TypeOK
<1>2. Rewrites(cs) /\ x.st \notin {"sent", "verified"} /\ x.token = c.token
  BY <1>1, ServeRewrites DEF Serve, Call
<1> HIDE DEF x
<1>3. \A d \in cs : d.st \in {"sent", "verified"} => d \in calls /\ d # c
  BY <1>2
<1>4. \A d, e \in cs : d.token = e.token => d = e
  BY <1>1 DEF Safe, IdsAllocated
<1>5. \A d \in cs : OpenApply(d) /\ d.token \in orphans => d.token \in orphans'
  <2>1. \A d \in cs : OpenApply(d) => d # x
    BY <1>2 DEF OpenApply
  <2>2. \A d \in cs : OpenApply(d) => d.token # c.token
    BY <1>2, <1>4, <2>1
  <2> QED
    BY <1>1, <2>2
<1> HIDE DEF cs
<1>6. CASE \A d : CoreIs(d) => CoreIs(d)'
  BY <1>1, <1>2, <1>3, <1>5, <1>6, BaselineRewritten
<1>7. CASE c.token \notin orphans
  <2>1. uncertain \/ (Busy /\ active.phase \in ApplyPhases /\ Matches(c))
    BY <1>1, <1>7 DEF BaselineInvariant, HeldApply, OpenApply, Matches
  <2>2. uncertain \/ (Busy /\ ~AtBaseline)
    <3>1. active.phase \in ApplyPhases =>
            active.phase \notin {"preparing", "validating", "retryValidating", "rollbackVerifying"}
      BY DEF ApplyPhases
    <3> QED
      BY <2>1, <3>1 DEF AtBaseline, Safe, OperationConsistent, Busy
  <2>3. \A d : OpenApply(d)' = OpenApply(d)
    BY <1>1 DEF OpenApply
  <2>4. OneApplyInFlight'
    BY <1>1, <1>2, <1>4, <1>5, <2>3, OneApplyRewritten DEF BaselineInvariant, OneApplyInFlight
  <2>5. ScopesPast'
    <3>1. \A d \in cs : d.scope <= curScope
      BY <1>2 DEF Rewrites, BaselineInvariant, ScopesPast
    <3> QED
      BY <1>1, <3>1 DEF BaselineInvariant, ScopesPast
  <2>6. Busy' = Busy /\ Asked' = Asked /\ AtBaseline' = AtBaseline
    BY <1>1 DEF Busy, Asked, AtBaseline
  <2>7. \A d \in calls' : HeldApply(d)' => uncertain' \/ Matches(d)'
    <3> SUFFICES ASSUME NEW d \in cs, OpenApply(d), d.token \notin orphans
                 PROVE  uncertain \/ Matches(d)'
      BY <1>1, <1>5, <2>3 DEF HeldApply
    <3>1. d \in calls /\ HeldApply(d)
      BY <1>3 DEF HeldApply, OpenApply
    <3> QED
      BY <1>1, <3>1 DEF BaselineInvariant, Matches, Busy
  <2>8. \A d \in calls' : Matches(d)' =>
          /\ d.scope = active'.scope
          /\ d.phase \in ApplyPhases \cup VerifyPhases => d.data = Asked'
          /\ d.phase \notin VerifyPhases
    <3> SUFFICES ASSUME NEW d \in cs, Matches(d)'
                 PROVE  /\ d.scope = active.scope
                        /\ d.phase \in ApplyPhases \cup VerifyPhases => d.data = Asked
                        /\ d.phase \notin VerifyPhases
      BY <1>1, <2>6
    <3>1. PICK e \in calls : /\ e.op = d.op /\ e.token = d.token /\ e.phase = d.phase
                             /\ e.data = d.data /\ e.scope = d.scope
      BY <1>2 DEF Rewrites
    <3>2. Matches(e) /\ active.phase \in ApplyPhases
      BY <1>1, <2>1, <3>1, OpenFacts DEF Matches, Busy
    <3>3. e.phase \notin VerifyPhases
      BY <3>2 DEF Matches, ApplyPhases, VerifyPhases
    <3> QED
      BY <3>1, <3>2, <3>3 DEF BaselineInvariant
  <2>9. \A s \in seeds' : s.epoch = stateEpoch' => Busy'
    BY <1>1, <2>1, <2>6 DEF BaselineInvariant
  <2> QED
    BY <1>1, <2>2, <2>4, <2>5, <2>6, <2>7, <2>8, <2>9 DEF BaselineInvariant
<1>8. c.token \in orphans \/ (st = "rejected" /\ after = core)
        => \A d : CoreIs(d) => CoreIs(d)'
  BY <1>1 DEF CoreIs
<1> QED
  BY <1>6, <1>7, <1>8

LEMMA BaselineSubmitRefused ==
    ASSUME TypeOK, TypeOK', Safe, BaselineInvariant, SubmitRefused
    PROVE  BaselineInvariant'
<1>1. /\ UNCHANGED <<active, uncertain, calls, seeds, hook, curScope, core, orphans, adrift>>
      /\ UNCHANGED <<confirmed, stateEpoch>>
         \/ (~Busy /\ confirmed' = NoReceipt /\ stateEpoch' \in {stateEpoch, stateEpoch + 1})
  BY DEF SubmitRefused, MaySubmit
<1>2. /\ Busy' = Busy /\ Asked' = Asked /\ AtBaseline' = AtBaseline /\ OneApplyInFlight'
      /\ \A c \in calls : Matches(c)' = Matches(c) /\ HeldApply(c)' = HeldApply(c)
      /\ \A d : CoreIs(d)' = CoreIs(d)
  BY <1>1 DEF Busy, Asked, AtBaseline, Matches, HeldApply, OpenApply,
     CoreIs, BaselineInvariant, OneApplyInFlight
<1>3. \A s \in seeds : /\ s.epoch <= stateEpoch'
                       /\ s.epoch = stateEpoch' => s.epoch = stateEpoch
  <2>1. stateEpoch \in Nat /\ \A s \in seeds : s.epoch \in Nat /\ s.epoch <= stateEpoch
    BY DEF TypeOK, Seed, BaselineInvariant
  <2> QED
    BY <1>1, <2>1
<1>4. confirmed'.scope <= curScope
  BY <1>1 DEF BaselineInvariant, ScopesPast, NoReceipt, TypeOK
<1>5. ScopesPast'
  BY <1>1, <1>4 DEF BaselineInvariant, ScopesPast
<1>6. confirmed' = confirmed \/ (~Busy /\ confirmed'.id = 0)
  BY <1>1 DEF NoReceipt
<1> QED
  BY <1>1, <1>2, <1>3, <1>5, <1>6 DEF BaselineInvariant

LEMMA BaselineSubmit ==
    ASSUME TypeOK, TypeOK', Safe, Safe', BaselineInvariant,
           NEW s \in 1..MaxScopes, NEW retry \in BOOLEAN, Submit(s, retry)
    PROVE  BaselineInvariant'
<1> DEFINE o == Submitted(s, retry)
           r == [id |-> snapshots + 1, scope |-> s, data |-> snapshots + 1]
           n == [op |-> o.op, token |-> tokens + 1, phase |-> "preparing", file |-> r.id,
                 data |-> r.data, scope |-> o.scope, answered |-> FALSE, st |-> "sent"]
           b == "preparing" # "preparing"
           prev == IF confirmed.scope = s THEN confirmed ELSE NoReceipt
<1>1. /\ active' = [o EXCEPT !.phase = "preparing", !.token = tokens + 1, !.fileMayBeInUse = b]
      /\ calls' = calls \cup {n} /\ confirmed' = prev /\ stateEpoch' = stateEpoch + 1
      /\ UNCHANGED <<seeds, uncertain, hook, curScope, core, orphans, adrift>>
      /\ ~Busy /\ ~uncertain /\ s = curScope
  BY DEF Submit, BeginPhase, MaySubmit, Current
<1>2. /\ active'.op = ops + 1 /\ active'.phase = "preparing" /\ active'.token = tokens + 1
      /\ active'.scope = s /\ active'.previous = prev /\ active'.candidate = NoReceipt
  BY <1>1 DEF Submitted, NoOperation
<1>3. n.op = ops + 1 /\ n.phase = "preparing" /\ n.scope = s
  BY DEF Submitted, NoOperation
<1> HIDE DEF n, o, r, b
<1>4. NoneHeld(calls)
  BY <1>1, OpenFacts
<1>5. Busy'
  BY <1>2, BoundsAssumption DEF Busy, TypeOK
<1>6. \A c \in calls : ~Matches(c)'
  <2>1. tokens \in Nat /\ \A c \in calls : c.token \in Nat /\ c.token <= tokens
    BY DEF TypeOK, Call, Safe, IdsAllocated
  <2> QED
    BY <1>2, <2>1 DEF Matches
<1>7. ScopesPast'
  <2>1. prev.scope <= curScope /\ NoReceipt.scope <= curScope
    BY DEF BaselineInvariant, ScopesPast, NoReceipt, TypeOK
  <2>2. s <= curScope
    BY <1>1 DEF TypeOK
  <2>3. \A c \in calls' : c.scope <= curScope
    BY <1>1, <1>3, <2>2 DEF BaselineInvariant, ScopesPast
  <2> QED
    BY <1>1, <1>2, <2>1, <2>2, <2>3 DEF BaselineInvariant, ScopesPast
<1>8. "preparing" \notin ApplyPhases \cup VerifyPhases
  BY DEF ApplyPhases, VerifyPhases
<1>9. OneApplyInFlight'
  BY <1>1, <1>3, <1>8 DEF BaselineInvariant, OneApplyInFlight, OpenApply
<1>10. \A c \in calls' : ~HeldApply(c)'
  BY <1>1, <1>3, <1>4, <1>8 DEF NoneHeld, HeldApply, OpenApply
<1>11. prev.id # 0 => prev = confirmed /\ prev.scope = s /\ (prev.scope = curScope => CoreIs(prev.data))
  BY <1>1 DEF NoReceipt, BaselineInvariant, AtBaseline
<1>12. \A q \in seeds' : q.epoch <= stateEpoch'
  <2>1. stateEpoch \in Nat /\ \A q \in seeds : q.epoch \in Nat /\ q.epoch <= stateEpoch
    BY DEF TypeOK, Seed, BaselineInvariant
  <2> QED
    BY <1>1, <2>1
<1> HIDE DEF prev
<1>13. \A c \in calls' : Matches(c)' => c.scope = active'.scope /\ c.phase = "preparing"
  BY <1>1, <1>2, <1>3, <1>6
<1> QED
  BY <1>1, <1>2, <1>5, <1>7, <1>8, <1>9, <1>10, <1>11, <1>12, <1>13 DEF BaselineInvariant, CoreIs

\* Seeds are written and settled.
LEMMA BaselineSeeds ==
    ASSUME TypeOK, TypeOK', Safe, BaselineInvariant,
           \/ BeginSeed
           \/ \E s \in seeds, ok \in BOOLEAN : WriteSeed(s, ok) \/ SettleSeed(s, ok)
    PROVE  BaselineInvariant'
<1>1. /\ UNCHANGED <<active, calls, hook, curScope, core, orphans, adrift>>
      /\ stateEpoch \in Nat /\ curScope \in Nat /\ seeds \subseteq Seed
      /\ \A s \in seeds : s.epoch \in Nat /\ s.scope \in Nat
  <2>1. UNCHANGED <<active, calls, hook, curScope, core, orphans, adrift>>
    BY DEF BeginSeed, WriteSeed, SettleSeed
  <2>2. stateEpoch \in Nat /\ curScope \in Nat /\ seeds \subseteq Seed
    BY BoundsAssumption DEF TypeOK
  <2>3. \A s \in seeds : s.epoch \in Nat /\ s.scope \in Nat
    BY <2>2 DEF Seed
  <2> QED
    BY <2>1, <2>2, <2>3
<1>2. /\ Busy' = Busy /\ Asked' = Asked /\ AtBaseline' = AtBaseline /\ OneApplyInFlight'
      /\ \A c \in calls : Matches(c)' = Matches(c) /\ HeldApply(c)' = HeldApply(c)
      /\ \A d : CoreIs(d)' = CoreIs(d)
  BY <1>1 DEF Busy, Asked, AtBaseline, Matches, HeldApply, OpenApply,
     CoreIs, BaselineInvariant, OneApplyInFlight
<1>3. CASE BeginSeed
  <2> DEFINE q == [id |-> snapshots + 1, scope |-> curScope, data |-> core,
                   epoch |-> stateEpoch + 1, st |-> "writing"]
  <2>1. /\ ~uncertain /\ seeds' = seeds \cup {q} /\ stateEpoch' = stateEpoch + 1
        /\ UNCHANGED <<confirmed, uncertain>>
    BY <1>3 DEF BeginSeed
  <2>2. q.scope = curScope /\ q.data = core /\ q.epoch = stateEpoch + 1
    OBVIOUS
  <2> HIDE DEF q
  <2>3. ScopesPast'
    BY <1>1, <2>1, <2>2 DEF BaselineInvariant, ScopesPast
  <2>4. \A s \in seeds' : /\ s.epoch <= stateEpoch'
                          /\ s.epoch = stateEpoch' => s = q
    BY <1>1, <2>1, <2>2 DEF BaselineInvariant
  <2> QED
    BY <1>1, <1>2, <2>1, <2>2, <2>3, <2>4 DEF BaselineInvariant, CoreIs
<1>4. ASSUME NEW s \in seeds, NEW ok \in BOOLEAN, WriteSeed(s, ok) PROVE BaselineInvariant'
  <2> DEFINE st == IF ok THEN "written" ELSE "failed"
             q == [s EXCEPT !.st = st]
  <2>1. seeds' = (seeds \ {s}) \cup {q} /\ UNCHANGED <<confirmed, uncertain, stateEpoch>>
    BY <1>4 DEF WriteSeed
  <2> HIDE DEF st
  <2>2. s \in Seed
    BY <1>1
  <2>3. q.scope = s.scope /\ q.data = s.data /\ q.epoch = s.epoch
    BY <2>2 DEF Seed
  <2> HIDE DEF q
  <2>4. ScopesPast'
    BY <1>1, <2>1, <2>3 DEF BaselineInvariant, ScopesPast
  <2>5. \A t \in seeds' : \E u \in seeds :
           t.scope = u.scope /\ t.data = u.data /\ t.epoch = u.epoch
    BY <2>1, <2>3
  <2> QED
    BY <1>1, <1>2, <2>1, <2>4, <2>5 DEF BaselineInvariant
<1>5. ASSUME NEW s \in seeds, NEW ok \in BOOLEAN, SettleSeed(s, ok) PROVE BaselineInvariant'
  <2> DEFINE conf == [id |-> s.id, scope |-> s.scope, data |-> s.data]
  <2>1. seeds' = seeds \ {s}
    BY <1>5 DEF SettleSeed
  <2>2. CASE UNCHANGED <<confirmed, uncertain, stateEpoch>>
    <3>1. ScopesPast'
      BY <1>1, <2>1, <2>2 DEF BaselineInvariant, ScopesPast
    <3> QED
      BY <1>1, <1>2, <2>1, <2>2, <3>1 DEF BaselineInvariant
  <2>3. CASE /\ SeedIsFresh(s) /\ confirmed' = conf /\ uncertain' = FALSE
             /\ stateEpoch' = stateEpoch + 1
    <3>1. ~Busy /\ ~uncertain /\ (s.scope = curScope => CoreIs(s.data))
      BY <2>3 DEF SeedIsFresh, BaselineInvariant
    <3>2. confirmed'.scope = s.scope /\ confirmed'.data = s.data
      BY <2>3
    <3> HIDE DEF conf
    <3>3. ScopesPast'
      BY <1>1, <2>1, <3>2 DEF BaselineInvariant, ScopesPast
    <3>4. NoneHeld(calls)
      BY <3>1, OpenFacts
    <3>5. \A t \in seeds' : t.epoch <= stateEpoch' /\ t.epoch # stateEpoch'
      BY <1>1, <2>1, <2>3 DEF BaselineInvariant
    <3> QED
      BY <1>1, <1>2, <3>1, <3>2, <3>3, <3>4, <3>5 DEF BaselineInvariant, NoneHeld, Matches
  <2> QED
    BY <1>5, <2>2, <2>3 DEF SettleSeed
<1> QED
  BY <1>3, <1>4, <1>5

\* A reset in a live session leaves no held apply: the open ones are orphans.
LEMMA BaselineReset ==
    ASSUME TypeOK, TypeOK', BaselineInvariant, AdoptConfirmed \/ Invalidate
    PROVE  BaselineInvariant'
<1>1. /\ active' = NoOperation /\ stateEpoch' = stateEpoch + 1
      /\ UNCHANGED <<calls, seeds, curScope, core>>
      /\ orphans' = orphans \cup {c.token : c \in {d \in calls : OpenApply(d)}}
  BY DEF AdoptConfirmed, Invalidate, InvalidateState, Detach, OrphanApplies
<1>2. \/ confirmed' = NoReceipt
      \/ confirmed' = [id |-> snapshots + 1, scope |-> curScope, data |-> core]
  BY DEF AdoptConfirmed, Invalidate, InvalidateState
<1>3. /\ confirmed'.scope <= curScope
      /\ confirmed'.id # 0 => CoreIs(confirmed.data)'
  <2>1. curScope \in Nat /\ NoReceipt.scope = 0 /\ NoReceipt.id = 0
    BY BoundsAssumption DEF TypeOK, NoReceipt
  <2> QED
    BY <1>1, <1>2, <2>1 DEF CoreIs
<1>4. ~Busy' /\ \A c : ~Matches(c)'
  BY <1>1 DEF Busy, Matches, NoOperation
<1>5. \A c \in calls : OpenApply(c)' => c.token \in orphans'
  BY <1>1 DEF OpenApply
<1>6. OneApplyInFlight' /\ \A c \in calls' : ~HeldApply(c)'
  BY <1>1, <1>5 DEF OneApplyInFlight, HeldApply
<1>7. ScopesPast'
  BY <1>1, <1>3 DEF BaselineInvariant, ScopesPast, NoOperation, NoReceipt, TypeOK
<1>8. \A s \in seeds' : s.epoch <= stateEpoch' /\ s.epoch # stateEpoch'
  <2>1. stateEpoch \in Nat /\ \A s \in seeds : s.epoch \in Nat /\ s.epoch <= stateEpoch
    BY DEF TypeOK, Seed, BaselineInvariant
  <2> QED
    BY <1>1, <2>1
<1> QED
  BY <1>3, <1>4, <1>6, <1>7, <1>8 DEF BaselineInvariant

\* Another core session: what was known of the old one no longer counts.
LEMMA BaselineNewCore ==
    ASSUME TypeOK, TypeOK', Safe, BaselineInvariant, ReplaceCore \/ RestartCore
    PROVE  BaselineInvariant'
<1>1. /\ curScope' = curScope + 1 /\ UNCHANGED <<calls, seeds, hook>>
      /\ curScope \in Nat /\ stateEpoch \in Nat
      /\ \A c \in calls : c.scope \in Nat /\ c.scope <= curScope
      /\ \A s \in seeds : s.scope \in Nat /\ s.scope <= curScope
                          /\ s.epoch \in Nat /\ s.epoch <= stateEpoch
      /\ confirmed.scope \in Nat /\ active.scope \in Nat /\ active.candidate.scope \in Nat
  <2>1. curScope' = curScope + 1 /\ UNCHANGED <<calls, seeds, hook>>
    BY DEF ReplaceCore, RestartCore, NewCore, InvalidateState
  <2>2. /\ curScope \in Nat /\ stateEpoch \in Nat /\ calls \subseteq Call /\ seeds \subseteq Seed
        /\ confirmed \in Receipt /\ active \in Operation
    BY BoundsAssumption DEF TypeOK
  <2>3. /\ \A c \in calls : c.scope \in Nat
        /\ \A s \in seeds : s.scope \in Nat /\ s.epoch \in Nat
    BY <2>2 DEF Call, Seed
  <2>4. active.scope \in Nat /\ active.candidate \in Receipt
    BY <2>2 DEF Operation
  <2>5. confirmed.scope \in Nat /\ active.candidate.scope \in Nat
    BY <2>2, <2>4 DEF Receipt
  <2>6. /\ \A c \in calls : c.scope <= curScope
        /\ \A s \in seeds : s.scope <= curScope /\ s.epoch <= stateEpoch
    BY DEF BaselineInvariant, ScopesPast
  <2> QED
    BY <2>1, <2>2, <2>3, <2>4, <2>5, <2>6
<1>2. /\ \A c \in calls : c.scope # curScope' /\ c.scope <= curScope'
      /\ \A s \in seeds : s.scope # curScope' /\ s.scope <= curScope'
  BY <1>1
<1>3. OneApplyInFlight' /\ \A c \in calls' : ~HeldApply(c)'
  BY <1>1, <1>2 DEF BaselineInvariant, OneApplyInFlight, HeldApply, OpenApply
<1>4. CASE ReplaceCore
  <2>1. UNCHANGED <<active, confirmed, uncertain, stateEpoch>>
    BY <1>4 DEF ReplaceCore, ctl
  <2>2. ScopesPast'
    BY <1>1, <1>2, <2>1 DEF BaselineInvariant, ScopesPast
  <2>3. confirmed'.scope # curScope'
    BY <1>1, <2>1 DEF BaselineInvariant, ScopesPast
  <2>4. Busy' = Busy /\ Asked' = Asked /\ \A c \in calls : Matches(c)' = Matches(c)
    BY <2>1 DEF Busy, Asked, Matches
  <2> QED
    BY <1>1, <1>2, <1>3, <2>1, <2>2, <2>3, <2>4 DEF BaselineInvariant
<1>5. CASE RestartCore
  <2>1. /\ active' = NoOperation /\ confirmed' = NoReceipt /\ stateEpoch' = stateEpoch + 1
    BY <1>5 DEF RestartCore, InvalidateState, Detach
  <2>2. ~Busy' /\ confirmed'.id = 0 /\ \A c : ~Matches(c)'
    BY <2>1 DEF Busy, NoOperation, NoReceipt, Matches
  <2>3. ScopesPast'
    BY <1>1, <1>2, <2>1 DEF ScopesPast, NoOperation, NoReceipt
  <2>4. \A s \in seeds' : s.epoch <= stateEpoch' /\ s.epoch # stateEpoch'
    BY <1>1, <2>1
  <2> QED
    BY <1>3, <2>2, <2>3, <2>4 DEF BaselineInvariant
<1> QED
  BY <1>4, <1>5

LEMMA BaselineStep ==
    TypeOK /\ Safe /\ BaselineInvariant /\ [Next]_vars => BaselineInvariant'
<1> SUFFICES ASSUME TypeOK, Safe, BaselineInvariant, [Next]_vars PROVE BaselineInvariant'
  OBVIOUS
<1>0. TypeOK' /\ Safe'
  BY TypeStep, SafeStep
<1>1. CASE SubmitRefused
  BY <1>0, <1>1, BaselineSubmitRefused
<1>2. ASSUME NEW s \in 1..MaxScopes, NEW retry \in BOOLEAN, Submit(s, retry)
      PROVE BaselineInvariant'
  BY <1>0, <1>2, BaselineSubmit
<1>3. ASSUME NEW c \in calls, NEW ok \in BOOLEAN,
             \/ SnapshotWritten(c, ok) \/ ValidationReply(c, ok)
             \/ VerifyReply(c, ok) \/ RollbackVerifyReply(c, ok)
      PROVE BaselineInvariant'
  BY <1>0, <1>3, BaselineSnapshotWritten, BaselineValidationReply, BaselineVerifyReply,
     BaselineRollbackVerifyReply
<1>4. ASSUME NEW c \in calls, NEW r \in {"accepted", "rejected", "uncertain"},
             ApplyReply(c, r) \/ RollbackApplyReply(c, r)
      PROVE BaselineInvariant'
  BY <1>0, <1>4, BaselineApplyReply, BaselineRollbackApplyReply
<1>5. ASSUME NEW c \in calls,
             \/ StaleReply(c) \/ DiscardLateSnapshot(c) \/ ServeVerify(c)
             \/ \E ok \in BOOLEAN : WriteSnapshot(c, ok)
      PROVE BaselineInvariant'
  BY <1>0, <1>5, BaselineStaleReply, BaselineFileJob, BaselineServeVerify
<1>6. ASSUME NEW c \in calls, NEW st \in {"accepted", "rejected"},
             NEW after \in {core, Mixed, c.data}, ServeApply(c, st, after)
      PROVE BaselineInvariant'
  BY <1>0, <1>6, BaselineServeApply
<1>7. CASE BeginSeed \/ \E s \in seeds, ok \in BOOLEAN : WriteSeed(s, ok) \/ SettleSeed(s, ok)
  BY <1>0, <1>7, BaselineSeeds
<1>8. CASE HookReturns
  BY <1>0, <1>8, BaselineRetryHookReturns DEF HookReturns
<1>9. CASE Timeout
  BY <1>0, <1>9, BaselineTimeout
<1>10. CASE AdoptConfirmed \/ Invalidate
  BY <1>0, <1>10, BaselineReset
<1>11. CASE ReplaceCore \/ RestartCore
  BY <1>0, <1>11, BaselineNewCore
<1>12. CASE UNCHANGED vars
  BY <1>12 DEF vars, BaselineInvariant, ScopesPast, OneApplyInFlight, HeldApply, OpenApply,
     CoreIs, Matches, Busy, Asked, AtBaseline
<1> QED
  BY <1>1, <1>2, <1>3, <1>4, <1>5, <1>6, <1>7, <1>8, <1>9, <1>10, <1>11, <1>12, Zenon DEF Next

\* Whatever adopts, invalidates or restarts, the controller's account of the open
\* applies and of the core slips by an apply it was reset over, and by nothing else.
THEOREM BaselineCorrect == Spec => []BaselineInvariant
<1>1. Init => BaselineInvariant
  BY DEF Init, BaselineInvariant, ScopesPast, OneApplyInFlight, Busy, NoOperation, NoReceipt, OpenApply
<1>2. TypeOK /\ Safe /\ BaselineInvariant /\ [Next]_vars => BaselineInvariant'
  BY BaselineStep
<1>3. Init => Safe
  BY SafeInit
<1>4. TypeOK /\ Safe /\ [Next]_vars => Safe'
  BY SafeStep
<1> QED
  BY <1>1, <1>2, <1>3, <1>4, TypeCorrect, PTL DEF Spec

\* Neither a rollback, nor a retry, nor the next transaction overlaps an apply
\* whose fate is open, unless the controller was reset over that apply.
THEOREM OneApplyInFlightCorrect == Spec => []OneApplyInFlight
<1>1. BaselineInvariant => OneApplyInFlight
  BY DEF BaselineInvariant
<1> QED
  BY <1>1, BaselineCorrect, PTL

\* An idle and certain controller names the configuration its core runs: after every
\* commit, rollback, retry, seed, deadline, adoption and reset, until an apply it was
\* reset over lands late.
THEOREM CoreMatchesConfirmedCorrect == Spec => []CoreMatchesConfirmed
<1>1. BaselineInvariant => CoreMatchesConfirmed
  BY DEF BaselineInvariant, AtBaseline, CoreIs, CoreMatchesConfirmed
<1> QED
  BY <1>1, BaselineCorrect, PTL
=============================================================================
