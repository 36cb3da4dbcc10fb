--------------------- MODULE SystemProxyAutoRecovery_proofs ---------------------
(***************************************************************************)
(* For any scopes, observations and number of attempts: the lease, the     *)
(* operation, its timers and the outstanding write always tell the same    *)
(* story, so that two writes never overlap, the attempt budget is one, and *)
(* a lease ends once the helper answers.                                    *)
(***************************************************************************)
EXTENDS SystemProxyAutoRecovery, TLAPS

State == [ctl : [Controllers -> Controller], shared : Coordination,
          writes : [Controllers -> Nat]]

\* What LeaseAccounted says of one controller, with or without the request it
\* has put off.
Settles(s, c) ==
    LET k == s.ctl[c] IN
    /\ k.operation.live <=> s.shared.lease = c
    /\ k.operation.live => k.operation.scope \in Scopes
    /\ s.writes[c] = IF k.operation.live /\ ~k.operation.callbackReceived THEN 1 ELSE 0
    /\ k.operation.live /\ ~k.operation.callbackReceived
          => IsSet(k.timeout) \/ k.operation.timedOut
    /\ IsSet(k.settle) <=> k.operation.live /\ k.operation.callbackReceived
    /\ IsSet(k.settle) => k.isArmed /\ k.generation = k.operation.gen

Accounted(s, c) == Settles(s, c) /\ (s.ctl[c].requestPending => s.ctl[c].operation.live)

\* Waiters wait for somebody, and are worth waking.
Waiting(s) ==
    /\ s.shared.waiters # {} => s.shared.lease # None
    /\ \A c \in s.shared.waiters : s.ctl[c].isArmed

\* Every write begun is counted.
Budgeted(s) ==
    \A sc \in Scopes : s.shared.spent[sc] <= s.shared.attempts[sc]
                       /\ s.shared.attempts[sc] <= MaxAttempts

\* The shared state is sound, and so are the controllers but for c.
SoundBut(s, c) ==
    /\ s \in State /\ Waiting(s) /\ Budgeted(s)
    /\ \A d \in Controllers \ {c} : Accounted(s, d)

Sound(s) ==
    /\ s \in State /\ Waiting(s) /\ Budgeted(s)
    /\ \A c \in Controllers : Accounted(s, c)

\* A controller with other timers and another scope to look at.
Alike(k, m) ==
    /\ m.generation = k.generation /\ m.isArmed = k.isArmed /\ m.operation = k.operation
    /\ m.settle = k.settle /\ m.timeout = k.timeout /\ m.requestPending = k.requestPending

\* What scheduling, cancelling, suspending and changing the scope do, at most.
Touched(s, t) ==
    /\ t \in State /\ t.writes = s.writes
    /\ t.shared.lease = s.shared.lease /\ t.shared.attempts = s.shared.attempts
    /\ t.shared.spent = s.shared.spent /\ t.shared.waiters \subseteq s.shared.waiters
    /\ \A d \in Controllers : Alike(s.ctl[d], t.ctl[d])
-----------------------------------------------------------------------------
(* Parts of the state.                                                      *)

LEMMA CtlSet ==
    ASSUME NEW s \in State, NEW c \in Controllers, NEW k \in Controller
    PROVE  LET t == [s EXCEPT !.ctl[c] = k]
           IN  /\ t \in State /\ t.ctl[c] = k
               /\ \A d \in Controllers : d # c => t.ctl[d] = s.ctl[d]
               /\ t.shared = s.shared /\ t.writes = s.writes
BY DEF State

LEMMA SharedSet ==
    ASSUME NEW s \in State, NEW h \in Coordination
    PROVE  LET t == [s EXCEPT !.shared = h]
           IN  t \in State /\ t.shared = h /\ t.ctl = s.ctl /\ t.writes = s.writes
BY DEF State

LEMMA StateParts ==
    ASSUME NEW s \in State
    PROVE  /\ s.shared \in Coordination /\ s.ctl \in [Controllers -> Controller]
           /\ s.writes \in [Controllers -> Nat]
           /\ \A c \in Controllers : s.ctl[c] \in Controller /\ s.writes[c] \in Nat
BY DEF State

LEMMA TimerFacts ==
    ASSUME NEW g \in Nat, NEW sc \in Scopes \cup {None}
    PROVE  /\ Unset \in Timer /\ [gen |-> g, scope |-> sc] \in Timer
           /\ IsSet([gen |-> g, scope |-> sc]) /\ ~IsSet(Unset)
<1>1. [gen |-> g, scope |-> sc].gen # Unset.gen
  BY DEF Unset
<1> QED
  BY <1>1 DEF Timer, Unset, IsSet

LEMMA UnsetFacts == Unset \in Timer /\ ~IsSet(Unset)
BY DEF Timer, Unset, IsSet

LEMMA NoOperationFits ==
    NoOperation \in Operation /\ ~NoOperation.live /\ ~NoOperation.callbackReceived
BY DEF NoOperation, Operation

LEMMA TimersSet ==
    ASSUME NEW k \in Controller, NEW t \in Timer, NEW u \in Timer, NEW sc \in Scopes \cup {None}
    PROVE  /\ [k EXCEPT !.request = t] \in Controller /\ Alike(k, [k EXCEPT !.request = t])
           /\ [k EXCEPT !.retry = t] \in Controller /\ Alike(k, [k EXCEPT !.retry = t])
           /\ [k EXCEPT !.stable = t] \in Controller /\ Alike(k, [k EXCEPT !.stable = t])
           /\ [k EXCEPT !.currentScope = sc, !.retry = t, !.stable = u] \in Controller
           /\ Alike(k, [k EXCEPT !.currentScope = sc, !.retry = t, !.stable = u])
BY DEF Controller, Alike

LEMMA CtlTouched ==
    ASSUME NEW s \in State, NEW c \in Controllers, NEW k \in Controller, Alike(s.ctl[c], k)
    PROVE  Touched(s, [s EXCEPT !.ctl[c] = k])
BY CtlSet DEF Touched, Alike

LEMMA TouchedSelf ==
    ASSUME NEW s \in State
    PROVE  Touched(s, s)
BY DEF Touched, Alike

LEMMA TouchedTwice ==
    ASSUME NEW s, NEW t, NEW u, Touched(s, t), Touched(t, u)
    PROVE  Touched(s, u)
BY DEF Touched, Alike

LEMMA TouchedAccounted ==
    ASSUME NEW s, NEW t, Touched(s, t), NEW c \in Controllers, Accounted(s, c)
    PROVE  Accounted(t, c)
BY DEF Touched, Alike, Accounted, Settles

LEMMA TouchedShared ==
    ASSUME NEW s \in State, NEW t, Touched(s, t), Waiting(s), Budgeted(s)
    PROVE  Waiting(t) /\ Budgeted(t) /\ t \in State
<1>1. s.shared.waiters \subseteq Controllers
  BY StateParts DEF Coordination
<1> QED
  BY <1>1 DEF Touched, Alike, Waiting, Budgeted

LEMMA TouchedSound ==
    ASSUME NEW s, Sound(s), NEW t, Touched(s, t)
    PROVE  Sound(t)
BY TouchedAccounted, TouchedShared DEF Sound
-----------------------------------------------------------------------------
(* The methods that only touch.                                             *)

LEMMA CancelRetryTouches ==
    ASSUME NEW s \in State, NEW c \in Controllers
    PROVE  Touched(s, CancelRetryTask(s, c))
BY CtlTouched, TimersSet, StateParts, UnsetFacts DEF CancelRetryTask

LEMMA CancelStableTouches ==
    ASSUME NEW s \in State, NEW c \in Controllers
    PROVE  Touched(s, CancelStableTask(s, c))
BY CtlTouched, TimersSet, StateParts, UnsetFacts DEF CancelStableTask

LEMMA ScheduleRequestTouches ==
    ASSUME NEW s \in State, NEW c \in Controllers
    PROVE  Touched(s, ScheduleRequest(s, c))
<1>1. s.ctl[c].generation \in Nat
  BY StateParts DEF Controller
<1> QED
  BY <1>1, CtlTouched, TimersSet, StateParts, TimerFacts DEF ScheduleRequest

LEMMA ScheduleRetryTouches ==
    ASSUME NEW s \in State, NEW c \in Controllers, NEW sc \in Scopes
    PROVE  Touched(s, ScheduleRetry(s, c, sc))
<1>1. s.ctl[c].generation \in Nat
  BY StateParts DEF Controller
<1> QED
  BY <1>1, CtlTouched, TimersSet, StateParts, TimerFacts, TouchedSelf DEF ScheduleRetry

LEMMA ScheduleStableResetTouches ==
    ASSUME NEW s \in State, NEW c \in Controllers, NEW sc \in Scopes
    PROVE  Touched(s, ScheduleStableReset(s, c, sc))
<1>1. s.ctl[c].generation \in Nat
  BY StateParts DEF Controller
<1> QED
  BY <1>1, CtlTouched, TimersSet, StateParts, TimerFacts, TouchedSelf DEF ScheduleStableReset

LEMMA UpdateCurrentScopeTouches ==
    ASSUME NEW s \in State, NEW c \in Controllers, NEW sc \in Scopes
    PROVE  Touched(s, UpdateCurrentScope(s, c, sc))
<1> DEFINE t == IF s.ctl[c].retry.scope \notin {None, sc} THEN Unset ELSE s.ctl[c].retry
           u == IF s.ctl[c].stable.scope \notin {None, sc} THEN Unset ELSE s.ctl[c].stable
           s1 == [s EXCEPT !.ctl[c].currentScope = sc]
           s2 == [s1 EXCEPT !.ctl[c].retry = t]
           s3 == [s2 EXCEPT !.ctl[c].stable = u]
<1>1. t \in Timer /\ u \in Timer
  BY StateParts, UnsetFacts DEF Controller
<1>2. ASSUME NEW v \in State
      PROVE  /\ Touched(v, [v EXCEPT !.ctl[c].currentScope = sc])
             /\ Touched(v, [v EXCEPT !.ctl[c].retry = t])
             /\ Touched(v, [v EXCEPT !.ctl[c].stable = u])
  <2> HIDE DEF t, u
  <2>1. v.ctl[c] \in Controller
    BY StateParts
  <2>2. /\ [v.ctl[c] EXCEPT !.currentScope = sc] \in Controller
        /\ Alike(v.ctl[c], [v.ctl[c] EXCEPT !.currentScope = sc])
    BY <2>1 DEF Controller, Alike
  <2> QED
    BY <1>1, <2>1, <2>2, CtlTouched, TimersSet
<1>3. s.ctl[c].currentScope # sc => UpdateCurrentScope(s, c, sc) = s3
  BY StateParts DEF UpdateCurrentScope, State, Controller
<1> HIDE DEF t, u
<1>4. Touched(s, s3)
  <2>1. Touched(s, s1) /\ s1 \in State
    BY <1>2 DEF Touched
  <2> HIDE DEF s1
  <2>2. Touched(s1, s2) /\ s2 \in State
    BY <1>2, <2>1 DEF Touched
  <2> HIDE DEF s2
  <2>3. Touched(s2, s3)
    BY <1>2, <2>2
  <2> HIDE DEF s3
  <2> QED
    BY <2>1, <2>2, <2>3, TouchedTwice
<1> HIDE DEF s3
<1> QED
  BY <1>3, <1>4, TouchedSelf DEF UpdateCurrentScope

LEMMA RemoveWaiterTouches ==
    ASSUME NEW s \in State, NEW c \in Controllers
    PROVE  Touched(s, RemoveWaiter(s, c))
<1>1. [s.shared EXCEPT !.waiters = @ \ {c}] \in Coordination
  BY StateParts DEF Coordination
<1> QED
  BY <1>1, SharedSet, StateParts DEF RemoveWaiter, Touched, Alike, Coordination

LEMMA SuspendTouches ==
    ASSUME NEW s \in State, NEW c \in Controllers, NEW sc \in Scopes
    PROVE  Touched(s, Suspend(s, c, sc))
<1> DEFINE h == [s.shared EXCEPT !.suspended = @ \cup {sc}, !.waiters = @ \ {c}]
           k == [s.ctl[c] EXCEPT !.retry = IF @.scope = sc THEN Unset ELSE @]
           u == [s EXCEPT !.shared = h]
<1>1. /\ h \in Coordination /\ h.lease = s.shared.lease /\ h.attempts = s.shared.attempts
      /\ h.spent = s.shared.spent /\ h.waiters \subseteq s.shared.waiters
  BY StateParts DEF Coordination
<1>2. k \in Controller /\ Alike(s.ctl[c], k)
  BY StateParts, UnsetFacts DEF Controller, Alike
<1>3. u \in State /\ Touched(s, u) /\ u.ctl = s.ctl
  <2> HIDE DEF h
  <2> QED
    BY <1>1, SharedSet DEF Touched, Alike
<1>4. Touched(u, [u EXCEPT !.ctl[c] = k])
  <2> HIDE DEF u, k
  <2> QED
    BY <1>2, <1>3, CtlTouched
<1>5. Touched(s, [u EXCEPT !.ctl[c] = k])
  <2> HIDE DEF u, k
  <2> QED
    BY <1>3, <1>4, TouchedTwice
<1>6. sc \notin s.shared.suspended => Suspend(s, c, sc) = [u EXCEPT !.ctl[c] = k]
  BY StateParts DEF Suspend, State
<1> HIDE DEF u, k
<1> QED
  BY <1>5, <1>6, TouchedSelf DEF Suspend
-----------------------------------------------------------------------------
(* The end of an operation.                                                 *)

\* The lease of c is free again, whatever becomes of the request it put off.
LEMMA ReleaseSound ==
    ASSUME NEW c \in Controllers, NEW s, SoundBut(s, c), s.shared.lease = c,
           ~s.ctl[c].operation.live, s.writes[c] = 0,
           ~IsSet(s.ctl[c].settle)
    PROVE  LET t == Release(s)
           IN  /\ SoundBut(t, c) /\ Settles(t, c)
               /\ t.ctl[c].requestPending = s.ctl[c].requestPending
               /\ t.ctl[c].isArmed = s.ctl[c].isArmed
<1> DEFINE h == [s.shared EXCEPT !.lease = None, !.waiters = {}]
           f == [d \in Controllers |-> IF d \in s.shared.waiters /\ s.ctl[d].isArmed
                                       THEN ScheduleRequest(s, d).ctl[d] ELSE s.ctl[d]]
           t == Release(s)
<1>1. s \in State /\ s.shared \in Coordination /\ Budgeted(s)
  BY StateParts DEF SoundBut
<1>2. /\ h \in Coordination /\ h.lease = None /\ h.waiters = {}
      /\ h.attempts = s.shared.attempts /\ h.spent = s.shared.spent
  BY <1>1 DEF Coordination
<1>3. \A d \in Controllers : f[d] \in Controller /\ Alike(s.ctl[d], f[d])
  <2>1. \A d \in Controllers : /\ ScheduleRequest(s, d).ctl[d] \in Controller
                               /\ Alike(s.ctl[d], ScheduleRequest(s, d).ctl[d])
    BY <1>1, ScheduleRequestTouches, StateParts DEF Touched
  <2>2. \A d \in Controllers : s.ctl[d] \in Controller /\ Alike(s.ctl[d], s.ctl[d])
    BY <1>1, StateParts DEF Alike
  <2> QED
    BY <2>1, <2>2
<1>4. f \in [Controllers -> Controller]
  BY <1>3
<1>5. t.shared = h /\ t.ctl = f /\ t.writes = s.writes /\ t \in State
  <2>1. t = [[s EXCEPT !.shared = h] EXCEPT !.ctl = f]
    BY <1>1 DEF Release, State
  <2> HIDE DEF t, f, h
  <2> QED
    BY <1>1, <1>2, <1>4, <2>1 DEF State
<1> HIDE DEF t, f, h
<1>6. Waiting(t) /\ Budgeted(t)
  BY <1>1, <1>2, <1>5 DEF Waiting, Budgeted
<1>7. \A d \in Controllers \ {c} : Accounted(t, d)
  <2> SUFFICES ASSUME NEW d \in Controllers \ {c} PROVE Accounted(t, d)
    OBVIOUS
  <2>1. Accounted(s, d) /\ d # None /\ Alike(s.ctl[d], t.ctl[d])
    BY <1>3, <1>5, RecoveryAssumption DEF SoundBut
  <2>2. ~s.ctl[d].operation.live
    BY <2>1 DEF Accounted, Settles
  <2> QED
    BY <1>2, <1>5, <2>1, <2>2 DEF Accounted, Settles, Alike
<1>8. Settles(t, c)
  BY <1>2, <1>3, <1>5, RecoveryAssumption DEF Settles, Alike
<1> QED
  BY <1>3, <1>5, <1>6, <1>7, <1>8 DEF SoundBut, Alike, t

LEMMA ClearSound ==
    ASSUME NEW c \in Controllers, NEW s, SoundBut(s, c), s.shared.lease = c, s.writes[c] = 0
    PROVE  LET t == ClearOperation(s, c)
           IN  /\ SoundBut(t, c) /\ Settles(t, c)
               /\ t.ctl[c].requestPending = s.ctl[c].requestPending
               /\ t.ctl[c].isArmed = s.ctl[c].isArmed
<1> DEFINE k == [s.ctl[c] EXCEPT !.operation = NoOperation, !.settle = Unset, !.timeout = Unset]
           u == [s EXCEPT !.ctl[c] = k]
<1>1. s \in State /\ s.ctl[c] \in Controller
  BY StateParts DEF SoundBut
<1>2. /\ k \in Controller /\ k.operation = NoOperation /\ k.settle = Unset
      /\ k.requestPending = s.ctl[c].requestPending /\ k.isArmed = s.ctl[c].isArmed
  BY <1>1, NoOperationFits, UnsetFacts DEF Controller
<1>3. ClearOperation(s, c) = Release(u)
  <2> DEFINE v == [s EXCEPT !.ctl[c].operation = NoOperation, !.ctl[c].settle = Unset,
                            !.ctl[c].timeout = Unset]
  <2>1. ClearOperation(s, c) = Release(v)
    BY DEF ClearOperation
  <2>2. v.ctl = u.ctl /\ v.shared = u.shared /\ v.writes = u.writes
    BY <1>1 DEF State, Controller
  <2>3. DOMAIN v = DOMAIN u /\ DOMAIN u = {"ctl", "shared", "writes"}
    BY <1>1 DEF State
  <2>4. v = u
    BY <1>1, <2>2, <2>3 DEF State
  <2> QED
    BY <2>1, <2>4
<1> HIDE DEF k
<1>4. /\ u \in State /\ u.ctl[c] = k /\ u.shared = s.shared /\ u.writes = s.writes
      /\ \A d \in Controllers : d # c => u.ctl[d] = s.ctl[d]
  BY <1>1, <1>2, CtlSet
<1> HIDE DEF u
<1>5. SoundBut(u, c)
  <2>1. Waiting(u) /\ Budgeted(u)
    BY <1>1, <1>2, <1>4, StateParts DEF SoundBut, Waiting, Budgeted, Coordination
  <2>2. \A d \in Controllers \ {c} : Accounted(u, d)
    BY <1>4 DEF SoundBut, Accounted, Settles
  <2> QED
    BY <1>4, <2>1, <2>2 DEF SoundBut
<1> QED
  BY <1>2, <1>3, <1>4, <1>5, ReleaseSound, NoOperationFits, UnsetFacts

LEMMA PendingSound ==
    ASSUME NEW c \in Controllers, NEW s, SoundBut(s, c), Settles(s, c), NEW force \in BOOLEAN
    PROVE  Sound(SchedulePendingRequest(s, c, force))
<1> DEFINE k == [s.ctl[c] EXCEPT !.requestPending = FALSE]
           u == [s EXCEPT !.ctl[c] = k]
<1>1. s \in State /\ s.ctl[c] \in Controller
  BY StateParts DEF SoundBut
<1>2. /\ k \in Controller /\ ~k.requestPending /\ k.operation = s.ctl[c].operation
      /\ k.settle = s.ctl[c].settle /\ k.timeout = s.ctl[c].timeout
      /\ k.generation = s.ctl[c].generation /\ k.isArmed = s.ctl[c].isArmed
  BY <1>1 DEF Controller
<1>3. SchedulePendingRequest(s, c, force) \in {u, ScheduleRequest(u, c)}
  BY DEF SchedulePendingRequest
<1> HIDE DEF k
<1>4. /\ u \in State /\ u.ctl[c] = k /\ u.shared = s.shared /\ u.writes = s.writes
      /\ \A d \in Controllers : d # c => u.ctl[d] = s.ctl[d]
  BY <1>1, <1>2, CtlSet
<1> HIDE DEF u
<1>5. Sound(u)
  <2>1. Waiting(u) /\ Budgeted(u)
    BY <1>1, <1>2, <1>4, StateParts DEF SoundBut, Waiting, Budgeted, Coordination
  <2>2. \A d \in Controllers \ {c} : Accounted(u, d)
    BY <1>4 DEF SoundBut, Accounted, Settles
  <2>3. Accounted(u, c)
    BY <1>2, <1>4 DEF Accounted, Settles
  <2> QED
    BY <1>4, <2>1, <2>2, <2>3 DEF Sound
<1>6. Sound(ScheduleRequest(u, c))
  BY <1>4, <1>5, ScheduleRequestTouches, TouchedSound
<1> QED
  BY <1>3, <1>5, <1>6
-----------------------------------------------------------------------------
(* Looking at an observation.                                               *)

LEMMA BeginApplySound ==
    ASSUME NEW c \in Controllers, NEW s, Sound(s), NEW sc \in Scopes, s.ctl[c].isArmed,
           s.shared.attempts[sc] < MaxAttempts
    PROVE  Sound(BeginApply(s, c, sc))
<1>1. /\ s \in State /\ s.ctl[c] \in Controller /\ s.shared \in Coordination
      /\ s.writes \in [Controllers -> Nat]
  BY StateParts DEF Sound
<1>2. CASE s.shared.lease # None
  <2> DEFINE h == [s.shared EXCEPT !.waiters = @ \cup {c}]
  <2>1. /\ h \in Coordination /\ h.waiters = s.shared.waiters \cup {c}
        /\ h.lease = s.shared.lease /\ h.attempts = s.shared.attempts
        /\ h.spent = s.shared.spent
    BY <1>1 DEF Coordination
  <2>2. BeginApply(s, c, sc) = [s EXCEPT !.shared = h]
    BY <1>2 DEF BeginApply
  <2> HIDE DEF h
  <2>3. LET t == [s EXCEPT !.shared = h]
        IN  t \in State /\ t.shared = h /\ t.ctl = s.ctl /\ t.writes = s.writes
    BY <1>1, <2>1, SharedSet
  <2> QED
    BY <1>2, <2>1, <2>2, <2>3 DEF Sound, Waiting, Budgeted, Accounted, Settles
<1>3. CASE s.shared.lease = None
  <2> DEFINE g == s.ctl[c].generation
             op == [gen |-> g, scope |-> sc, live |-> TRUE,
                    callbackReceived |-> FALSE, timedOut |-> FALSE]
             timer == [gen |-> g, scope |-> sc]
             k == [s.ctl[c] EXCEPT !.operation = op, !.timeout = timer]
             a == [s.shared.attempts EXCEPT ![sc] = @ + 1]
             n == [s.shared.spent EXCEPT ![sc] = @ + 1]
             h1 == [s.shared EXCEPT !.waiters = s.shared.waiters \ {c}]
             h2 == [h1 EXCEPT !.lease = c]
             h3 == [h2 EXCEPT !.attempts = a]
             h4 == [h3 EXCEPT !.spent = n]
             h == [h4 EXCEPT !.cooling = s.shared.cooling \cup {sc}]
             w == [s.writes EXCEPT ![c] = @ + 1]
             t == BeginApply(s, c, sc)
  <2>1. g \in Nat
    BY <1>1 DEF Controller
  <2>2. op \in Operation /\ op.live /\ ~op.callbackReceived /\ op.scope \in Scopes
    BY <2>1 DEF Operation
  <2>3. timer \in Timer /\ IsSet(timer)
    BY <2>1, TimerFacts
  <2>4. /\ k \in Controller /\ k.operation = op /\ k.timeout = timer
        /\ k.settle = s.ctl[c].settle /\ k.requestPending = s.ctl[c].requestPending
        /\ k.isArmed = s.ctl[c].isArmed
    <3> HIDE DEF op, timer
    <3> QED
      BY <1>1, <2>2, <2>3 DEF Controller
  <2>5. /\ h1 \in Coordination /\ h2 \in Coordination /\ h3 \in Coordination
        /\ h4 \in Coordination /\ h \in Coordination
        /\ h2.attempts = s.shared.attempts /\ h3.spent = s.shared.spent
        /\ h.lease = c /\ h.waiters = s.shared.waiters \ {c}
        /\ h.attempts = a /\ h.spent = n
    <3>1. a \in [Scopes -> Nat] /\ n \in [Scopes -> Nat]
      BY <1>1 DEF Coordination
    <3> HIDE DEF a, n
    <3> QED
      BY <1>1, <3>1 DEF Coordination
  <2>6. t.ctl = [s.ctl EXCEPT ![c] = k] /\ t.shared = h /\ t.writes = w /\ t \in State
    <3> DEFINE v1 == [s EXCEPT !.shared.waiters = s.shared.waiters \ {c}]
               v2 == [v1 EXCEPT !.shared.lease = c]
               v3 == [v2 EXCEPT !.shared.attempts[sc] = s.shared.attempts[sc] + 1]
               v4 == [v3 EXCEPT !.shared.spent[sc] = s.shared.spent[sc] + 1]
               v5 == [v4 EXCEPT !.shared.cooling = s.shared.cooling \cup {sc}]
               v6 == [v5 EXCEPT !.ctl[c].operation = op]
               v7 == [v6 EXCEPT !.ctl[c].timeout = timer]
               v8 == [v7 EXCEPT !.writes[c] = s.writes[c] + 1]
               k1 == [s.ctl[c] EXCEPT !.operation = op]
    <3>0. t = v8
      BY <1>1, <1>3 DEF BeginApply
    <3>1. v1 \in State /\ v1.shared = h1 /\ v1.ctl = s.ctl /\ v1.writes = s.writes
      BY <1>1, <2>5, SharedSet
    <3> HIDE DEF v1
    <3>2. v2 \in State /\ v2.shared = h2 /\ v2.ctl = s.ctl /\ v2.writes = s.writes
      BY <2>5, <3>1, SharedSet
    <3> HIDE DEF v2, h1, h2
    <3>3. v3 \in State /\ v3.shared = h3 /\ v3.ctl = s.ctl /\ v3.writes = s.writes
      BY <2>5, <3>2, SharedSet
    <3> HIDE DEF v3, h3
    <3>4. v4 \in State /\ v4.shared = h4 /\ v4.ctl = s.ctl /\ v4.writes = s.writes
      BY <2>5, <3>3, SharedSet
    <3> HIDE DEF v4, h4
    <3>5. v5 \in State /\ v5.shared = h /\ v5.ctl = s.ctl /\ v5.writes = s.writes
      <4>1. v5 = [v4 EXCEPT !.shared = h]
        BY <3>4
      <4> HIDE DEF v5, h
      <4> QED
        BY <2>5, <3>4, <4>1, SharedSet
    <3> HIDE DEF v5, h
    <3>6. /\ v6 \in State /\ v6.ctl = [s.ctl EXCEPT ![c] = k1]
          /\ v6.shared = h /\ v6.writes = s.writes
      <4>1. k1 \in Controller
        BY <1>1, <2>2 DEF Controller
      <4> QED
        BY <1>1, <3>5, <4>1 DEF State
    <3>7. v6.ctl[c] = k1
      BY <1>1, <3>6, StateParts
    <3> HIDE DEF v6
    <3>8. /\ v7 \in State /\ v7.ctl = [s.ctl EXCEPT ![c] = k]
          /\ v7.shared = h /\ v7.writes = s.writes
      <4>1. v7.ctl = [v6.ctl EXCEPT ![c] = [k1 EXCEPT !.timeout = timer]]
        BY <3>6, <3>7 DEF State
      <4>2. [k1 EXCEPT !.timeout = timer] = k
        BY <1>1 DEF Controller
      <4>3. v7.ctl = [s.ctl EXCEPT ![c] = k]
        BY <1>1, <3>6, <4>1, <4>2, StateParts
      <4>4. v7.shared = h /\ v7.writes = s.writes
        BY <3>6 DEF State
      <4>5. [k1 EXCEPT !.timeout = timer] \in Controller
        BY <2>4, <4>2
      <4> HIDE DEF k, k1, timer
      <4>6. v7 \in State
        BY <3>6, <3>7, <4>5, CtlSet
      <4> QED
        BY <4>3, <4>4, <4>6
    <3> HIDE DEF v7, k
    <3> QED
      BY <1>1, <3>0, <3>8 DEF State
  <2>7. s.ctl \in [Controllers -> Controller]
    BY <1>1, StateParts
  <2>8. t.ctl[c] = k /\ t.writes[c] = s.writes[c] + 1
    <3> HIDE DEF t, k, h
    <3> QED
      BY <1>1, <2>6, <2>7
  <2>9. \A d \in Controllers : d # c => t.ctl[d] = s.ctl[d] /\ t.writes[d] = s.writes[d]
    <3> HIDE DEF t, k, h
    <3> QED
      BY <1>1, <2>6, <2>7
  <2> HIDE DEF t, k, h1, h2, h3, h4, h, w, op, timer
  <2>10. Budgeted(t)
    BY <1>1, <2>5, <2>6, RecoveryAssumption DEF Sound, Budgeted, Coordination
  <2>11. \A d \in Controllers : ~s.ctl[d].operation.live
    BY <1>3, RecoveryAssumption DEF Sound, Accounted, Settles
  <2>12. Waiting(t)
    BY <1>3, <2>5, <2>6, RecoveryAssumption DEF Sound, Waiting
  <2>13. \A d \in Controllers \ {c} : Accounted(t, d)
    BY <2>5, <2>6, <2>9, <2>11 DEF Sound, Accounted, Settles
  <2>14. Accounted(t, c)
    <3>1. ~IsSet(s.ctl[c].settle) /\ s.writes[c] = 0
      BY <2>11 DEF Sound, Accounted, Settles
    <3> QED
      BY <2>2, <2>3, <2>4, <2>5, <2>6, <2>8, <3>1 DEF Accounted, Settles
  <2> QED
    BY <2>6, <2>10, <2>12, <2>13, <2>14 DEF Sound, t
<1> QED
  BY <1>2, <1>3

\* Without the right to begin a write, what is observed only moves timers.
LEMMA ProcessTouches ==
    ASSUME NEW c \in Controllers, NEW s \in State, NEW obs \in Observation
    PROVE  Touched(s, Process(s, c, obs, FALSE))
<1> DEFINE sc == obs.scope
           m == CancelStableTask(s, c)
<1>1. sc \in Scopes
  BY DEF Observation
<1>2. Touched(s, m) /\ m \in State
  BY CancelStableTouches DEF Touched
<1>3. Touched(s, RemoveWaiter(CancelStableTask(CancelRetryTask(s, c), c), c))
  <2> DEFINE u == CancelRetryTask(s, c)
             v == CancelStableTask(u, c)
  <2>1. Touched(s, u) /\ u \in State
    BY CancelRetryTouches DEF Touched
  <2> HIDE DEF u
  <2>2. Touched(s, v) /\ v \in State
    BY <2>1, CancelStableTouches, TouchedTwice DEF Touched
  <2> HIDE DEF v
  <2>3. Touched(s, RemoveWaiter(v, c))
    BY <2>2, RemoveWaiterTouches, TouchedTwice
  <2> QED
    BY <2>3 DEF v, u
<1>4. Touched(s, ScheduleStableReset(CancelRetryTask(s, c), c, sc))
  <2> DEFINE u == CancelRetryTask(s, c)
  <2>1. Touched(s, u) /\ u \in State
    BY CancelRetryTouches DEF Touched
  <2> HIDE DEF u
  <2>2. Touched(s, ScheduleStableReset(u, c, sc))
    BY <1>1, <2>1, ScheduleStableResetTouches, TouchedTwice
  <2> QED
    BY <2>2 DEF u
<1> HIDE DEF m
<1>5. /\ Touched(s, CancelRetryTask(m, c)) /\ Touched(s, Suspend(m, c, sc))
      /\ Touched(s, ScheduleRetry(m, c, sc))
  BY <1>1, <1>2, CancelRetryTouches, SuspendTouches, ScheduleRetryTouches, TouchedTwice
<1> QED
  BY <1>2, <1>3, <1>4, <1>5 DEF Process, m

LEMMA ProcessSound ==
    ASSUME NEW c \in Controllers, NEW s, Sound(s), s.ctl[c].isArmed, NEW obs \in Observation
    PROVE  Sound(Process(s, c, obs, TRUE))
<1> DEFINE sc == obs.scope
           m == CancelStableTask(s, c)
           u == CancelRetryTask(m, c)
<1>1. sc \in Scopes /\ s \in State /\ s.shared \in Coordination
  BY StateParts DEF Observation, Sound
<1>2. Sound(Process(s, c, obs, FALSE))
  BY <1>1, ProcessTouches, TouchedSound
<1>3. Touched(s, u)
  <2>1. Touched(s, m) /\ m \in State
    BY <1>1, CancelStableTouches DEF Touched
  <2> HIDE DEF m
  <2> QED
    BY <2>1, CancelRetryTouches, TouchedTwice
<1>4. \/ Process(s, c, obs, TRUE) = Process(s, c, obs, FALSE)
      \/ Process(s, c, obs, TRUE) = BeginApply(u, c, sc) /\ ~(s.shared.attempts[sc] >= MaxAttempts)
  BY DEF Process
<1> HIDE DEF u
<1>5. CASE ~(s.shared.attempts[sc] >= MaxAttempts)
  <2>1. Sound(u) /\ u.ctl[c].isArmed /\ u.shared.attempts = s.shared.attempts
    BY <1>3, TouchedSound DEF Touched, Alike
  <2>2. s.shared.attempts[sc] < MaxAttempts
    BY <1>1, <1>5, RecoveryAssumption DEF Coordination
  <2>3. Sound(BeginApply(u, c, sc))
    BY <1>1, <2>1, <2>2, BeginApplySound
  <2> QED
    BY <1>2, <1>4, <2>3
<1> QED
  BY <1>2, <1>4, <1>5

LEMMA ReconcileSound ==
    ASSUME NEW c \in Controllers, NEW s, Sound(s), s.ctl[c].isArmed, NEW obs \in Observation
    PROVE  Sound(Reconcile(s, c, obs))
<1>1. s \in State /\ obs.scope \in Scopes
  BY DEF Sound, Observation
<1>2. CASE s.ctl[c].operation.live
  <2> DEFINE k == [s.ctl[c] EXCEPT !.requestPending = TRUE]
             u == [s EXCEPT !.ctl[c] = k]
  <2>1. /\ k \in Controller /\ k.operation = s.ctl[c].operation
        /\ k.settle = s.ctl[c].settle /\ k.timeout = s.ctl[c].timeout
        /\ k.generation = s.ctl[c].generation /\ k.isArmed = s.ctl[c].isArmed
    BY <1>1, StateParts DEF Controller
  <2>2. Reconcile(s, c, obs) = u
    BY <1>2 DEF Reconcile
  <2> HIDE DEF k
  <2>3. /\ u \in State /\ u.ctl[c] = k /\ u.shared = s.shared /\ u.writes = s.writes
        /\ \A d \in Controllers : d # c => u.ctl[d] = s.ctl[d]
    BY <1>1, <2>1, CtlSet
  <2> HIDE DEF u
  <2>4. Waiting(u) /\ Budgeted(u)
    BY <1>1, <2>1, <2>3, StateParts DEF Sound, Waiting, Budgeted, Coordination
  <2>5. \A d \in Controllers : d # c => Accounted(u, d)
    BY <2>3 DEF Sound, Accounted, Settles
  <2>6. Accounted(u, c)
    <3>1. Settles(s, c)
      BY DEF Sound, Accounted
    <3>2. Settles(u, c)
      BY <2>1, <2>3, <3>1 DEF Settles
    <3> QED
      BY <1>2, <2>1, <2>3, <3>2 DEF Accounted
  <2> QED
    BY <2>2, <2>3, <2>4, <2>5, <2>6 DEF Sound
<1>3. CASE ~s.ctl[c].operation.live
  <2> DEFINE u == UpdateCurrentScope(s, c, obs.scope)
  <2>1. Sound(u) /\ u.ctl[c].isArmed
    BY <1>1, UpdateCurrentScopeTouches, TouchedSound DEF Touched, Alike
  <2> HIDE DEF u
  <2>2. Sound(Process(u, c, obs, TRUE))
    BY <2>1, ProcessSound
  <2> QED
    BY <1>3, <2>2 DEF Reconcile, u
<1> QED
  BY <1>2, <1>3
-----------------------------------------------------------------------------
(* The calls.                                                               *)

\* What is left of Sound while c is being disarmed.
Unarming(s, c) ==
    LET k == s.ctl[c] IN
    /\ s \in State /\ Budgeted(s)
    /\ s.shared.waiters # {} => s.shared.lease # None
    /\ \A d \in s.shared.waiters \ {c} : s.ctl[d].isArmed
    /\ \A d \in Controllers \ {c} : Accounted(s, d)
    /\ k.operation.live <=> s.shared.lease = c
    /\ k.operation.live => k.operation.scope \in Scopes
    /\ s.writes[c] = IF k.operation.live /\ ~k.operation.callbackReceived THEN 1 ELSE 0
    /\ k.operation.live /\ ~k.operation.callbackReceived
          => IsSet(k.timeout) \/ k.operation.timedOut

LEMMA SoundUnarming ==
    ASSUME NEW c \in Controllers, NEW s, Sound(s)
    PROVE  Unarming(s, c)
BY DEF Sound, Waiting, Accounted, Settles, Unarming

LEMMA TouchedUnarming ==
    ASSUME NEW c \in Controllers, NEW s, Unarming(s, c), NEW t, Touched(s, t)
    PROVE  Unarming(t, c)
<1>1. s \in State /\ s.shared.waiters \subseteq Controllers
  BY StateParts DEF Unarming, Coordination
<1>2. \A d \in Controllers \ {c} : Accounted(t, d)
  BY TouchedAccounted DEF Unarming
<1>3. t \in State /\ Budgeted(t)
  BY DEF Unarming, Touched, Budgeted
<1> QED
  BY <1>1, <1>2, <1>3 DEF Unarming, Touched, Alike

\* A change of c that neither its operation nor its write notices.
LEMMA KeepsUnarming ==
    ASSUME NEW c \in Controllers, NEW s, Unarming(s, c), NEW k \in Controller,
           k.operation = s.ctl[c].operation, k.timeout = s.ctl[c].timeout
    PROVE  LET t == [s EXCEPT !.ctl[c] = k]
           IN  /\ Unarming(t, c) /\ t.ctl[c] = k /\ t.shared = s.shared /\ t.writes = s.writes
               /\ \A d \in Controllers : d # c => t.ctl[d] = s.ctl[d]
<1> DEFINE t == [s EXCEPT !.ctl[c] = k]
<1>1. s \in State /\ s.shared.waiters \subseteq Controllers
  BY StateParts DEF Unarming, Coordination
<1>2. /\ t \in State /\ t.ctl[c] = k /\ t.shared = s.shared /\ t.writes = s.writes
      /\ \A d \in Controllers : d # c => t.ctl[d] = s.ctl[d]
  BY <1>1, CtlSet
<1> HIDE DEF t
<1>3. Budgeted(t) /\ \A d \in Controllers \ {c} : Accounted(t, d)
  BY <1>2 DEF Unarming, Budgeted, Accounted, Settles
<1>4. Unarming(t, c)
  BY <1>1, <1>2, <1>3 DEF Unarming
<1> QED
  BY <1>2, <1>4 DEF t

LEMMA InvalidateSound ==
    ASSUME NEW c \in Controllers, NEW s, Unarming(s, c)
    PROVE  Sound(Invalidate(s, c))
<1> DEFINE v1 == [s EXCEPT !.ctl[c].request = Unset]
           v2 == [v1 EXCEPT !.ctl[c].retry = Unset]
           v3 == [v2 EXCEPT !.ctl[c].stable = Unset]
           v4 == [v3 EXCEPT !.ctl[c].requestPending = FALSE]
           v5 == [v4 EXCEPT !.ctl[c].generation = @ + 1]
           v6 == RemoveWaiter(v5, c)
           v7 == [v6 EXCEPT !.ctl[c].settle = Unset]
<1>1. Invalidate(s, c) = IF s.ctl[c].operation.live /\ s.ctl[c].operation.callbackReceived
                         THEN ClearOperation(v6, c) ELSE v7
  BY DEF Invalidate, AdvanceGeneration, RemoveWaiter
<1>2. s \in State
  BY DEF Unarming
<1>3. Touched(s, v1) /\ v1 \in State
  <2>1. s.ctl[c] \in Controller
    BY <1>2, StateParts
  <2>2. Touched(s, v1)
    BY <1>2, <2>1, CtlTouched, TimersSet, UnsetFacts
  <2> QED
    BY <2>2 DEF Touched
<1> HIDE DEF v1
<1>4. Touched(v1, v2) /\ v2 \in State
  BY <1>3, CancelRetryTouches DEF CancelRetryTask, Touched
<1> HIDE DEF v2
<1>5. Touched(v2, v3) /\ v3 \in State
  BY <1>4, CancelStableTouches DEF CancelStableTask, Touched
<1> HIDE DEF v3
<1>6. Unarming(v3, c) /\ v3.ctl[c].operation = s.ctl[c].operation
  <2>1. Touched(s, v3)
    BY <1>3, <1>4, <1>5, TouchedTwice
  <2> QED
    BY <2>1, TouchedUnarming DEF Touched, Alike
<1>7. /\ Unarming(v4, c) /\ ~v4.ctl[c].requestPending
      /\ v4.ctl[c].operation = s.ctl[c].operation
  <2> DEFINE k == [v3.ctl[c] EXCEPT !.requestPending = FALSE]
  <2>1. /\ k \in Controller /\ k.operation = v3.ctl[c].operation
        /\ k.timeout = v3.ctl[c].timeout /\ ~k.requestPending
    BY <1>5, StateParts DEF Controller
  <2>2. v4 = [v3 EXCEPT !.ctl[c] = k]
    OBVIOUS
  <2> HIDE DEF k, v4
  <2> QED
    BY <1>6, <2>1, <2>2, KeepsUnarming
<1> HIDE DEF v4
<1>8. /\ Unarming(v5, c) /\ ~v5.ctl[c].requestPending
      /\ v5.ctl[c].operation = s.ctl[c].operation
  <2> DEFINE g == v4.ctl[c].generation + 1
             k == [v4.ctl[c] EXCEPT !.generation = g]
  <2>0. v4.ctl[c] \in Controller /\ g \in Nat
    BY <1>7, StateParts DEF Controller, Unarming
  <2>1. /\ k \in Controller /\ k.operation = v4.ctl[c].operation
        /\ k.timeout = v4.ctl[c].timeout /\ k.requestPending = v4.ctl[c].requestPending
    <3> HIDE DEF g
    <3> QED
      BY <2>0 DEF Controller
  <2>2. v5 = [v4 EXCEPT !.ctl[c] = k]
    OBVIOUS
  <2> HIDE DEF k, v5
  <2> QED
    BY <1>7, <2>1, <2>2, KeepsUnarming
<1> HIDE DEF v5
<1>9. /\ Unarming(v6, c) /\ ~v6.ctl[c].requestPending
      /\ v6.ctl[c].operation = s.ctl[c].operation /\ c \notin v6.shared.waiters
  <2>1. v5 \in State /\ v5.shared \in Coordination
    BY <1>8, StateParts DEF Unarming
  <2>2. Touched(v5, v6)
    BY <2>1, RemoveWaiterTouches
  <2>3. c \notin v6.shared.waiters
    BY <2>1 DEF RemoveWaiter, State, Coordination
  <2> HIDE DEF v6
  <2> QED
    BY <1>8, <2>2, <2>3, TouchedUnarming DEF Touched, Alike
<1> HIDE DEF v6
<1>10. v6 \in State /\ Waiting(v6) /\ Budgeted(v6) /\ SoundBut(v6, c)
  BY <1>9 DEF Unarming, Waiting, SoundBut
<1>11. CASE s.ctl[c].operation.live /\ s.ctl[c].operation.callbackReceived
  <2>1. v6.shared.lease = c /\ v6.writes[c] = 0
    BY <1>9, <1>11 DEF Unarming
  <2>2. LET t == ClearOperation(v6, c)
        IN  /\ SoundBut(t, c) /\ Settles(t, c)
            /\ t.ctl[c].requestPending = v6.ctl[c].requestPending
    BY <1>10, <2>1, ClearSound
  <2>3. Sound(ClearOperation(v6, c))
    BY <1>9, <2>2 DEF SoundBut, Sound, Accounted
  <2> QED
    BY <1>1, <1>11, <2>3
<1>12. CASE ~(s.ctl[c].operation.live /\ s.ctl[c].operation.callbackReceived)
  <2> DEFINE k == [v6.ctl[c] EXCEPT !.settle = Unset]
  <2>1. /\ k \in Controller /\ k.operation = v6.ctl[c].operation /\ ~IsSet(k.settle)
        /\ k.timeout = v6.ctl[c].timeout /\ k.requestPending = v6.ctl[c].requestPending
    BY <1>10, StateParts, UnsetFacts DEF Controller
  <2>2. v7 = [v6 EXCEPT !.ctl[c] = k]
    OBVIOUS
  <2> HIDE DEF k, v7
  <2>3. /\ Unarming(v7, c) /\ v7.ctl[c] = k /\ v7.shared = v6.shared
    BY <1>9, <2>1, <2>2, KeepsUnarming
  <2>4. Settles(v7, c)
    BY <1>9, <1>12, <2>1, <2>3 DEF Unarming, Settles
  <2>5. Waiting(v7)
    BY <1>9, <2>3 DEF Unarming, Waiting
  <2>6. Sound(v7)
    BY <1>9, <2>1, <2>3, <2>4, <2>5 DEF Sound, Unarming, Accounted
  <2> QED
    BY <1>1, <1>12, <2>6
<1> QED
  BY <1>11, <1>12

LEMMA ResetSound ==
    ASSUME NEW c \in Controllers, NEW s, Sound(s)
    PROVE  Sound(Reset(s, c))
<1> DEFINE h == [s.shared EXCEPT !.attempts = NoAttempts, !.spent = NoAttempts,
                                 !.suspended = {}, !.cooling = {}]
           r == [s EXCEPT !.shared = h]
           u == Invalidate(r, c)
<1>1. s \in State /\ s.shared \in Coordination
  BY StateParts DEF Sound
<1>2. NoAttempts \in [Scopes -> Nat] /\ \A sc \in Scopes : NoAttempts[sc] = 0
  BY DEF NoAttempts
<1>3. /\ h \in Coordination /\ h.attempts = NoAttempts /\ h.spent = NoAttempts
      /\ h.lease = s.shared.lease /\ h.waiters = s.shared.waiters
  BY <1>1, <1>2 DEF Coordination
<1>4. ResetCoordination(s) = r
  BY DEF ResetCoordination
<1> HIDE DEF h
<1>5. r \in State /\ r.shared = h /\ r.ctl = s.ctl /\ r.writes = s.writes
  BY <1>1, <1>3, SharedSet
<1> HIDE DEF r
<1>6. Sound(r)
  <2>1. Budgeted(r)
    BY <1>2, <1>3, <1>5, RecoveryAssumption DEF Budgeted
  <2>2. Waiting(r) /\ \A d \in Controllers : Accounted(r, d)
    BY <1>3, <1>5 DEF Sound, Waiting, Accounted, Settles
  <2> QED
    BY <1>5, <2>1, <2>2 DEF Sound
<1>7. Sound(u)
  BY <1>6, SoundUnarming, InvalidateSound
<1>8. Reset(s, c) \in {u, ScheduleRequest(u, c)}
  BY <1>4 DEF Reset
<1> HIDE DEF u
<1>9. Sound(ScheduleRequest(u, c))
  BY <1>7, ScheduleRequestTouches, TouchedSound DEF Sound
<1> QED
  BY <1>7, <1>8, <1>9

LEMMA CancelSound ==
    ASSUME NEW c \in Controllers, NEW s, Sound(s)
    PROVE  Sound(Cancel(s, c))
<1> DEFINE k == [s.ctl[c] EXCEPT !.isArmed = FALSE]
           u == [s EXCEPT !.ctl[c] = k]
<1>1. s \in State
  BY DEF Sound
<1>2. k \in Controller /\ k.operation = s.ctl[c].operation /\ k.timeout = s.ctl[c].timeout
  BY <1>1, StateParts DEF Controller
<1>3. Cancel(s, c) = Invalidate(u, c)
  BY DEF Cancel
<1> HIDE DEF k
<1>4. Unarming(u, c)
  BY <1>2, SoundUnarming, KeepsUnarming
<1> HIDE DEF u
<1> QED
  BY <1>3, <1>4, InvalidateSound

LEMMA RequestSound ==
    ASSUME NEW c \in Controllers, NEW s, Sound(s)
    PROVE  Sound(Request(s, c))
<1>1. s \in State /\ s.ctl[c] \in Controller
  BY StateParts DEF Sound
<1>2. CASE s.ctl[c].isArmed
  BY <1>1, <1>2, ScheduleRequestTouches, TouchedSound DEF Request
<1>3. CASE ~s.ctl[c].isArmed
  <2> DEFINE k1 == [s.ctl[c] EXCEPT !.isArmed = TRUE]
             v1 == [s EXCEPT !.ctl[c] = k1]
             g == k1.generation + 1
             k2 == [k1 EXCEPT !.generation = g]
             v2 == [v1 EXCEPT !.ctl[c] = k2]
  <2>1. /\ k1 \in Controller /\ k2 \in Controller /\ k2.operation = s.ctl[c].operation
        /\ k2.timeout = s.ctl[c].timeout /\ k2.settle = s.ctl[c].settle
        /\ k2.requestPending = s.ctl[c].requestPending /\ k2.isArmed
    <3>0. k1 \in Controller
      BY <1>1 DEF Controller
    <3>1. k1 \in Controller /\ g \in Nat
      <4> HIDE DEF k1
      <4> QED
        BY <3>0 DEF Controller
    <3> HIDE DEF g
    <3> QED
      BY <1>1, <3>1 DEF Controller
  <2>2. v1.ctl[c] = k1 /\ v1 \in State /\ v1.shared = s.shared /\ v1.writes = s.writes
        /\ \A d \in Controllers : d # c => v1.ctl[d] = s.ctl[d]
    <3> HIDE DEF k1
    <3> QED
      BY <1>1, <2>1, CtlSet
  <2>3. Request(s, c) = ScheduleRequest(v2, c)
    <3>1. Request(s, c) = ScheduleRequest(AdvanceGeneration(v1, c), c)
      BY <1>3 DEF Request
    <3>2. AdvanceGeneration(v1, c) = v2
      BY <2>2 DEF AdvanceGeneration
    <3> QED
      BY <3>1, <3>2
  <2> HIDE DEF v1, k2
  <2>4. /\ v2 \in State /\ v2.ctl[c] = k2 /\ v2.shared = s.shared /\ v2.writes = s.writes
        /\ \A d \in Controllers : d # c => v2.ctl[d] = s.ctl[d]
    BY <2>1, <2>2, CtlSet
  <2> HIDE DEF v2
  <2>5. c \notin s.shared.waiters /\ ~IsSet(s.ctl[c].settle)
    BY <1>3 DEF Sound, Waiting, Accounted, Settles
  <2>6. Waiting(v2) /\ Budgeted(v2)
    BY <1>1, <2>4, <2>5, StateParts DEF Sound, Waiting, Budgeted, Coordination
  <2>7. \A d \in Controllers : d # c => Accounted(v2, d)
    BY <2>4 DEF Sound, Accounted, Settles
  <2>8. Accounted(v2, c)
    BY <2>1, <2>4, <2>5 DEF Sound, Accounted, Settles
  <2>9. Sound(v2)
    BY <2>4, <2>6, <2>7, <2>8 DEF Sound
  <2> QED
    BY <2>3, <2>4, <2>9, ScheduleRequestTouches, TouchedSound
<1> QED
  BY <1>2, <1>3
-----------------------------------------------------------------------------
(* Timers and callbacks.                                                    *)

LEMMA RestoreBudgetSound ==
    ASSUME NEW s, Sound(s), NEW sc \in Scopes
    PROVE  Sound(RestoreBudget(s, sc))
<1> DEFINE a == [s.shared.attempts EXCEPT ![sc] = 0]
           n == [s.shared.spent EXCEPT ![sc] = 0]
           h == [s.shared EXCEPT !.attempts = a, !.spent = n,
                                 !.suspended = @ \ {sc}, !.cooling = @ \ {sc}]
           r == [s EXCEPT !.shared = h]
           t == RestoreBudget(s, sc)
<1>1. /\ s \in State /\ s.shared \in Coordination
      /\ s.shared.attempts \in [Scopes -> Nat] /\ s.shared.spent \in [Scopes -> Nat]
  BY StateParts DEF Sound, Coordination
<1>2. a \in [Scopes -> Nat] /\ n \in [Scopes -> Nat]
  BY <1>1
<1>3. /\ h \in Coordination /\ h.attempts = a /\ h.spent = n
      /\ h.lease = s.shared.lease /\ h.waiters = s.shared.waiters
  <2> HIDE DEF a, n
  <2> QED
    BY <1>1, <1>2 DEF Coordination
<1>4. t = r
  <2>1. t.shared = h
    BY <1>1 DEF RestoreBudget, State, Coordination
  <2>2. t.ctl = s.ctl /\ t.writes = s.writes /\ DOMAIN t = {"ctl", "shared", "writes"}
    BY <1>1 DEF RestoreBudget, State
  <2> HIDE DEF h
  <2>3. r.shared = h /\ r.ctl = s.ctl /\ r.writes = s.writes /\ r \in State
    BY <1>1, <1>3, SharedSet
  <2>4. DOMAIN r = {"ctl", "shared", "writes"}
    BY <1>1 DEF State
  <2> QED
    BY <1>1, <2>1, <2>2, <2>3, <2>4 DEF RestoreBudget, State
<1> HIDE DEF h, t
<1>5. r \in State /\ r.shared = h /\ r.ctl = s.ctl /\ r.writes = s.writes
  BY <1>1, <1>3, SharedSet
<1> HIDE DEF r
<1>6. Budgeted(r)
  BY <1>1, <1>3, <1>5, RecoveryAssumption DEF Sound, Budgeted
<1>7. Waiting(r) /\ \A d \in Controllers : Accounted(r, d)
  BY <1>3, <1>5 DEF Sound, Waiting, Accounted, Settles
<1>8. Sound(r)
  BY <1>5, <1>6, <1>7 DEF Sound
<1> QED
  BY <1>4, <1>8 DEF t

\* The state between two turns.
RecoveryInvariant == Sound(Now) /\ observations \in Worlds

LEMMA NowFacts == Now.ctl = ctl /\ Now.shared = shared /\ Now.writes = writes
BY DEF Now

LEMMA BecomesSound ==
    ASSUME RecoveryInvariant, NEW t, Sound(t), Becomes(t)
    PROVE  RecoveryInvariant'
<1>1. ctl' = t.ctl /\ shared' = t.shared /\ writes' = t.writes /\ observations' = observations
  BY DEF Becomes
<1>2. t = [ctl |-> t.ctl, shared |-> t.shared, writes |-> t.writes]
  BY DEF Sound, State
<1>3. Now' = t
  BY <1>1, <1>2 DEF Now
<1>4. Sound(Now)' <=> Sound(Now')
  BY DEF Sound, State, Waiting, Budgeted, Accounted, Settles, IsSet
<1> QED
  BY <1>1, <1>3, <1>4 DEF RecoveryInvariant

LEMMA Observed ==
    ASSUME RecoveryInvariant, NEW c \in Controllers, NEW obs \in observations[c]
    PROVE  obs \in Observation /\ obs.scope \in Scopes
BY RecoveryAssumption DEF RecoveryInvariant, Observation

LEMMA RequestFiresSafe ==
    ASSUME RecoveryInvariant, NEW c \in Controllers, RequestFires(c)
    PROVE  RecoveryInvariant'
<1> DEFINE s == [Now EXCEPT !.ctl[c].request = Unset]
<1>1. Sound(Now) /\ Now \in State /\ Now.ctl[c] \in Controller
  BY StateParts DEF RecoveryInvariant, Sound
<1>2. Touched(Now, s)
  BY <1>1, CtlTouched, TimersSet, UnsetFacts
<1>3. Sound(s) /\ s.ctl[c].isArmed = ctl[c].isArmed
  BY <1>1, <1>2, TouchedSound, NowFacts DEF Touched, Alike
<1>4. \/ Becomes(s)
      \/ ctl[c].isArmed /\ \E obs \in observations[c] : Becomes(Reconcile(s, c, obs))
  BY DEF RequestFires, Valid
<1> HIDE DEF s
<1> QED
  BY <1>3, <1>4, Observed, ReconcileSound, BecomesSound

LEMMA RetryFiresSafe ==
    ASSUME RecoveryInvariant, NEW c \in Controllers, RetryFires(c)
    PROVE  RecoveryInvariant'
<1> DEFINE s == CancelRetryTask(Now, c)
<1>1. Sound(Now) /\ Now \in State
  BY DEF RecoveryInvariant, Sound
<1>2. Sound(s) /\ s.ctl[c].isArmed = ctl[c].isArmed
  BY <1>1, CancelRetryTouches, TouchedSound, NowFacts DEF Touched, Alike
<1>3. \/ Becomes(s)
      \/ ctl[c].isArmed /\ \E obs \in observations[c] : Becomes(Reconcile(s, c, obs))
  BY DEF RetryFires, Valid
<1> HIDE DEF s
<1> QED
  BY <1>2, <1>3, Observed, ReconcileSound, BecomesSound

LEMMA StableFiresSafe ==
    ASSUME RecoveryInvariant, NEW c \in Controllers, StableFires(c)
    PROVE  RecoveryInvariant'
<1> DEFINE s == CancelStableTask(Now, c)
           sc == ctl[c].stable.scope
<1>1. Sound(Now) /\ Now \in State
  BY DEF RecoveryInvariant, Sound
<1>2. Sound(s) /\ s \in State /\ s.ctl[c].isArmed = ctl[c].isArmed
  BY <1>1, CancelStableTouches, TouchedSound, NowFacts DEF Touched, Alike
<1>3. CASE Becomes(s)
  BY <1>2, <1>3, BecomesSound
<1>4. CASE /\ ctl[c].isArmed
           /\ \E obs \in observations[c] :
                  LET u == UpdateCurrentScope(s, c, obs.scope)
                  IN Becomes(IF obs.scope = sc /\ obs.ready /\ obs.matches
                             THEN RestoreBudget(u, sc)
                             ELSE Process(u, c, obs, TRUE))
  <2>1. PICK obs \in observations[c] :
            LET u == UpdateCurrentScope(s, c, obs.scope)
            IN Becomes(IF obs.scope = sc /\ obs.ready /\ obs.matches
                       THEN RestoreBudget(u, sc)
                       ELSE Process(u, c, obs, TRUE))
    BY <1>4
  <2> DEFINE u == UpdateCurrentScope(s, c, obs.scope)
  <2>2. obs \in Observation /\ obs.scope \in Scopes
    BY Observed
  <2> HIDE DEF s
  <2>3. Sound(u) /\ u.ctl[c].isArmed
    <3>1. Touched(s, u)
      BY <1>2, <2>2, UpdateCurrentScopeTouches
    <3> HIDE DEF u
    <3> QED
      BY <1>2, <1>4, <3>1, TouchedSound DEF Touched, Alike
  <2>4. \/ obs.scope = sc /\ Becomes(RestoreBudget(u, sc))
        \/ Becomes(Process(u, c, obs, TRUE))
    BY <2>1
  <2> HIDE DEF u
  <2> QED
    BY <2>2, <2>3, <2>4, RestoreBudgetSound, ProcessSound, BecomesSound
<1> QED
  BY <1>3, <1>4 DEF StableFires, Valid

LEMMA SettleFiresSafe ==
    ASSUME RecoveryInvariant, NEW c \in Controllers, SettleFires(c)
    PROVE  RecoveryInvariant'
<1> DEFINE k == [ctl[c] EXCEPT !.settle = Unset]
           s == [Now EXCEPT !.ctl[c] = k]
           op == ctl[c].operation
<1>1. /\ Sound(Now) /\ Now \in State /\ ctl[c] \in Controller /\ Accounted(Now, c)
      /\ shared.waiters \subseteq Controllers
  BY NowFacts, StateParts DEF RecoveryInvariant, Sound, Coordination
<1>2. /\ op.live /\ Valid(c, op.gen) /\ op.callbackReceived
      /\ shared.lease = c /\ writes[c] = 0
  BY <1>1, NowFacts DEF SettleFires, Accounted, Settles, Valid
<1>3. PICK obs \in observations[c] :
          LET u == Process(UpdateCurrentScope(s, c, obs.scope), c, obs, FALSE)
          IN Becomes(SchedulePendingRequest(ClearOperation(u, c), c, obs.scope # op.scope))
  BY <1>2, NowFacts DEF SettleFires
<1>4. obs \in Observation /\ obs.scope \in Scopes
  BY Observed
<1>5. k \in Controller /\ k.isArmed = ctl[c].isArmed
  BY <1>1, UnsetFacts DEF Controller
<1> HIDE DEF k
<1>6. /\ s \in State /\ s.ctl[c] = k /\ s.shared = shared /\ s.writes = writes
      /\ \A d \in Controllers : d # c => s.ctl[d] = ctl[d]
  BY <1>1, <1>5, CtlSet, NowFacts
<1> HIDE DEF s
<1>7. SoundBut(s, c)
  <2>1. Waiting(s) /\ Budgeted(s)
    BY <1>1, <1>5, <1>6, NowFacts DEF Sound, Waiting, Budgeted
  <2>2. \A d \in Controllers \ {c} : Accounted(s, d)
    BY <1>1, <1>6, NowFacts DEF Sound, Accounted, Settles
  <2> QED
    BY <1>6, <2>1, <2>2 DEF SoundBut
<1> DEFINE v == UpdateCurrentScope(s, c, obs.scope)
           u == Process(v, c, obs, FALSE)
           w == ClearOperation(u, c)
<1>8. Touched(s, u)
  <2>1. Touched(s, v) /\ v \in State
    BY <1>4, <1>6, UpdateCurrentScopeTouches DEF Touched
  <2> HIDE DEF v
  <2> QED
    BY <1>4, <2>1, ProcessTouches, TouchedTwice
<1>9. Becomes(SchedulePendingRequest(w, c, obs.scope # op.scope))
  BY <1>3
<1> HIDE DEF v, u
<1>10. SoundBut(u, c) /\ u.shared.lease = c /\ u.writes[c] = 0
  BY <1>2, <1>6, <1>7, <1>8, TouchedAccounted, TouchedShared DEF SoundBut, Touched
<1>11. SoundBut(w, c) /\ Settles(w, c)
  BY <1>10, ClearSound
<1> HIDE DEF w
<1>12. \A f \in BOOLEAN : Sound(SchedulePendingRequest(w, c, f))
  BY <1>11, PendingSound
<1>13. (obs.scope # op.scope) \in BOOLEAN
  OBVIOUS
<1>14. Sound(SchedulePendingRequest(w, c, obs.scope # op.scope))
  BY <1>12, <1>13
<1> QED
  BY <1>9, <1>14, BecomesSound

LEMMA TimeoutFiresSafe ==
    ASSUME RecoveryInvariant, NEW c \in Controllers, TimeoutFires(c)
    PROVE  RecoveryInvariant'
<1> DEFINE op == ctl[c].operation
           k == [ctl[c] EXCEPT !.timeout = Unset]
           o == [op EXCEPT !.timedOut = TRUE]
           m == [k EXCEPT !.operation = o]
           s == [Now EXCEPT !.ctl[c] = k]
           u == [s EXCEPT !.ctl[c] = m]
<1>1. /\ Sound(Now) /\ Now \in State /\ ctl[c] \in Controller /\ Settles(Now, c)
      /\ shared.waiters \subseteq Controllers /\ op \in Operation
  BY NowFacts, StateParts DEF RecoveryInvariant, Sound, Coordination, Accounted, Controller
<1>2. o \in Operation /\ o.live = op.live /\ o.callbackReceived = op.callbackReceived
      /\ o.timedOut /\ o.scope = op.scope /\ o.gen = op.gen
  BY <1>1 DEF Operation
<1>3. /\ k \in Controller /\ k.operation = op /\ k.settle = ctl[c].settle
      /\ k.isArmed = ctl[c].isArmed /\ k.requestPending = ctl[c].requestPending
      /\ k.generation = ctl[c].generation
  BY <1>1, UnsetFacts DEF Controller
<1>4. /\ m \in Controller /\ m.operation = o /\ m.settle = ctl[c].settle
      /\ m.isArmed = ctl[c].isArmed /\ m.requestPending = ctl[c].requestPending
      /\ m.generation = ctl[c].generation
  <2> HIDE DEF k, o
  <2> QED
    BY <1>2, <1>3 DEF Controller
<1>5. Becomes(TimeoutHandler(s, c))
  BY NowFacts DEF TimeoutFires
<1>6. /\ s \in State /\ s.ctl[c] = k /\ s.shared = shared /\ s.writes = writes
      /\ \A d \in Controllers : d # c => s.ctl[d] = ctl[d]
  <2> HIDE DEF k
  <2> QED
    BY <1>1, <1>3, CtlSet, NowFacts
<1>7. /\ u \in State /\ u.ctl[c] = m /\ u.shared = shared /\ u.writes = writes
      /\ \A d \in Controllers : d # c => u.ctl[d] = ctl[d]
  <2> HIDE DEF s, m
  <2> QED
    BY <1>4, <1>6, CtlSet
<1>8. \/ TimeoutHandler(s, c) = s /\ (~op.live \/ op.callbackReceived \/ op.timedOut)
      \/ TimeoutHandler(s, c) = Suspend(u, c, op.scope) /\ op.live
  <2> HIDE DEF s
  <2> QED
    BY <1>3, <1>6 DEF TimeoutHandler
<1> HIDE DEF s, u, k, m, o
<1>9. CASE TimeoutHandler(s, c) = s /\ (~op.live \/ op.callbackReceived \/ op.timedOut)
  <2>1. Waiting(s) /\ Budgeted(s)
    BY <1>1, <1>3, <1>6, NowFacts DEF Sound, Waiting, Budgeted
  <2>2. \A d \in Controllers \ {c} : Accounted(s, d)
    BY <1>1, <1>6, NowFacts DEF Sound, Accounted, Settles
  <2>3. Accounted(s, c)
    BY <1>1, <1>3, <1>6, <1>9, NowFacts DEF Sound, Accounted, Settles
  <2>4. Sound(s)
    BY <1>6, <2>1, <2>2, <2>3 DEF Sound
  <2> QED
    BY <1>5, <1>9, <2>4, BecomesSound
<1>10. CASE TimeoutHandler(s, c) = Suspend(u, c, op.scope) /\ op.live
  <2>1. Waiting(u) /\ Budgeted(u)
    BY <1>1, <1>4, <1>7, NowFacts DEF Sound, Waiting, Budgeted
  <2>2. \A d \in Controllers \ {c} : Accounted(u, d)
    BY <1>1, <1>7, NowFacts DEF Sound, Accounted, Settles
  <2>3. Accounted(u, c)
    BY <1>1, <1>2, <1>4, <1>7, NowFacts DEF Sound, Accounted, Settles
  <2>4. Sound(u)
    BY <1>7, <2>1, <2>2, <2>3 DEF Sound
  <2>5. op.scope \in Scopes
    BY <1>1, <1>10, NowFacts DEF Settles
  <2>6. Sound(Suspend(u, c, op.scope))
    BY <1>7, <2>4, <2>5, SuspendTouches, TouchedSound
  <2> QED
    BY <1>5, <1>10, <2>6, BecomesSound
<1> QED
  BY <1>8, <1>9, <1>10

LEMMA CallbackSafe ==
    ASSUME RecoveryInvariant, NEW c \in Controllers, CallbackArrives(c)
    PROVE  RecoveryInvariant'
<1> DEFINE op == ctl[c].operation
           o == [op EXCEPT !.callbackReceived = TRUE]
           k == [ctl[c] EXCEPT !.operation = o, !.timeout = Unset]
           timer == [gen |-> op.gen, scope |-> op.scope]
           m == [k EXCEPT !.settle = timer]
           s == [Now EXCEPT !.writes[c] = @ - 1]
           got == [s EXCEPT !.ctl[c].operation.callbackReceived = TRUE, !.ctl[c].timeout = Unset]
           u == [s EXCEPT !.ctl[c] = k]
           v == [u EXCEPT !.ctl[c] = m]
<1>1. /\ Sound(Now) /\ Now \in State /\ ctl[c] \in Controller /\ Accounted(Now, c)
      /\ shared.waiters \subseteq Controllers /\ op \in Operation
      /\ writes \in [Controllers -> Nat]
  BY NowFacts, StateParts DEF RecoveryInvariant, Sound, Coordination, Controller
<1>2. /\ op.live /\ ~op.callbackReceived /\ shared.lease = c /\ writes[c] = 1
      /\ op.scope \in Scopes /\ op.gen \in Nat
  BY <1>1, NowFacts DEF CallbackArrives, Accounted, Settles, Operation
<1>3. o \in Operation /\ o.live /\ o.callbackReceived /\ o.scope = op.scope /\ o.gen = op.gen
  BY <1>1, <1>2 DEF Operation
<1>4. /\ k \in Controller /\ k.operation = o /\ k.settle = ctl[c].settle
      /\ k.isArmed = ctl[c].isArmed /\ k.requestPending = ctl[c].requestPending
      /\ k.generation = ctl[c].generation
  <2> HIDE DEF o
  <2> QED
    BY <1>1, <1>3, UnsetFacts DEF Controller
<1>5. timer \in Timer /\ IsSet(timer)
  BY <1>2, TimerFacts
<1>6. /\ m \in Controller /\ m.operation = o /\ m.settle = timer
      /\ m.isArmed = ctl[c].isArmed /\ m.generation = ctl[c].generation
  <2> HIDE DEF k, timer
  <2> QED
    BY <1>4, <1>5 DEF Controller
<1>7. /\ s \in State /\ s.ctl = ctl /\ s.shared = shared /\ s.writes[c] = 0
      /\ \A d \in Controllers : d # c => s.writes[d] = writes[d]
  BY <1>1, <1>2, NowFacts DEF State
<1>8. Becomes(CallbackHandler(s, c))
  BY DEF CallbackArrives
<1>9. got = u
  BY <1>7 DEF State
<1>10. /\ u \in State /\ u.ctl[c] = k /\ u.shared = shared /\ u.writes = s.writes
       /\ \A d \in Controllers : d # c => u.ctl[d] = ctl[d]
  <2> HIDE DEF s, k
  <2> QED
    BY <1>4, <1>7, CtlSet
<1>11. /\ v \in State /\ v.ctl[c] = m /\ v.shared = shared /\ v.writes = s.writes
       /\ \A d \in Controllers : d # c => v.ctl[d] = ctl[d]
  <2> HIDE DEF u, m
  <2> QED
    BY <1>6, <1>10, CtlSet
<1>12. \/ CallbackHandler(s, c) = SchedulePendingRequest(ClearOperation(got, c), c, FALSE)
       \/ /\ CallbackHandler(s, c) = [got EXCEPT !.ctl[c].settle = timer]
          /\ Valid(c, op.gen)
  <2>1. s.ctl[c].operation = op
    BY <1>7
  <2> HIDE DEF s
  <2> QED
    BY <1>2, <2>1 DEF CallbackHandler
<1>13. [got EXCEPT !.ctl[c].settle = timer] = v
  <2> HIDE DEF got, u, k, s
  <2> QED
    BY <1>9, <1>10
<1> HIDE DEF got, u, v, k, m, o, s, timer
<1>14. CASE CallbackHandler(s, c) = SchedulePendingRequest(ClearOperation(got, c), c, FALSE)
  <2>1. Waiting(u) /\ Budgeted(u)
    BY <1>1, <1>4, <1>10, NowFacts DEF Sound, Waiting, Budgeted
  <2>2. \A d \in Controllers \ {c} : Accounted(u, d)
    BY <1>1, <1>7, <1>10, NowFacts DEF Sound, Accounted, Settles
  <2>3. SoundBut(u, c)
    BY <1>10, <2>1, <2>2 DEF SoundBut
  <2>4. SoundBut(ClearOperation(u, c), c) /\ Settles(ClearOperation(u, c), c)
    BY <1>2, <1>7, <1>10, <2>3, ClearSound
  <2>5. Sound(SchedulePendingRequest(ClearOperation(u, c), c, FALSE))
    BY <2>4, PendingSound
  <2> QED
    BY <1>8, <1>9, <1>14, <2>5, BecomesSound
<1>15. CASE CallbackHandler(s, c) = v /\ Valid(c, op.gen)
  <2>1. Waiting(v) /\ Budgeted(v)
    BY <1>1, <1>6, <1>11, NowFacts DEF Sound, Waiting, Budgeted
  <2>2. \A d \in Controllers \ {c} : Accounted(v, d)
    BY <1>1, <1>7, <1>11, NowFacts DEF Sound, Accounted, Settles
  <2>3. Accounted(v, c)
    BY <1>2, <1>3, <1>5, <1>6, <1>7, <1>11, <1>15 DEF Accounted, Settles, Valid
  <2>4. Sound(v)
    BY <1>11, <2>1, <2>2, <2>3 DEF Sound
  <2> QED
    BY <1>8, <1>15, <2>4, BecomesSound
<1> QED
  BY <1>12, <1>13, <1>14, <1>15

LEMMA CooldownEndsSafe ==
    ASSUME RecoveryInvariant, CooldownEnds
    PROVE  RecoveryInvariant'
<1>1. PICK sc \in shared.cooling : Becomes([Now EXCEPT !.shared.cooling = @ \ {sc}])
  BY DEF CooldownEnds
<1> DEFINE h == [shared EXCEPT !.cooling = @ \ {sc}]
           t == [Now EXCEPT !.shared = h]
<1>2. Sound(Now) /\ Now \in State /\ shared \in Coordination
  BY NowFacts, StateParts DEF RecoveryInvariant, Sound
<1>3. /\ h \in Coordination /\ h.lease = shared.lease /\ h.waiters = shared.waiters
      /\ h.attempts = shared.attempts /\ h.spent = shared.spent
  BY <1>2 DEF Coordination
<1>4. Becomes(t)
  BY <1>1, NowFacts
<1> HIDE DEF h
<1>5. t \in State /\ t.shared = h /\ t.ctl = ctl /\ t.writes = writes
  BY <1>2, <1>3, SharedSet, NowFacts
<1> HIDE DEF t
<1>6. Touched(Now, t)
  BY <1>3, <1>5, NowFacts DEF Touched, Alike
<1> QED
  BY <1>2, <1>4, <1>6, TouchedSound, BecomesSound
-----------------------------------------------------------------------------
(* The specification.                                                       *)

LEMMA InitSafe ==
    ASSUME Init
    PROVE  RecoveryInvariant
<1>1. /\ Fresh \in Controller /\ Fresh.operation = NoOperation /\ ~Fresh.requestPending
      /\ Fresh.settle = Unset
  BY NoOperationFits, UnsetFacts DEF Fresh, Controller
<1>2. NoAttempts \in [Scopes -> Nat] /\ \A sc \in Scopes : NoAttempts[sc] = 0
  BY DEF NoAttempts
<1>3. /\ shared.attempts = NoAttempts /\ shared.spent = NoAttempts
      /\ shared.lease = None /\ shared.waiters = {} /\ shared \in Coordination
  BY <1>2 DEF Init, Coordination
<1>4. /\ ctl \in [Controllers -> Controller] /\ writes \in [Controllers -> Nat]
      /\ \A c \in Controllers : ctl[c] = Fresh /\ writes[c] = 0
  BY <1>1 DEF Init
<1>5. Now \in State
  BY <1>3, <1>4 DEF Now, State
<1>6. Waiting(Now) /\ Budgeted(Now)
  BY <1>2, <1>3, NowFacts, RecoveryAssumption DEF Waiting, Budgeted
<1>7. \A c \in Controllers : Accounted(Now, c)
  BY <1>1, <1>3, <1>4, NowFacts, NoOperationFits, UnsetFacts, RecoveryAssumption
     DEF Accounted, Settles
<1> QED
  BY <1>5, <1>6, <1>7 DEF RecoveryInvariant, Sound, Init

LEMMA CallSafe ==
    ASSUME RecoveryInvariant, Call
    PROVE  RecoveryInvariant'
<1>1. Sound(Now) /\ SystemProxy \in Controllers /\ ClaudeRuleMode \in Controllers
  BY DEF RecoveryInvariant, Controllers
<1>2. CASE RequestBoth
  BY <1>1, <1>2, RequestSound, BecomesSound DEF RequestBoth
<1>3. CASE RequestRuleMode
  BY <1>1, <1>3, RequestSound, BecomesSound DEF RequestRuleMode
<1>4. CASE ResetBoth
  BY <1>1, <1>4, ResetSound, BecomesSound DEF ResetBoth
<1>5. CASE CancelBoth
  BY <1>1, <1>5, CancelSound, BecomesSound DEF CancelBoth
<1>6. CASE CancelSystemProxy
  BY <1>1, <1>6, CancelSound, BecomesSound DEF CancelSystemProxy
<1> QED
  BY <1>2, <1>3, <1>4, <1>5, <1>6 DEF Call

LEMMA NextSafe ==
    ASSUME RecoveryInvariant, [Next]_vars
    PROVE  RecoveryInvariant'
<1>1. CASE UNCHANGED vars
  <2>1. Becomes(Now)
    BY <1>1, NowFacts DEF vars, Becomes
  <2> QED
    BY <2>1, BecomesSound DEF RecoveryInvariant
<1> QED
  BY <1>1, CallSafe, CooldownEndsSafe, CallbackSafe, RequestFiresSafe, RetryFiresSafe,
     StableFiresSafe, SettleFiresSafe, TimeoutFiresSafe DEF Next, Fires

\* The inductive invariant, for any scopes, observations and number of attempts.
THEOREM RecoveryCorrect == Spec => []RecoveryInvariant
BY InitSafe, NextSafe, PTL DEF Spec

\* TypeOK
THEOREM TypeCorrect == Spec => []TypeOK
<1>1. RecoveryInvariant => TypeOK
  BY StateParts, NowFacts DEF RecoveryInvariant, Sound, TypeOK
<1> QED
  BY <1>1, RecoveryCorrect, PTL

\* LeaseAccounted, and with it OneWriteInFlight: the lease, the operation, its
\* timers and its write belong together, and no two writes are under way.
THEOREM LeaseAccountedCorrect == Spec => []LeaseAccounted
<1>1. RecoveryInvariant => OneWriteInFlight
  BY NowFacts DEF RecoveryInvariant, Sound, Accounted, Settles, OneWriteInFlight
<1>2. RecoveryInvariant => LeaseAccounted
  BY <1>1, NowFacts
     DEF RecoveryInvariant, Sound, Accounted, Settles, Waiting, Valid, LeaseAccounted
<1> QED
  BY <1>2, RecoveryCorrect, PTL

\* OneWriteInFlight: two helper writes never overlap.
THEOREM OneWriteInFlightCorrect == Spec => []OneWriteInFlight
<1>1. LeaseAccounted => OneWriteInFlight
  BY DEF LeaseAccounted
<1> QED
  BY <1>1, LeaseAccountedCorrect, PTL

\* BudgetShared: the controllers together begin at most MaxAttempts writes for a
\* scope until its budget is renewed.
THEOREM BudgetSharedCorrect == Spec => []BudgetShared
<1>1. RecoveryInvariant => BudgetShared
  <2> SUFFICES ASSUME RecoveryInvariant, NEW sc \in Scopes
               PROVE  shared.spent[sc] <= MaxAttempts
    BY DEF BudgetShared
  <2>1. shared \in Coordination /\ Budgeted(Now)
    BY NowFacts, StateParts DEF RecoveryInvariant, Sound
  <2> QED
    BY <2>1, NowFacts, RecoveryAssumption DEF Budgeted, Coordination
<1> QED
  BY <1>1, RecoveryCorrect, PTL

-----------------------------------------------------------------------------
(* A lease ends.  While it is held no turn begins a write, and none hands   *)
(* it on: what a turn does to it is to keep it or to free it.               *)

Frees(s, t) ==
    t \in State /\ t.writes = s.writes /\ t.shared.lease \in {s.shared.lease, None}

LEMMA FreesTwice ==
    ASSUME NEW s, NEW t, NEW u, Frees(s, t), Frees(t, u)
    PROVE  Frees(s, u)
BY DEF Frees

LEMMA TouchedFrees ==
    ASSUME NEW s, NEW t, Touched(s, t)
    PROVE  Frees(s, t)
BY DEF Touched, Frees

LEMMA ReleaseFrees ==
    ASSUME NEW s \in State
    PROVE  Frees(s, Release(s)) /\ Release(s).shared.lease = None
<1> DEFINE h == [s.shared EXCEPT !.lease = None, !.waiters = {}]
           m == [d \in Controllers |-> IF d \in s.shared.waiters /\ s.ctl[d].isArmed
                                       THEN ScheduleRequest(s, d).ctl[d] ELSE s.ctl[d]]
           t == Release(s)
<1>1. s.shared \in Coordination /\ h \in Coordination /\ h.lease = None
  BY StateParts DEF Coordination
<1>2. m \in [Controllers -> Controller]
  <2>1. \A d \in Controllers : ScheduleRequest(s, d).ctl[d] \in Controller
    BY ScheduleRequestTouches, StateParts DEF Touched
  <2> QED
    BY <2>1, StateParts
<1>3. t = [[s EXCEPT !.shared = h] EXCEPT !.ctl = m]
  BY <1>1 DEF Release, State
<1> HIDE DEF h, m, t
<1>4. t.shared = h /\ t.writes = s.writes /\ t \in State
  BY <1>1, <1>2, <1>3 DEF State
<1> QED
  BY <1>1, <1>4 DEF Frees, t

LEMMA ClearFrees ==
    ASSUME NEW s \in State, NEW c \in Controllers
    PROVE  /\ Frees(s, ClearOperation(s, c))
           /\ s.shared.lease = c => ClearOperation(s, c).shared.lease = None
<1> DEFINE u == [s EXCEPT !.ctl[c].operation = NoOperation, !.ctl[c].settle = Unset,
                          !.ctl[c].timeout = Unset]
<1>1. u.shared = s.shared /\ u.writes = s.writes
  BY DEF State
<1>2. ClearOperation(s, c) = IF s.shared.lease = c THEN Release(u) ELSE u
  BY DEF ClearOperation
<1>3. u \in State
  <2>1. s.ctl[c] \in Controller
    BY StateParts
  <2> DEFINE k == [s.ctl[c] EXCEPT !.operation = NoOperation, !.settle = Unset, !.timeout = Unset]
  <2>2. k \in Controller
    BY <2>1, NoOperationFits, UnsetFacts DEF Controller
  <2>3. u = [s EXCEPT !.ctl[c] = k]
    BY <2>1 DEF State, Controller
  <2> HIDE DEF k
  <2> QED
    BY <2>2, <2>3, CtlSet
<1> HIDE DEF u
<1> QED
  BY <1>1, <1>2, <1>3, ReleaseFrees DEF Frees

LEMMA SetFrees ==
    ASSUME NEW s \in State, NEW c \in Controllers, NEW k \in Controller
    PROVE  Frees(s, [s EXCEPT !.ctl[c] = k])
BY CtlSet DEF Frees

LEMMA PendingFrees ==
    ASSUME NEW s \in State, NEW c \in Controllers, NEW force \in BOOLEAN
    PROVE  Frees(s, SchedulePendingRequest(s, c, force))
<1> DEFINE k == [s.ctl[c] EXCEPT !.requestPending = FALSE]
           u == [s EXCEPT !.ctl[c] = k]
<1>1. k \in Controller
  BY StateParts DEF Controller
<1>2. SchedulePendingRequest(s, c, force) \in {u, ScheduleRequest(u, c)}
  BY DEF SchedulePendingRequest
<1> HIDE DEF k
<1>3. Frees(s, u) /\ u \in State
  BY <1>1, SetFrees DEF Frees
<1> HIDE DEF u
<1> QED
  BY <1>2, <1>3, ScheduleRequestTouches, TouchedFrees, FreesTwice

\* Looking at an observation: with the lease taken, even a write that is due waits.
LEMMA ProcessFrees ==
    ASSUME NEW c \in Controllers, NEW s \in State, NEW obs \in Observation,
           s.shared.lease # None
    PROVE  Frees(s, Process(s, c, obs, TRUE))
<1> DEFINE sc == obs.scope
           m == CancelStableTask(s, c)
           u == CancelRetryTask(m, c)
           h == [u.shared EXCEPT !.waiters = @ \cup {c}]
<1>1. Touched(s, u)
  <2>1. Touched(s, m) /\ m \in State
    BY CancelStableTouches DEF Touched
  <2> HIDE DEF m
  <2> QED
    BY <2>1, CancelRetryTouches, TouchedTwice
<1>2. \/ Process(s, c, obs, TRUE) = Process(s, c, obs, FALSE)
      \/ Process(s, c, obs, TRUE) = BeginApply(u, c, sc)
  BY DEF Process
<1> HIDE DEF u
<1>3. u \in State /\ u.shared \in Coordination /\ u.shared.lease = s.shared.lease
      /\ u.writes = s.writes
  BY <1>1, StateParts DEF Touched
<1>4. BeginApply(u, c, sc) = [u EXCEPT !.shared = h]
  BY <1>3 DEF BeginApply
<1>5. h \in Coordination /\ h.lease = s.shared.lease
  BY <1>3 DEF Coordination
<1> HIDE DEF h
<1>6. Frees(s, BeginApply(u, c, sc))
  BY <1>3, <1>4, <1>5, SharedSet DEF Frees
<1> QED
  BY <1>2, <1>6, ProcessTouches, TouchedFrees

LEMMA ReconcileFrees ==
    ASSUME NEW c \in Controllers, NEW s \in State, NEW obs \in Observation,
           s.shared.lease # None
    PROVE  Frees(s, Reconcile(s, c, obs))
<1> DEFINE k == [s.ctl[c] EXCEPT !.requestPending = TRUE]
           u == UpdateCurrentScope(s, c, obs.scope)
<1>1. k \in Controller
  BY StateParts DEF Controller
<1>2. Reconcile(s, c, obs) \in {[s EXCEPT !.ctl[c] = k], Process(u, c, obs, TRUE)}
  BY DEF Reconcile
<1>3. Touched(s, u) /\ u \in State
  BY UpdateCurrentScopeTouches DEF Touched, Observation
<1> HIDE DEF k, u
<1>4. Frees(s, Process(u, c, obs, TRUE))
  BY <1>3, ProcessFrees, TouchedFrees, FreesTwice DEF Touched
<1> QED
  BY <1>1, <1>2, <1>4, SetFrees

LEMMA InvalidateFrees ==
    ASSUME NEW s \in State, NEW c \in Controllers
    PROVE  Frees(s, Invalidate(s, c))
<1> DEFINE v1 == [s EXCEPT !.ctl[c].request = Unset]
           v2 == CancelRetryTask(v1, c)
           v3 == CancelStableTask(v2, c)
           v4 == [v3 EXCEPT !.ctl[c].requestPending = FALSE]
           v5 == [v4 EXCEPT !.ctl[c].generation = @ + 1]
           v6 == RemoveWaiter(v5, c)
           v7 == [v6 EXCEPT !.ctl[c].settle = Unset]
<1>1. Invalidate(s, c) \in {ClearOperation(v6, c), v7}
  BY DEF Invalidate, AdvanceGeneration, RemoveWaiter, CancelRetryTask, CancelStableTask
<1>2. ASSUME NEW v \in State
      PROVE  /\ Frees(v, [v EXCEPT !.ctl[c].request = Unset])
             /\ Frees(v, [v EXCEPT !.ctl[c].requestPending = FALSE])
             /\ Frees(v, [v EXCEPT !.ctl[c].generation = @ + 1])
             /\ Frees(v, [v EXCEPT !.ctl[c].settle = Unset])
  <2>1. v.ctl[c] \in Controller
    BY StateParts
  <2>2. /\ [v.ctl[c] EXCEPT !.request = Unset] \in Controller
        /\ [v.ctl[c] EXCEPT !.requestPending = FALSE] \in Controller
        /\ [v.ctl[c] EXCEPT !.settle = Unset] \in Controller
    BY <2>1, UnsetFacts DEF Controller
  <2>3. [v.ctl[c] EXCEPT !.generation = @ + 1] \in Controller
    <3> DEFINE g == v.ctl[c].generation + 1
    <3>1. g \in Nat
      BY <2>1 DEF Controller
    <3> HIDE DEF g
    <3>2. [v.ctl[c] EXCEPT !.generation = g] \in Controller
      BY <2>1, <3>1 DEF Controller
    <3> QED
      BY <3>2 DEF g
  <2> QED
    BY <2>2, <2>3, SetFrees
<1>3. Frees(s, v1) /\ v1 \in State
  BY <1>2 DEF Frees
<1> HIDE DEF v1
<1>4. Frees(v1, v2) /\ v2 \in State
  BY <1>3, CancelRetryTouches, TouchedFrees DEF Frees
<1> HIDE DEF v2
<1>5. Frees(v2, v3) /\ v3 \in State
  BY <1>4, CancelStableTouches, TouchedFrees DEF Frees
<1> HIDE DEF v3
<1>6. Frees(v3, v4) /\ v4 \in State
  BY <1>2, <1>5 DEF Frees
<1> HIDE DEF v4
<1>7. Frees(v4, v5) /\ v5 \in State
  BY <1>2, <1>6 DEF Frees
<1> HIDE DEF v5
<1>8. Frees(v5, v6) /\ v6 \in State
  BY <1>7, RemoveWaiterTouches, TouchedFrees DEF Frees
<1>9. Frees(s, v6)
  <2> HIDE DEF v6
  <2> QED
    BY <1>3, <1>4, <1>5, <1>6, <1>7, <1>8, FreesTwice
<1> HIDE DEF v6
<1>10. Frees(v6, v7) /\ Frees(v6, ClearOperation(v6, c))
  BY <1>2, <1>8, ClearFrees
<1> HIDE DEF v7
<1> QED
  BY <1>1, <1>9, <1>10, FreesTwice

LEMMA CallFrees ==
    ASSUME NEW s \in State, NEW c \in Controllers
    PROVE  Frees(s, Request(s, c)) /\ Frees(s, Reset(s, c)) /\ Frees(s, Cancel(s, c))
<1>1. ASSUME NEW b \in BOOLEAN
      PROVE  LET t == [s EXCEPT !.ctl[c].isArmed = b] IN Frees(s, t) /\ t \in State
  <2>1. [s.ctl[c] EXCEPT !.isArmed = b] \in Controller
    BY StateParts DEF Controller
  <2> QED
    BY <2>1, SetFrees DEF Frees
<1>2. Frees(s, Request(s, c))
  <2> DEFINE v1 == [s EXCEPT !.ctl[c].isArmed = TRUE]
             g == v1.ctl[c].generation + 1
             k == [v1.ctl[c] EXCEPT !.generation = g]
             v2 == [v1 EXCEPT !.ctl[c] = k]
  <2>1. Frees(s, v1) /\ v1 \in State
    BY <1>1
  <2>2. Request(s, c) \in {ScheduleRequest(s, c), ScheduleRequest(v2, c)}
    BY DEF Request, AdvanceGeneration
  <2> HIDE DEF v1
  <2>3. v1.ctl[c] \in Controller /\ g \in Nat
    BY <2>1, StateParts DEF Controller
  <2> HIDE DEF g
  <2>4. k \in Controller
    BY <2>3 DEF Controller
  <2> HIDE DEF k
  <2>5. Frees(s, v2) /\ v2 \in State
    BY <2>1, <2>4, SetFrees, FreesTwice DEF Frees
  <2> HIDE DEF v2
  <2> QED
    BY <2>2, <2>5, ScheduleRequestTouches, TouchedFrees, FreesTwice
<1>3. Frees(s, Reset(s, c))
  <2> DEFINE h == [s.shared EXCEPT !.attempts = NoAttempts, !.spent = NoAttempts,
                                   !.suspended = {}, !.cooling = {}]
             r == [s EXCEPT !.shared = h]
             u == Invalidate(r, c)
  <2>1. h \in Coordination /\ h.lease = s.shared.lease
    BY StateParts DEF Coordination, NoAttempts
  <2>2. Reset(s, c) \in {u, ScheduleRequest(u, c)}
    BY DEF Reset, ResetCoordination
  <2> HIDE DEF h
  <2>3. Frees(s, r) /\ r \in State
    BY <2>1, SharedSet DEF Frees
  <2> HIDE DEF r
  <2>4. Frees(s, u) /\ u \in State
    BY <2>3, InvalidateFrees, FreesTwice DEF Frees
  <2> HIDE DEF u
  <2> QED
    BY <2>2, <2>4, ScheduleRequestTouches, TouchedFrees, FreesTwice
<1>4. Frees(s, Cancel(s, c))
  BY <1>1, InvalidateFrees, FreesTwice DEF Cancel
<1> QED
  BY <1>2, <1>3, <1>4

LEMMA RestoreFrees ==
    ASSUME NEW s \in State, NEW sc \in Scopes
    PROVE  Frees(s, RestoreBudget(s, sc))
<1> DEFINE a == [s.shared.attempts EXCEPT ![sc] = 0]
           n == [s.shared.spent EXCEPT ![sc] = 0]
           h == [s.shared EXCEPT !.attempts = a, !.spent = n,
                                 !.suspended = @ \ {sc}, !.cooling = @ \ {sc}]
<1>1. s.shared \in Coordination /\ a \in [Scopes -> Nat] /\ n \in [Scopes -> Nat]
  BY StateParts DEF Coordination
<1>2. RestoreBudget(s, sc) = [s EXCEPT !.shared = h]
  BY DEF RestoreBudget
<1>3. h \in Coordination /\ h.lease = s.shared.lease
  <2> HIDE DEF a, n
  <2> QED
    BY <1>1 DEF Coordination
<1> HIDE DEF h
<1> QED
  BY <1>2, <1>3, SharedSet DEF Frees

LEMMA TimeoutFrees ==
    ASSUME NEW s \in State, NEW c \in Controllers,
           s.ctl[c].operation.live => s.ctl[c].operation.scope \in Scopes
    PROVE  Frees(s, TimeoutHandler(s, c))
<1> DEFINE o == [s.ctl[c].operation EXCEPT !.timedOut = TRUE]
           k == [s.ctl[c] EXCEPT !.operation = o]
           u == [s EXCEPT !.ctl[c] = k]
           sc == s.ctl[c].operation.scope
<1>0. s.ctl[c] \in Controller /\ s.ctl[c].operation \in Operation
  BY StateParts DEF Controller
<1>1. o \in Operation
  BY <1>0 DEF Operation
<1>2. \/ TimeoutHandler(s, c) = s
      \/ s.ctl[c].operation.live /\ TimeoutHandler(s, c) = Suspend(u, c, sc)
  BY Zenon DEF TimeoutHandler
<1>3. k \in Controller
  <2> HIDE DEF o
  <2> QED
    BY <1>0, <1>1 DEF Controller
<1> HIDE DEF k
<1>4. Frees(s, u) /\ u \in State
  BY <1>3, SetFrees DEF Frees
<1> HIDE DEF u
<1> QED
  BY <1>2, <1>4, SuspendTouches, TouchedFrees, TouchedSelf, FreesTwice

LEMMA CallbackFrees ==
    ASSUME NEW s \in State, NEW c \in Controllers
    PROVE  Frees(s, CallbackHandler(s, c))
<1> DEFINE o == [s.ctl[c].operation EXCEPT !.callbackReceived = TRUE]
           k == [s.ctl[c] EXCEPT !.operation = o, !.timeout = Unset]
           u == [s EXCEPT !.ctl[c] = k]
           op == s.ctl[c].operation
           timer == [gen |-> op.gen, scope |-> op.scope]
           m == [k EXCEPT !.settle = timer]
           v == [u EXCEPT !.ctl[c] = m]
<1>0. s.ctl[c] \in Controller /\ op \in Operation
  BY StateParts DEF Controller
<1>1. o \in Operation /\ timer \in Timer
  BY <1>0 DEF Operation, Timer
<1>2. k \in Controller
  <2> HIDE DEF o
  <2> QED
    BY <1>0, <1>1, UnsetFacts DEF Controller
<1>3. m \in Controller
  <2> HIDE DEF k, timer
  <2> QED
    BY <1>1, <1>2 DEF Controller
<1>4. [s EXCEPT !.ctl[c].operation.callbackReceived = TRUE, !.ctl[c].timeout = Unset] = u
  BY DEF State
<1>5. \/ CallbackHandler(s, c) = s
      \/ CallbackHandler(s, c) = SchedulePendingRequest(ClearOperation(u, c), c, FALSE)
      \/ CallbackHandler(s, c) = [u EXCEPT !.ctl[c].settle = timer]
  <2> HIDE DEF u
  <2> QED
    BY <1>4 DEF CallbackHandler
<1>6. u \in State /\ Frees(s, u) /\ u.ctl[c] = k
  <2> HIDE DEF k
  <2> QED
    BY <1>2, CtlSet DEF Frees
<1>7. [u EXCEPT !.ctl[c].settle = timer] = v
  <2> HIDE DEF u, k, timer
  <2> QED
    BY <1>6
<1> HIDE DEF u, k, m, timer
<1>8. Frees(s, v)
  BY <1>3, <1>6, SetFrees, FreesTwice
<1> DEFINE w == ClearOperation(u, c)
<1>9. Frees(s, w) /\ w \in State
  BY <1>6, ClearFrees, FreesTwice DEF Frees
<1> HIDE DEF w, v
<1>10. Frees(s, SchedulePendingRequest(w, c, FALSE))
  BY <1>9, PendingFrees, FreesTwice
<1> QED
  BY <1>5, <1>7, <1>8, <1>10, TouchedSelf, TouchedFrees DEF w

\* What a turn leaves of Frees for the step it is.
FreesStep == writes' = writes /\ shared'.lease \in {shared.lease, None}

LEMMA BecomesFrees ==
    ASSUME NEW t, Frees(Now, t), Becomes(t)
    PROVE  FreesStep
BY NowFacts DEF Frees, Becomes, FreesStep

\* The helper's answer.
LEMMA CallbackStep ==
    ASSUME RecoveryInvariant, NEW c \in Controllers, CallbackArrives(c)
    PROVE  /\ writes' = [writes EXCEPT ![c] = @ - 1]
           /\ shared'.lease \in {shared.lease, None}
<1> DEFINE s == [Now EXCEPT !.writes[c] = @ - 1]
<1>1. Now \in State /\ writes \in [Controllers -> Nat]
  BY NowFacts, StateParts DEF RecoveryInvariant, Sound
<1>2. writes[c] - 1 \in Nat
  BY <1>1 DEF CallbackArrives
<1>3. s \in State /\ s.shared = shared /\ s.writes = [writes EXCEPT ![c] = @ - 1]
  BY <1>1, <1>2, NowFacts DEF State
<1>4. Becomes(CallbackHandler(s, c))
  BY DEF CallbackArrives
<1> HIDE DEF s
<1> QED
  BY <1>3, <1>4, CallbackFrees DEF Becomes, Frees

\* A settle timer that fires: the operation is over and with it the lease.
LEMMA SettleStep ==
    ASSUME RecoveryInvariant, NEW c \in Controllers, SettleFires(c)
    PROVE  FreesStep /\ (shared.lease = c => shared'.lease = None)
<1> DEFINE k == [ctl[c] EXCEPT !.settle = Unset]
           s == [Now EXCEPT !.ctl[c] = k]
           op == ctl[c].operation
<1>1. Now \in State /\ ctl[c] \in Controller /\ Accounted(Now, c)
  BY NowFacts, StateParts DEF RecoveryInvariant, Sound
<1>2. op.live /\ Valid(c, op.gen)
  BY <1>1, NowFacts DEF SettleFires, Accounted, Settles, Valid
<1>3. PICK obs \in observations[c] :
          LET u == Process(UpdateCurrentScope(s, c, obs.scope), c, obs, FALSE)
          IN Becomes(SchedulePendingRequest(ClearOperation(u, c), c, obs.scope # op.scope))
  BY <1>2, NowFacts DEF SettleFires
<1>4. obs \in Observation /\ obs.scope \in Scopes
  BY Observed
<1>5. k \in Controller
  BY <1>1, UnsetFacts DEF Controller
<1> HIDE DEF k
<1>6. Frees(Now, s) /\ s \in State /\ s.shared = shared
  BY <1>1, <1>5, SetFrees, CtlSet, NowFacts
<1> HIDE DEF s
<1> DEFINE v == UpdateCurrentScope(s, c, obs.scope)
           u == Process(v, c, obs, FALSE)
           w == ClearOperation(u, c)
           t == SchedulePendingRequest(w, c, obs.scope # op.scope)
<1>7. Touched(s, u)
  <2>1. Touched(s, v) /\ v \in State
    BY <1>4, <1>6, UpdateCurrentScopeTouches DEF Touched
  <2> HIDE DEF v
  <2> QED
    BY <1>4, <2>1, ProcessTouches, TouchedTwice
<1>8. Becomes(t)
  BY <1>3
<1>9. Frees(Now, u) /\ u \in State /\ u.shared.lease = shared.lease
  <2> HIDE DEF u
  <2> QED
    BY <1>6, <1>7, TouchedFrees, FreesTwice DEF Touched
<1> HIDE DEF u
<1>10. Frees(Now, w) /\ w \in State /\ (shared.lease = c => w.shared.lease = None)
  BY <1>9, ClearFrees, FreesTwice DEF Frees
<1> HIDE DEF w
<1>11. Frees(w, t)
  <2>1. \A f \in BOOLEAN : Frees(w, SchedulePendingRequest(w, c, f))
    BY <1>10, PendingFrees
  <2>2. (obs.scope # op.scope) \in BOOLEAN
    OBVIOUS
  <2> QED
    BY <2>1, <2>2
<1> HIDE DEF t
<1> QED
  BY <1>8, <1>10, <1>11, FreesTwice, BecomesFrees, NowFacts DEF Becomes, Frees

\* Every other turn, with the lease taken.
LEMMA OthersFree ==
    ASSUME RecoveryInvariant, shared.lease # None,
           \/ \E c \in Controllers : RequestFires(c) \/ RetryFires(c) \/ StableFires(c)
                                        \/ TimeoutFires(c)
           \/ Call \/ CooldownEnds
    PROVE  FreesStep
<1>1. /\ Now \in State /\ Now.shared.lease # None
      /\ \A c \in Controllers : Settles(Now, c) /\ ctl[c] \in Controller
      /\ SystemProxy \in Controllers /\ ClaudeRuleMode \in Controllers
  BY NowFacts, StateParts DEF RecoveryInvariant, Sound, Accounted, Controllers
<1>2. ASSUME NEW c \in Controllers, RequestFires(c)
      PROVE  FreesStep
  <2> DEFINE s == [Now EXCEPT !.ctl[c].request = Unset]
  <2>1. Touched(Now, s) /\ s \in State
    BY <1>1, StateParts, CtlTouched, TimersSet, UnsetFacts, CtlSet
  <2>2. Becomes(s) \/ \E obs \in observations[c] : Becomes(Reconcile(s, c, obs))
    BY <1>2 DEF RequestFires
  <2> HIDE DEF s
  <2> QED
    BY <1>1, <2>1, <2>2, TouchedFrees, Observed, ReconcileFrees, FreesTwice, BecomesFrees
       DEF Touched
<1>3. ASSUME NEW c \in Controllers, RetryFires(c)
      PROVE  FreesStep
  <2> DEFINE s == CancelRetryTask(Now, c)
  <2>1. Touched(Now, s) /\ s \in State
    BY <1>1, CancelRetryTouches DEF Touched
  <2>2. Becomes(s) \/ \E obs \in observations[c] : Becomes(Reconcile(s, c, obs))
    BY <1>3 DEF RetryFires
  <2> HIDE DEF s
  <2> QED
    BY <1>1, <2>1, <2>2, TouchedFrees, Observed, ReconcileFrees, FreesTwice, BecomesFrees
       DEF Touched
<1>4. ASSUME NEW c \in Controllers, StableFires(c)
      PROVE  FreesStep
  <2> DEFINE s == CancelStableTask(Now, c)
             sc == ctl[c].stable.scope
  <2>1. Touched(Now, s) /\ s \in State
    BY <1>1, CancelStableTouches DEF Touched
  <2>2. CASE Becomes(s)
    BY <2>1, <2>2, TouchedFrees, BecomesFrees
  <2>3. ASSUME NEW obs \in observations[c],
               LET u == UpdateCurrentScope(s, c, obs.scope)
               IN Becomes(IF obs.scope = sc /\ obs.ready /\ obs.matches
                          THEN RestoreBudget(u, sc) ELSE Process(u, c, obs, TRUE))
        PROVE  FreesStep
    <3> DEFINE u == UpdateCurrentScope(s, c, obs.scope)
    <3>1. obs \in Observation /\ obs.scope \in Scopes
      BY Observed
    <3>2. \/ obs.scope = sc /\ Becomes(RestoreBudget(u, sc))
          \/ Becomes(Process(u, c, obs, TRUE))
      BY <2>3
    <3> HIDE DEF s
    <3>3. Touched(Now, u) /\ u \in State
      <4>1. Touched(s, u)
        BY <2>1, <3>1, UpdateCurrentScopeTouches
      <4> HIDE DEF u
      <4> QED
        BY <2>1, <4>1, TouchedTwice DEF Touched
    <3> HIDE DEF u
    <3>4. u.shared.lease # None /\ Frees(Now, u)
      BY <1>1, <3>3, TouchedFrees DEF Touched
    <3> QED
      BY <3>1, <3>2, <3>3, <3>4, RestoreFrees, ProcessFrees, FreesTwice, BecomesFrees
  <2> QED
    BY <1>4, <2>2, <2>3 DEF StableFires
<1>5. ASSUME NEW c \in Controllers, TimeoutFires(c)
      PROVE  FreesStep
  <2> DEFINE k == [ctl[c] EXCEPT !.timeout = Unset]
             s == [Now EXCEPT !.ctl[c] = k]
  <2>1. k \in Controller /\ k.operation = ctl[c].operation
    BY <1>1, UnsetFacts DEF Controller
  <2>2. Becomes(TimeoutHandler(s, c))
    BY <1>5, NowFacts DEF TimeoutFires
  <2> HIDE DEF k
  <2>3. s \in State /\ s.ctl[c] = k /\ Frees(Now, s)
    BY <1>1, <2>1, CtlSet, SetFrees
  <2> HIDE DEF s
  <2>4. s.ctl[c].operation.live => s.ctl[c].operation.scope \in Scopes
    BY <1>1, <2>1, <2>3, NowFacts DEF Settles
  <2> QED
    BY <2>2, <2>3, <2>4, TimeoutFrees, FreesTwice, BecomesFrees
<1>6. ASSUME Call
      PROVE  FreesStep
  <2>1. \A c \in Controllers : /\ Frees(Now, Request(Now, c)) /\ Request(Now, c) \in State
                               /\ Frees(Now, Reset(Now, c)) /\ Reset(Now, c) \in State
                               /\ Frees(Now, Cancel(Now, c)) /\ Cancel(Now, c) \in State
    BY <1>1, CallFrees DEF Frees
  <2>2. CASE RequestBoth
    BY <1>1, <2>1, <2>2, CallFrees, FreesTwice, BecomesFrees DEF RequestBoth
  <2>3. CASE RequestRuleMode
    BY <1>1, <2>1, <2>3, BecomesFrees DEF RequestRuleMode
  <2>4. CASE ResetBoth
    BY <1>1, <2>1, <2>4, CallFrees, FreesTwice, BecomesFrees DEF ResetBoth
  <2>5. CASE CancelBoth
    BY <1>1, <2>1, <2>5, CallFrees, FreesTwice, BecomesFrees DEF CancelBoth
  <2>6. CASE CancelSystemProxy
    BY <1>1, <2>1, <2>6, BecomesFrees DEF CancelSystemProxy
  <2> QED
    BY <1>6, <2>2, <2>3, <2>4, <2>5, <2>6 DEF Call
<1>7. ASSUME CooldownEnds
      PROVE  FreesStep
  <2>1. PICK sc \in shared.cooling : Becomes([Now EXCEPT !.shared.cooling = @ \ {sc}])
    BY <1>7 DEF CooldownEnds
  <2> DEFINE h == [shared EXCEPT !.cooling = @ \ {sc}]
  <2>2. h \in Coordination /\ h.lease = shared.lease
    BY <1>1, NowFacts, StateParts DEF Coordination
  <2>3. Becomes([Now EXCEPT !.shared = h])
    BY <2>1, NowFacts
  <2> HIDE DEF h
  <2>4. Frees(Now, [Now EXCEPT !.shared = h])
    BY <1>1, <2>2, SharedSet, NowFacts DEF Frees
  <2> QED
    BY <2>3, <2>4, BecomesFrees
<1> QED
  BY <1>2, <1>3, <1>4, <1>5, <1>6, <1>7

\* While a lease is held, no step hands it on and none begins a write.
LEMMA LeaseStep ==
    ASSUME RecoveryInvariant, [Next]_vars, shared.lease # None
    PROVE  /\ shared'.lease \in {shared.lease, None}
           /\ \A c \in Controllers : writes[c] = 0 => writes'[c] = 0
<1>1. writes \in [Controllers -> Nat]
  BY NowFacts, StateParts DEF RecoveryInvariant, Sound
<1>2. CASE \E c \in Controllers : CallbackArrives(c)
  BY <1>1, <1>2, CallbackStep DEF CallbackArrives
<1>3. CASE \E c \in Controllers : SettleFires(c)
  BY <1>3, SettleStep DEF FreesStep
<1>4. CASE UNCHANGED vars
  BY <1>4 DEF vars
<1> QED
  BY <1>2, <1>3, <1>4, OthersFree DEF Next, Fires, FreesStep

\* LeaseEnds: when the helper answers every write and the main queue fires the
\* settle timer unless it is cancelled, a lease ends, whatever timed out or was
\* reset in between.
THEOREM LeaseEndsCorrect == HelperSpec => LeaseEnds
<1> DEFINE Out(c) == shared.lease = c /\ writes[c] > 0
           Over(c) == shared.lease = c /\ writes[c] = 0
<1> SUFFICES ASSUME NEW c \in Controllers
             PROVE  HelperSpec => ((shared.lease = c) ~> (shared.lease # c))
  BY DEF LeaseEnds
<1>1. HelperSpec => Spec /\ Answers(c)
  BY DEF HelperSpec
<1>0. shared.lease # c <=> ~(shared.lease = c)
  OBVIOUS
<1>2. RecoveryInvariant => Out(c) \/ Over(c) \/ shared.lease # c
  BY NowFacts, StateParts DEF RecoveryInvariant, Sound
<1>3. RecoveryInvariant /\ Over(c) /\ [Next]_vars => (Over(c) \/ shared.lease # c)'
  BY LeaseStep, RecoveryAssumption
<1>4. RecoveryInvariant /\ Out(c) /\ <<CallbackArrives(c)>>_vars
          => (Over(c) \/ shared.lease # c)'
  <2> SUFFICES ASSUME RecoveryInvariant, Out(c), CallbackArrives(c)
               PROVE  writes'[c] = 0
    OBVIOUS
  <2>1. writes[c] = 1 /\ writes \in [Controllers -> Nat]
    BY NowFacts, StateParts DEF RecoveryInvariant, Sound, Accounted, Settles
  <2> QED
    BY <2>1, CallbackStep
<1>5. RecoveryInvariant /\ Over(c) => IsSet(ctl[c].settle)
  BY NowFacts, StateParts DEF RecoveryInvariant, Sound, Accounted, Settles
<1>6. Out(c) => writes[c] > 0
  OBVIOUS
<1> HIDE DEF Out, Over
<1> QED
  BY <1>0, <1>1, <1>2, <1>3, <1>4, <1>5, <1>6, RecoveryCorrect, PTL DEF Answers, Spec
=============================================================================
