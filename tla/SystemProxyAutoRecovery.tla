----------------------- MODULE SystemProxyAutoRecovery -----------------------
(***************************************************************************)
(* SystemProxyAutoRecoveryController and the coordination its instances    *)
(* share: ClashFX runs one for the system proxy and one for Rule mode.     *)
(* A controller answers notifications by a delayed observation and, if the *)
(* observed state is wrong, one helper write at a time, with a bounded     *)
(* number of attempts per scope.  Every handler is one turn of the main    *)
(* queue; timers and helper callbacks fire in any order.                   *)
(*                                                                         *)
(* Time is abstracted: a set timer fires some time, and the retry cooldown *)
(* of a scope is over some time.  A turn is written as a function from the *)
(* state s before it to the state after it, one operator per method.       *)
(* An operation is forgotten only after its callback, so a controller has  *)
(* at most one and needs no name for it.                                   *)
(*                                                                         *)
(* An operator named D_<Fault> is the definition D with a plausible bug in *)
(* it.  No action uses one: each shows that some property would notice.    *)
(***************************************************************************)
EXTENDS Integers, FiniteSets

CONSTANTS
    SystemProxy, ClaudeRuleMode,   \* the two controllers
    Scopes,         \* what an attempt budget is kept for
    None,           \* no controller, no scope
    Worlds,         \* what the controllers may have to observe, see observations
    MaxAttempts,    \* maximumAttempts
    MaxGeneration   \* bound: explicit calls start below this generation

Controllers == {SystemProxy, ClaudeRuleMode}

Observation == [scope : Scopes, ready : BOOLEAN, protect : BOOLEAN,
                matches : BOOLEAN]

ASSUME RecoveryAssumption ==
    /\ None \notin Controllers /\ None \notin Scopes
    /\ SystemProxy # ClaudeRuleMode
    /\ Worlds \subseteq [Controllers -> SUBSET Observation]
    /\ MaxAttempts \in Nat \ {0} /\ MaxGeneration \in Nat

VARIABLES
    ctl,     \* each controller's fields
    shared,  \* SystemProxyAutoRecoveryCoordination, and the cooldowns
    writes,  \* helper writes each controller has outstanding
    observations   \* what each controller may observe, the same for a whole run

vars == <<ctl, shared, writes, observations>>

\* A scheduled task with the generation and scope it captured.
Timer == [gen : Nat \cup {-1}, scope : Scopes \cup {None}]
Unset == [gen |-> -1, scope |-> None]
IsSet(t) == t # Unset

Operation == [gen : Nat, scope : Scopes \cup {None}, live : BOOLEAN,
              callbackReceived : BOOLEAN, timedOut : BOOLEAN]
NoOperation == [gen |-> 0, scope |-> None, live |-> FALSE,
                callbackReceived |-> FALSE, timedOut |-> FALSE]

Controller ==
    [generation : Nat, isArmed : BOOLEAN, currentScope : Scopes \cup {None},
     operation : Operation, request : Timer, retry : Timer, stable : Timer,
     settle : Timer, timeout : Timer, requestPending : BOOLEAN]

Fresh ==
    [generation |-> 0, isArmed |-> FALSE, currentScope |-> None,
     operation |-> NoOperation, request |-> Unset, retry |-> Unset,
     stable |-> Unset, settle |-> Unset, timeout |-> Unset,
     requestPending |-> FALSE]

\* spent counts the writes begun on the budget attempts holds.
Coordination ==
    [attempts : [Scopes -> Nat], spent : [Scopes -> Nat],
     suspended : SUBSET Scopes, cooling : SUBSET Scopes,
     lease : Controllers \cup {None}, waiters : SUBSET Controllers]

NoAttempts == [sc \in Scopes |-> 0]

Init ==
    /\ ctl = [c \in Controllers |-> Fresh]
    /\ shared = [attempts |-> NoAttempts, spent |-> NoAttempts,
                 suspended |-> {}, cooling |-> {}, lease |-> None, waiters |-> {}]
    /\ writes = [c \in Controllers |-> 0]
    /\ observations \in Worlds

\* The state inside a turn, and the end of the turn.
Now == [ctl |-> ctl, shared |-> shared, writes |-> writes]
Becomes(s) ==
    ctl' = s.ctl /\ shared' = s.shared /\ writes' = s.writes /\ UNCHANGED observations
-----------------------------------------------------------------------------
(* Helpers of the controllers.                                              *)

CancelRetryTask(s, c)  == [s EXCEPT !.ctl[c].retry = Unset]
CancelStableTask(s, c) == [s EXCEPT !.ctl[c].stable = Unset]
RemoveWaiter(s, c) == [s EXCEPT !.shared.waiters = @ \ {c}]

ScheduleRequest(s, c) ==
    [s EXCEPT !.ctl[c].request = [gen |-> s.ctl[c].generation, scope |-> None]]

AdvanceGeneration(s, c) == [s EXCEPT !.ctl[c].generation = @ + 1]

ScheduleRetry(s, c, sc) ==
    IF sc \in s.shared.suspended \/ s.ctl[c].retry.scope = sc THEN s
    ELSE [s EXCEPT !.ctl[c].retry = [gen |-> s.ctl[c].generation, scope |-> sc]]

ScheduleStableReset(s, c, sc) ==
    IF \/ s.shared.attempts[sc] = 0 /\ sc \notin s.shared.suspended
       \/ s.ctl[c].stable.scope = sc
    THEN s
    ELSE [s EXCEPT !.ctl[c].stable = [gen |-> s.ctl[c].generation, scope |-> sc]]

Suspend(s, c, sc) ==
    IF sc \in s.shared.suspended THEN s
    ELSE [s EXCEPT !.shared.suspended = @ \cup {sc},
                   !.shared.waiters = @ \ {c},
                   !.ctl[c].retry = IF @.scope = sc THEN Unset ELSE @]

UpdateCurrentScope(s, c, sc) ==
    IF s.ctl[c].currentScope = sc THEN s
    ELSE [s EXCEPT !.ctl[c].currentScope = sc,
                   !.ctl[c].retry  = IF @.scope \notin {None, sc} THEN Unset ELSE @,
                   !.ctl[c].stable = IF @.scope \notin {None, sc} THEN Unset ELSE @]

Release_NoWake(s) == [s EXCEPT !.shared.lease = None, !.shared.waiters = {}]

\* release: every waiter that is still armed looks again at once.
Release(s) ==
    [s EXCEPT !.shared.lease = None, !.shared.waiters = {},
              !.ctl = [d \in Controllers |->
                          IF d \in s.shared.waiters /\ s.ctl[d].isArmed
                          THEN ScheduleRequest(s, d).ctl[d]
                          ELSE s.ctl[d]]]

ClearOperation(s, c) ==
    LET cleared == [s EXCEPT !.ctl[c].operation = NoOperation,
                             !.ctl[c].settle = Unset, !.ctl[c].timeout = Unset]
    IN IF s.shared.lease = c THEN Release(cleared) ELSE cleared

SchedulePendingRequest(s, c, force) ==
    LET u == [s EXCEPT !.ctl[c].requestPending = FALSE]
    IN IF (s.ctl[c].requestPending \/ force) /\ s.ctl[c].isArmed
       THEN ScheduleRequest(u, c) ELSE u

BeginApply_NotCounted(s, c, sc) ==
    IF s.shared.lease # None THEN [s EXCEPT !.shared.waiters = @ \cup {c}]
    ELSE [s EXCEPT !.shared.waiters = @ \ {c}, !.shared.lease = c,
                   !.shared.spent[sc] = @ + 1, !.shared.cooling = @ \cup {sc},
                   !.ctl[c].operation = [gen |-> s.ctl[c].generation, scope |-> sc,
                                         live |-> TRUE, callbackReceived |-> FALSE,
                                         timedOut |-> FALSE],
                   !.ctl[c].timeout = [gen |-> s.ctl[c].generation, scope |-> sc],
                   !.writes[c] = @ + 1]

\* beginApply: without the lease the controller waits for it.
BeginApply(s, c, sc) ==
    IF s.shared.lease # None THEN [s EXCEPT !.shared.waiters = @ \cup {c}]
    ELSE [s EXCEPT !.shared.waiters = @ \ {c}, !.shared.lease = c,
                   !.shared.attempts[sc] = @ + 1, !.shared.spent[sc] = @ + 1,
                   !.shared.cooling = @ \cup {sc},
                   !.ctl[c].operation = [gen |-> s.ctl[c].generation, scope |-> sc,
                                         live |-> TRUE, callbackReceived |-> FALSE,
                                         timedOut |-> FALSE],
                   !.ctl[c].timeout = [gen |-> s.ctl[c].generation, scope |-> sc],
                   !.writes[c] = @ + 1]

Process(s, c, obs, mayStartApply) ==
    LET sc == obs.scope
        mismatch == CancelStableTask(s, c)
    IN IF ~obs.ready
       THEN RemoveWaiter(CancelStableTask(CancelRetryTask(s, c), c), c)
       ELSE IF obs.matches
       THEN ScheduleStableReset(CancelRetryTask(s, c), c, sc)
       ELSE IF ~obs.protect THEN CancelRetryTask(mismatch, c)
       ELSE IF sc \in s.shared.suspended
       THEN IF s.ctl[c].retry.scope = sc THEN CancelRetryTask(mismatch, c) ELSE mismatch
       ELSE IF s.shared.attempts[sc] >= MaxAttempts THEN Suspend(mismatch, c, sc)
       ELSE IF ~mayStartApply \/ sc \in s.shared.cooling
       THEN ScheduleRetry(mismatch, c, sc)
       ELSE BeginApply(CancelRetryTask(mismatch, c), c, sc)

\* reconcileFreshSnapshot
Reconcile(s, c, obs) ==
    IF s.ctl[c].operation.live THEN [s EXCEPT !.ctl[c].requestPending = TRUE]
    ELSE Process(UpdateCurrentScope(s, c, obs.scope), c, obs, TRUE)
-----------------------------------------------------------------------------
(* The controllers' operations, and AppDelegate's calls of them.            *)

Request(s, c) ==
    ScheduleRequest(IF s.ctl[c].isArmed THEN s
                    ELSE AdvanceGeneration([s EXCEPT !.ctl[c].isArmed = TRUE], c), c)

Invalidate_OnlyTimers(s, c) ==
    LET quiet == [s EXCEPT !.ctl[c].request = Unset, !.ctl[c].retry = Unset,
                           !.ctl[c].stable = Unset, !.ctl[c].requestPending = FALSE]
        alone == RemoveWaiter(AdvanceGeneration(quiet, c), c)
    IN [alone EXCEPT !.ctl[c].settle = Unset]

\* The part reset and cancel share.
Invalidate(s, c) ==
    LET quiet == [s EXCEPT !.ctl[c].request = Unset, !.ctl[c].retry = Unset,
                           !.ctl[c].stable = Unset, !.ctl[c].requestPending = FALSE]
        alone == RemoveWaiter(AdvanceGeneration(quiet, c), c)
    IN IF s.ctl[c].operation.live /\ s.ctl[c].operation.callbackReceived
       THEN ClearOperation(alone, c)
       ELSE [alone EXCEPT !.ctl[c].settle = Unset]

ResetCoordination(s) ==
    [s EXCEPT !.shared.attempts = NoAttempts, !.shared.spent = NoAttempts,
              !.shared.suspended = {}, !.shared.cooling = {}]

Reset(s, c) ==
    LET u == Invalidate(ResetCoordination(s), c)
    IN IF u.ctl[c].isArmed THEN ScheduleRequest(u, c) ELSE u

Cancel(s, c) == Invalidate([s EXCEPT !.ctl[c].isArmed = FALSE], c)

Bounded(c) == ctl[c].generation < MaxGeneration
MayRequest(c) == ctl[c].isArmed \/ Bounded(c)

\* requestSystemProxyAutoRecovery, and the call for Rule mode alone
RequestBoth ==
    /\ \A c \in Controllers : MayRequest(c)
    /\ Becomes(Request(Request(Now, SystemProxy), ClaudeRuleMode))

RequestRuleMode == MayRequest(ClaudeRuleMode) /\ Becomes(Request(Now, ClaudeRuleMode))

\* resetSystemProxyAutoRecovery
ResetBoth ==
    /\ \A c \in Controllers : Bounded(c)
    /\ Becomes(Reset(Reset(Now, SystemProxy), ClaudeRuleMode))

\* A changed controller scope or termination, and the user turning the proxy off
CancelBoth ==
    /\ \A c \in Controllers : Bounded(c)
    /\ Becomes(Cancel(Cancel(Now, SystemProxy), ClaudeRuleMode))

CancelSystemProxy == Bounded(SystemProxy) /\ Becomes(Cancel(Now, SystemProxy))
-----------------------------------------------------------------------------
(* Timers, helper callbacks, time.                                          *)

\* isArmed and the captured generation is still the current one
Valid(c, gen) == ctl[c].isArmed /\ ctl[c].generation = gen

RequestFires(c) ==
    /\ IsSet(ctl[c].request)
    /\ LET s == [Now EXCEPT !.ctl[c].request = Unset]
       IN IF Valid(c, ctl[c].request.gen)
          THEN \E obs \in observations[c] : Becomes(Reconcile(s, c, obs))
          ELSE Becomes(s)

RetryFires(c) ==
    /\ IsSet(ctl[c].retry)
    /\ LET s == CancelRetryTask(Now, c)
       IN IF Valid(c, ctl[c].retry.gen)
          THEN \E obs \in observations[c] : Becomes(Reconcile(s, c, obs))
          ELSE Becomes(s)

\* The scope matched for a whole interval: its budget is given back.
RestoreBudget(s, sc) ==
    [s EXCEPT !.shared.attempts[sc] = 0, !.shared.spent[sc] = 0,
              !.shared.suspended = @ \ {sc}, !.shared.cooling = @ \ {sc}]

StableFires(c) ==
    /\ IsSet(ctl[c].stable)
    /\ LET s == CancelStableTask(Now, c)
           sc == ctl[c].stable.scope
       IN IF Valid(c, ctl[c].stable.gen)
          THEN \E obs \in observations[c] :
                  LET u == UpdateCurrentScope(s, c, obs.scope)
                  IN Becomes(IF obs.scope = sc /\ obs.ready /\ obs.matches
                             THEN RestoreBudget(u, sc)
                             ELSE Process(u, c, obs, TRUE))
          ELSE Becomes(s)

\* handleApplyCallback
CallbackHandler(s, c) ==
    LET op == s.ctl[c].operation
        got == [s EXCEPT !.ctl[c].operation.callbackReceived = TRUE,
                         !.ctl[c].timeout = Unset]
    IN IF ~op.live \/ op.callbackReceived THEN s
       ELSE IF op.timedOut \/ ~Valid(c, op.gen)
       THEN SchedulePendingRequest(ClearOperation(got, c), c, FALSE)
       ELSE [got EXCEPT !.ctl[c].settle = [gen |-> op.gen, scope |-> op.scope]]

\* The helper reports that a write is over.
CallbackArrives(c) ==
    /\ writes[c] > 0
    /\ Becomes(CallbackHandler([Now EXCEPT !.writes[c] = @ - 1], c))

\* finishSettledOperation
SettleFires(c) ==
    /\ IsSet(ctl[c].settle)
    /\ LET s == [Now EXCEPT !.ctl[c].settle = Unset]
           op == ctl[c].operation
       IN IF ~op.live THEN Becomes(s)
          ELSE IF Valid(c, op.gen)
          THEN \E obs \in observations[c] :
                  LET u == Process(UpdateCurrentScope(s, c, obs.scope), c, obs, FALSE)
                  IN Becomes(SchedulePendingRequest(ClearOperation(u, c), c, obs.scope # op.scope))
          ELSE Becomes(SchedulePendingRequest(ClearOperation(s, c), c, FALSE))

TimeoutHandler_FreesLease(s, c) ==
    SchedulePendingRequest(ClearOperation(Suspend(s, c, s.ctl[c].operation.scope), c), c, FALSE)

\* handleApplyTimeout: the scope is suspended, the write keeps its lease.
TimeoutHandler(s, c) ==
    LET op == s.ctl[c].operation
    IN IF ~op.live \/ op.callbackReceived \/ op.timedOut THEN s
       ELSE Suspend([s EXCEPT !.ctl[c].operation.timedOut = TRUE], c, op.scope)

TimeoutFires(c) ==
    /\ IsSet(ctl[c].timeout)
    /\ Becomes(TimeoutHandler([Now EXCEPT !.ctl[c].timeout = Unset], c))

CooldownEnds ==
    \E sc \in shared.cooling : Becomes([Now EXCEPT !.shared.cooling = @ \ {sc}])

Call == \/ RequestBoth \/ RequestRuleMode \/ ResetBoth
        \/ CancelBoth \/ CancelSystemProxy

Fires(c) ==
    \/ RequestFires(c) \/ RetryFires(c) \/ StableFires(c)
    \/ SettleFires(c) \/ TimeoutFires(c)

Next ==
    \/ \E c \in Controllers : Fires(c) \/ CallbackArrives(c)
    \/ Call \/ CooldownEnds

Spec == Init /\ [][Next]_vars

\* Nothing repairs the conflict all controllers observe.
Hopeless == \A c \in Controllers : \A o \in observations[c] : o.protect /\ ~o.matches

\* The main queue fires every timer that stays set, and time passes; the helper
\* may never answer.
TimedSpec ==
    /\ Spec
    /\ \A c \in Controllers :
          /\ WF_vars(RequestFires(c)) /\ WF_vars(RetryFires(c)) /\ WF_vars(StableFires(c))
          /\ WF_vars(SettleFires(c)) /\ WF_vars(TimeoutFires(c))
    /\ WF_vars(CooldownEnds)

\* The helper answers every write some time.  Fairness is assumed only where
\* MismatchSuspends needs it, so that TLC looks at it nowhere else.
AnsweredSpec ==
    /\ Spec
    /\ \A c \in Controllers :
          /\ WF_vars(Hopeless /\ RequestFires(c)) /\ WF_vars(Hopeless /\ RetryFires(c))
          /\ WF_vars(Hopeless /\ SettleFires(c)) /\ WF_vars(Hopeless /\ CallbackArrives(c))
    /\ WF_vars(Hopeless /\ CooldownEnds)

\* The helper answers every write that is out, and the main queue fires the timer
\* that its answer sets, if nothing cancels it first.
Answers(c) ==
    /\ [](writes[c] > 0 => <><<CallbackArrives(c)>>_vars)
    /\ [](IsSet(ctl[c].settle) => <>(~IsSet(ctl[c].settle)))
HelperSpec == Spec /\ \A c \in Controllers : Answers(c)
-----------------------------------------------------------------------------
(* Properties.                                                              *)

TypeOK ==
    /\ ctl \in [Controllers -> Controller]
    /\ shared \in Coordination
    /\ writes \in [Controllers -> Nat]
    /\ observations \in Worlds

\* Two writes to the system-wide state are never under way at once, whatever
\* timed out, was reset or cancelled: the lease outlives the wait for it.
OneWriteInFlight ==
    \A c, d \in Controllers : writes[c] > 0 /\ writes[d] > 0 => c = d /\ writes[c] = 1

\* All controllers together begin at most MaxAttempts writes for a scope until
\* its budget is renewed by a reset or by a matching interval.
BudgetShared == \A sc \in Scopes : shared.spent[sc] <= MaxAttempts

\* Who holds the lease, who waits for it, and which timer belongs to which
\* phase of the operation; with one lease, one write.
LeaseAccounted ==
    /\ OneWriteInFlight
    /\ \A c \in Controllers :
          LET k == ctl[c] IN
          /\ k.operation.live <=> shared.lease = c
          /\ writes[c] = IF k.operation.live /\ ~k.operation.callbackReceived THEN 1 ELSE 0
          /\ k.operation.live /\ ~k.operation.callbackReceived
                => IsSet(k.timeout) \/ k.operation.timedOut
          /\ IsSet(k.settle) <=> k.operation.live /\ k.operation.callbackReceived
          /\ IsSet(k.settle) => Valid(c, k.operation.gen)
          /\ k.requestPending => k.operation.live
    /\ shared.waiters # {} => shared.lease # None
    /\ \A c \in shared.waiters : ctl[c].isArmed

\* While all it observes is a conflict, an armed controller does not stall, also
\* when the other one holds the lease: it gives up on its scope (isSuspended)
\* unless it is cancelled first.
MismatchSuspends ==
    \A c \in Controllers :
        []<>(Hopeless => ctl[c].currentScope \in shared.suspended \/ ~ctl[c].isArmed)

\* A lease ends once the helper answers, whatever timed out or was reset in
\* between, so that the other controller gets its turn.
LeaseEnds == \A c \in Controllers : (shared.lease = c) ~> (shared.lease # c)

\* The same where all there is to observe is a conflict: retries, timeouts, resets
\* and cancels may take away the timer that would have ended the operation, but
\* never the end of its lease.
LeaseEndsInConflict ==
    \A c \in Controllers : []<>(Hopeless => shared.lease # c)

\* "A write already handed to the helper retains its lease until its callback
\* or bounded timeout."
LeaseEndsWithTimeout ==
    \A c \in Controllers :
        ctl[c].operation.timedOut ~> ~ctl[c].operation.timedOut /\ shared.lease # c
=============================================================================
