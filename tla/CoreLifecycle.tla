---------------------------- MODULE CoreLifecycle ----------------------------
(***************************************************************************)
(* The embedded core of goClash: run/clashResumeCore, clashSuspendCore,    *)
(* configuration updates and TUN switches race on any thread of the app.   *)
(* cacheDBLifecycle orders them by two mutexes (mu, stateMu), one atomic   *)
(* state word (lifecycle generation and suspended bit) and the atomic      *)
(* configUpdateEpoch that fences updates issued for an earlier core.       *)
(* coreMutationMu is only ever taken by the owner of mu, so mu stands for  *)
(* both.  Every atomic load or store other threads can tell apart is a     *)
(* step.  The listeners and the cache file are modelled by being up or     *)
(* open; a start, an update, and the opening and closing of the cache may  *)
(* fail.                                                                   *)
(*                                                                         *)
(* An operator named D_<Fault> is the definition D with a plausible bug in *)
(* it.  No action uses one: each shows that some property would notice.    *)
(***************************************************************************)
EXTENDS Integers

CONSTANTS
    Threads,     \* threads of the app inside an exported function
    None,        \* the owner of a free mutex
    MaxCalls     \* bound: calls of the exported functions in a behaviour

ASSUME LifecycleAssumption ==
    /\ None \notin Threads
    /\ MaxCalls \in Nat

VARIABLES
    mu,         \* cacheDBLifecycle.mu: its owner
    stateMu,    \* cacheDBLifecycle.stateMu: its owner
    state,      \* cacheDBLifecycle.state
    epoch,      \* configUpdateEpoch
    cache,      \* cache.db, as this process left it
    running,    \* built-in listeners are up
    session,    \* epoch of the start that launched the listeners, or 0
    req,        \* what each thread is doing
    starts,     \* starts that returned success
    calls       \* calls begun

vars == <<mu, stateMu, state, epoch, cache, running, session, req,
          starts, calls>>

\* never opened; opened by a start or before this lifecycle; reopened by
\* clashReopenCacheDB; closed; closed with an error, the file perhaps not
\* released.
CacheStates == {"none", "open", "reopened", "released", "unreleased"}

Closed == cache \in {"released", "unreleased"}

State == [gen : Nat, suspended : BOOLEAN]

Ops == {"none", "start", "update", "tun", "suspend"}
Steps == {"idle", "admit", "lock", "parse", "apply", "cleanup", "fence",
          "activate", "advance", "check", "request", "invalidate", "stop",
          "close"}

\* want: the state a call captured or requested; entry: the state found under
\* mu; token: the epoch the call is fenced by; seen: starts at its request.
Request == [op : Ops, pc : Steps, want : State, entry : State,
            token : Nat, seen : Nat]

Idle == [op |-> "none", pc |-> "idle",
         want |-> [gen |-> 0, suspended |-> FALSE],
         entry |-> [gen |-> 0, suspended |-> FALSE], token |-> 0, seen |-> 0]

Init ==
    /\ mu = None /\ stateMu = None
    /\ state = [gen |-> 0, suspended |-> FALSE]
    /\ cache \in {"none", "open"}
    /\ epoch = 0 /\ running = FALSE /\ session = 0
    /\ req = [p \in Threads |-> Idle]
    /\ starts = 0 /\ calls = 0

At(p, op, pc) == req[p].op = op /\ req[p].pc = pc
Go(p, pc) == req' = [req EXCEPT ![p].pc = pc]
Return(p) == req' = [req EXCEPT ![p] = Idle]

\* A call enters an exported function.
Call(p, r) ==
    /\ req[p].pc = "idle" /\ calls < MaxCalls
    /\ calls' = calls + 1
    /\ req' = [req EXCEPT ![p] = r]
-----------------------------------------------------------------------------
(* run, clashResumeCore: startDefaultCoreWithCache.                         *)

Start(p) ==
    /\ Call(p, [Idle EXCEPT !.op = "start", !.pc = "admit", !.token = epoch + 1])
    /\ epoch' = epoch + 1
    /\ UNCHANGED <<mu, stateMu, state, cache, running, session, starts>>

\* withOpen captures the admission state before it waits for mu.
Admit(p) ==
    /\ At(p, "start", "admit")
    /\ req' = [req EXCEPT ![p].want = state, ![p].pc = "lock"]
    /\ UNCHANGED <<mu, stateMu, state, epoch, cache, running, session,
                   starts, calls>>

\* Only an explicit lifecycle request invalidates a queued open.
Admitted(p) == req[p].want.gen = state.gen

\* Cancelled by its generation, or the database cannot be opened.  Neither
\* marks the core suspended.
StartRefused(p) ==
    /\ At(p, "start", "lock") /\ mu = None
    /\ ~Admitted(p) \/ cache \notin {"open", "reopened"}
    /\ Return(p)
    /\ UNCHANGED <<mu, stateMu, state, epoch, cache, running, session,
                   starts, calls>>

StartOpens(p) ==
    /\ At(p, "start", "lock") /\ mu = None /\ Admitted(p)
    /\ mu' = p /\ cache' = "open"
    /\ req' = [req EXCEPT ![p].entry = state, ![p].pc = "parse"]
    /\ UNCHANGED <<stateMu, state, epoch, running, session, starts, calls>>

\* parseDefaultConfigThenStart: the configuration may be unusable, and a later
\* lifecycle change supersedes the start.
Parse(p) ==
    /\ At(p, "start", "parse")
    /\ \/ epoch = req[p].token /\ Go(p, "apply")
       \/ Go(p, "cleanup")
    /\ UNCHANGED <<mu, stateMu, state, epoch, cache, running, session,
                   starts, calls>>

StartListeners(p) ==
    /\ running' = TRUE /\ session' = req[p].token

\* ApplyConfigAndValidate and the controller: a failure leaves some listeners
\* of the new configuration, or none.
StartApplies(p) ==
    /\ At(p, "start", "apply")
    /\ \/ StartListeners(p) /\ Go(p, "activate")
       \/ StartListeners(p) /\ Go(p, "cleanup")
       \/ UNCHANGED <<running, session>> /\ Go(p, "cleanup")
    /\ UNCHANGED <<mu, stateMu, state, epoch, cache, starts, calls>>

\* A failed start stops the listeners before it gives up mu ...
Cleanup(p) ==
    /\ At(p, "start", "cleanup")
    /\ running' = FALSE
    /\ Go(p, "fence")
    /\ UNCHANGED <<mu, stateMu, state, epoch, cache, session, starts, calls>>

Fenced_Overwrites(p) == req[p].entry

\* ... and marks the core suspended, unless a newer request already did.
Fenced(p) ==
    IF state = req[p].entry THEN [state EXCEPT !.suspended = TRUE] ELSE state

Fence(p) ==
    /\ At(p, "start", "fence") /\ stateMu = None
    /\ state' = Fenced(p)
    /\ Go(p, "close")
    /\ UNCHANGED <<mu, stateMu, epoch, cache, running, session, starts, calls>>

MayActivate_Always(p) == TRUE

\* activateIfUnchanged: a suspend requested during the start wins; the
\* listeners are left to it.
MayActivate(p) == state = req[p].entry

Activate(p) ==
    /\ At(p, "start", "activate") /\ stateMu = None
    /\ IF MayActivate(p)
       THEN /\ state' = [state EXCEPT !.suspended = FALSE]
            /\ starts' = starts + 1
       ELSE UNCHANGED <<state, starts>>
    /\ mu' = None
    /\ Return(p)
    /\ UNCHANGED <<stateMu, epoch, cache, running, session, calls>>

\* closeLocked.  CacheFile counts as closed even when bbolt failed to close it,
\* so no later close tries again; the failure is only returned.
CloseDatabase ==
    IF cache \in {"open", "reopened"} THEN cache' \in {"released", "unreleased"}
    ELSE cache' = cache

Close_AfterSuspendOnly(p) ==
    /\ req[p].pc = "close"
    /\ IF req[p].op = "suspend" THEN CloseDatabase ELSE cache' = cache
    /\ mu' = None
    /\ Return(p)
    /\ UNCHANGED <<stateMu, state, epoch, running, session, starts, calls>>

Close(p) ==
    /\ req[p].pc = "close"
    /\ CloseDatabase /\ mu' = None
    /\ Return(p)
    /\ UNCHANGED <<stateMu, state, epoch, running, session, starts, calls>>
-----------------------------------------------------------------------------
(* Configuration updates and TUN switches.                                  *)

\* clashUpdateConfigWithEpoch, and an HTTP mutation of the embedded API: the
\* epoch is captured when the request is made, the work happens later.
Update(p) ==
    /\ Call(p, [Idle EXCEPT !.op = "update", !.pc = "lock", !.token = epoch])
    /\ UNCHANGED <<mu, stateMu, state, epoch, cache, running, session, starts>>

SetTun(p) ==
    /\ Call(p, [Idle EXCEPT !.op = "tun", !.pc = "lock"])
    /\ UNCHANGED <<mu, stateMu, state, epoch, cache, running, session, starts>>

\* withActive
LockActive(p) ==
    /\ req[p].op \in {"update", "tun"} /\ req[p].pc = "lock" /\ mu = None
    /\ IF state.suspended
       THEN mu' = mu /\ Return(p)
       ELSE mu' = p /\ Go(p, IF req[p].op = "tun" THEN "advance" ELSE "check")
    /\ UNCHANGED <<stateMu, state, epoch, cache, running, session, starts, calls>>

\* advanceEpochIfActive
Advance(p) ==
    /\ At(p, "tun", "advance") /\ stateMu = None
    /\ IF state.suspended
       THEN epoch' = epoch /\ mu' = None /\ Return(p)
       ELSE /\ epoch' = epoch + 1 /\ mu' = mu
            /\ req' = [req EXCEPT ![p].token = epoch + 1, ![p].pc = "check"]
    /\ UNCHANGED <<stateMu, state, cache, running, session, starts, calls>>

StillCurrent_NoEpoch(p) == ~state.suspended

\* applyConfigUpdateForLifecycle.  The two loads are one step: only the owner
\* of mu clears the suspended bit, so what the second finds clear was clear
\* at the first.
StillCurrent(p) == epoch = req[p].token /\ ~state.suspended

Check_TriesAgain(p) ==
    /\ req[p].pc = "check"
    /\ IF StillCurrent(p)
       THEN mu' = mu /\ Go(p, "apply")
       ELSE mu' = None /\ Go(p, "lock")
    /\ UNCHANGED <<stateMu, state, epoch, cache, running, session, starts, calls>>

Check(p) ==
    /\ req[p].pc = "check"
    /\ IF StillCurrent(p)
       THEN mu' = mu /\ Go(p, "apply")
       ELSE mu' = None /\ Return(p)
    /\ UNCHANGED <<stateMu, state, epoch, cache, running, session, starts, calls>>

\* The apply succeeds, or fails with or without bringing listeners up.
UpdateApplies(p) ==
    /\ req[p].op \in {"update", "tun"} /\ req[p].pc = "apply"
    /\ running' \in {running, TRUE}
    /\ mu' = None
    /\ Return(p)
    /\ UNCHANGED <<stateMu, state, epoch, cache, session, starts, calls>>

\* clashCancelPendingConfigUpdate
CancelPending ==
    /\ calls < MaxCalls
    /\ calls' = calls + 1 /\ epoch' = epoch + 1
    /\ UNCHANGED <<mu, stateMu, state, cache, running, session, req, starts>>
-----------------------------------------------------------------------------
(* clashSuspendCore: suspendWithEpoch.                                      *)

Suspend(p) ==
    /\ Call(p, [Idle EXCEPT !.op = "suspend", !.pc = "request"])
    /\ UNCHANGED <<mu, stateMu, state, epoch, cache, running, session, starts>>

\* requestSuspend publishes the new generation ...
RequestSuspend(p) ==
    /\ At(p, "suspend", "request") /\ stateMu = None
    /\ stateMu' = p
    /\ state' = [gen |-> state.gen + 1, suspended |-> TRUE]
    /\ req' = [req EXCEPT ![p].want = state', ![p].seen = starts,
                          ![p].pc = "invalidate"]
    /\ UNCHANGED <<mu, epoch, cache, running, session, starts, calls>>

\* ... and then the epoch, still under stateMu.
BumpEpoch == epoch' = epoch + 1

InvalidateUpdates(p) ==
    /\ At(p, "suspend", "invalidate")
    /\ BumpEpoch
    /\ stateMu' = None
    /\ Go(p, "lock")
    /\ UNCHANGED <<mu, state, cache, running, session, starts, calls>>

StillRequested_Always(p) == TRUE

\* suspendRequested: stale once a resume succeeded or a newer suspend came.
StillRequested(p) == state = req[p].want

LockSuspend(p) ==
    /\ At(p, "suspend", "lock") /\ mu = None
    /\ IF StillRequested(p)
       THEN mu' = p /\ Go(p, "stop")
       ELSE mu' = mu /\ Return(p)
    /\ UNCHANGED <<stateMu, state, epoch, cache, running, session, starts, calls>>

StopCore(p) ==
    /\ At(p, "suspend", "stop")
    /\ running' = FALSE
    /\ Go(p, "close")
    /\ UNCHANGED <<mu, stateMu, state, epoch, cache, session, starts, calls>>

\* clashReopenCacheDB, when the file can be opened
Reopen ==
    /\ mu = None /\ calls < MaxCalls
    /\ cache' = (IF cache = "open" THEN cache ELSE "reopened")
    /\ calls' = calls + 1
    /\ UNCHANGED <<mu, stateMu, state, epoch, running, session, req, starts>>
-----------------------------------------------------------------------------
Step(p) ==
    \/ Admit(p) \/ StartRefused(p) \/ StartOpens(p) \/ Parse(p)
    \/ StartApplies(p) \/ Cleanup(p) \/ Fence(p) \/ Activate(p) \/ Close(p)
    \/ LockActive(p) \/ Advance(p) \/ Check(p) \/ UpdateApplies(p)
    \/ RequestSuspend(p) \/ InvalidateUpdates(p) \/ LockSuspend(p) \/ StopCore(p)

Enter(p) == Start(p) \/ Update(p) \/ SetTun(p) \/ Suspend(p)

Next ==
    \/ \E p \in Threads : Enter(p) \/ Step(p)
    \/ CancelPending
    \/ Reopen

Spec == Init /\ [][Next]_vars

\* Threads inside a call are scheduled, and Go's mutexes hand over to a
\* starving waiter, so weak fairness per thread is enough for finitely many calls.
FairSpec == Spec /\ \A p \in Threads : WF_vars(Step(p))

\* The hand-over itself, for any number of calls: a waiter that finds its mutex
\* free again and again gets it.
HandOver(p) == SF_vars(Step(p))
HandOverSpec == Spec /\ \A p \in Threads : HandOver(p)
-----------------------------------------------------------------------------
(* Properties.                                                              *)

TypeOK ==
    /\ mu \in Threads \cup {None} /\ stateMu \in Threads \cup {None}
    /\ state \in State
    /\ epoch \in Nat /\ session \in Nat /\ starts \in Nat /\ calls \in Nat
    /\ cache \in CacheStates /\ running \in BOOLEAN
    /\ req \in [Threads -> Request]

\* A suspend request that is still going to stop the core.
Pending(p) ==
    /\ req[p].op = "suspend" /\ req[p].pc \in {"invalidate", "lock"}
    /\ req[p].want = state

\* Once the core is marked suspended and nobody holds mu, its listeners are
\* down and no start left cache.db open (it was closed for the external core,
\* even if closing failed, or reopened on request), or a suspend that will see
\* to it is on its way: also when starts fail or are overtaken by it.
SuspendedMeansStopped ==
    state.suspended /\ mu = None =>
        \/ ~running /\ cache # "open"
        \/ \E p \in Threads : Pending(p)

Applying(p) == req[p].pc = "apply"

\* Nothing is applied, and no listeners are left up with mu free, once a suspend
\* or a failed start has closed the cache database; and a start applies its
\* configuration only with the database open.  An update may well find that
\* there never was one: a start that cannot open it does not suspend the core.
AppliesHaveCache ==
    /\ \A p \in Threads : Applying(p) => ~Closed /\ (req[p].op = "start" => cache = "open")
    /\ mu = None /\ running => ~Closed

\* An update issued for one core is never applied to a core whose start was
\* called later, nor to one that a start overtaken by a suspend left behind.
UpdateInOwnSession ==
    \A p \in Threads : Applying(p) /\ req[p].op # "start" =>
        session <= req[p].token

\* A suspend stops no running core that a start brought back after the suspend
\* was requested (TestStaleSuspendCannotStopSuccessfulResume).  It may well find
\* its state word again: the failure of another start restores the bit, but
\* only over listeners that are already down.
StaleSuspendHarmless ==
    [][\A p \in Threads : StopCore(p) /\ running => req[p].seen = starts]_vars

\* A start queued before a suspend was requested never lifts that suspension,
\* whatever became of the starts in between.
SuspendFencesStart ==
    [][state.suspended /\ ~state'.suspended =>
          \A p \in Threads : Activate(p) => req[p].want.gen = state.gen]_vars

(* The inductive invariant behind these properties.                         *)

Holds(p) == req[p].pc \in {"parse", "apply", "cleanup", "fence", "activate",
                           "advance", "check", "stop", "close"}

LocksHeld == \A p \in Threads :
    /\ mu = p <=> Holds(p)
    /\ stateMu = p <=> req[p].pc = "invalidate"

StepsOf == [none    |-> {"idle"},
            start   |-> {"admit", "lock", "parse", "apply", "cleanup", "fence",
                         "activate", "close"},
            update  |-> {"lock", "check", "apply"},
            tun     |-> {"lock", "advance", "check", "apply"},
            suspend |-> {"request", "invalidate", "lock", "stop", "close"}]

StepsInOrder == \A p \in Threads : req[p].pc \in StepsOf[req[p].op]

EpochsBelow ==
    /\ session <= epoch
    /\ \A p \in Threads : req[p].token <= epoch

\* A start between its admission and its end, whose state nobody replaced.
Starting(p) ==
    /\ req[p].op = "start" /\ Holds(p) /\ req[p].pc # "close"
    /\ state = req[p].entry

\* Under mu, the state word only moves by a newer suspend request.
EntryCurrent == \A p \in Threads :
    req[p].op = "start" /\ Holds(p) =>
        /\ req[p].want.gen = req[p].entry.gen
        /\ req[p].pc # "close" =>
               \/ state = req[p].entry
               \/ state.gen > req[p].entry.gen /\ state.suspended

CacheHeld ==
    /\ \A p \in Threads : Holds(p) /\ req[p].op # "suspend" /\ req[p].pc # "close" =>
           ~Closed /\ (req[p].op = "start" => cache = "open")
    /\ \A p \in Threads : req[p].pc \in {"fence", "close"} => ~running
    /\ \A p \in Threads : req[p].pc \in {"stop", "close"} => state.suspended
    /\ mu = None /\ (~state.suspended \/ running) => ~Closed

Stopping(p) == Starting(p) \/ req[p].pc \in {"stop", "close"}

SuspensionServed ==
    state.suspended =>
        \/ mu = None /\ ~running /\ cache # "open"
        \/ \E p \in Threads : Pending(p) \/ Stopping(p)

Requested(p) ==
    /\ req[p].op = "suspend" /\ req[p].pc # "request"
    /\ req[p].want = state

\* A request that became stale, its generation started again, finds nothing
\* running unless another start is under way.
StaleRequests ==
    /\ \A p \in Threads : req[p].op = "suspend" /\ req[p].pc # "request" =>
           req[p].want.suspended /\ req[p].want.gen <= state.gen
    /\ \A p \in Threads : Requested(p) /\ req[p].seen # starts =>
           /\ \A q \in Threads : Holds(q) =>
                  Starting(q) \/ req[q].op = "suspend" \/ req[q].pc = "close"
           /\ ~running \/ \E q \in Threads : Starting(q)
    /\ \A p \in Threads : req[p].pc = "stop" /\ running => req[p].seen = starts

LifecycleInvariant ==
    /\ LocksHeld /\ StepsInOrder /\ EpochsBelow /\ EntryCurrent
    /\ CacheHeld /\ SuspensionServed /\ StaleRequests /\ UpdateInOwnSession

Waits(p) ==
    \/ req[p].pc = "lock" /\ mu \notin {None, p}
    \/ req[p].pc \in {"request", "advance", "fence", "activate"} /\ stateMu \notin {None, p}

\* A thread inside a call can go on, whatever the others did to the state it
\* saw, unless it waits for a mutex that another thread holds.
NoneStuck ==
    \A p \in Threads : req[p].pc # "idle" /\ ~Waits(p) => ENABLED <<Step(p)>>_vars

\* Every call of the bridge returns: nobody is stuck but for a mutex, the two are never
\* waited for in a circle, and no path leaves one locked.
CallsReturn ==
    /\ []NoneStuck
    /\ \A p \in Threads : []<>(req[p].pc = "idle")

\* "An older startup's failure can set the suspended bit while the newer open
\* waits; its cleanup must not cancel that newer request as well."
OlderStartHarmless ==
    \A p \in Threads : At(p, "start", "cleanup") /\ running => session <= req[p].token
=============================================================================
