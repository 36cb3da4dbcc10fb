----------------------- MODULE RuntimeConfigTransaction -----------------------
(***************************************************************************)
(* RuntimeConfigTransactionController: a candidate configuration is written*)
(* to an immutable snapshot file, validated, applied to the running core,  *)
(* verified by a readback, and otherwise rolled back to the last confirmed *)
(* snapshot.  Every handler runs as one turn of the main queue; snapshot   *)
(* files are written on a private queue; the core answers late or never.   *)
(*                                                                         *)
(* A call is one request handed to the file queue or to the client,        *)
(* identified by the phase token it was issued under.  A reply whose token *)
(* no longer matches is dropped, so only matching replies are actions.     *)
(* The core process is external: it is modelled by what the transaction's  *)
(* client in AppDelegate does to it.  A snapshot is named by its number,   *)
(* and its bytes by the same number.                                       *)
(*                                                                         *)
(* An operator named D_<Fault> is the definition D with a plausible bug in *)
(* it.  No action uses one: each shows that some property would notice.    *)
(***************************************************************************)
EXTENDS Integers, FiniteSets

CONSTANTS
    MaxOps,        \* bound: submissions in a behaviour
    MaxSnapshots,  \* bound: snapshot files (candidates, seeds, adoptions)
    MaxScopes,     \* bound: core sessions in a behaviour
    MaxEpoch,      \* bound: in-place invalidations start below this epoch
    CallsAdopt     \* is the synchronous adoptConfirmed called?  ClashFX never does

ASSUME BoundsAssumption ==
    /\ MaxOps \in Nat
    /\ MaxSnapshots \in Nat
    /\ MaxScopes \in Nat \ {0}
    /\ MaxEpoch \in Nat
    /\ CallsAdopt \in BOOLEAN

VARIABLES
    active,      \* activeOperation
    confirmed,   \* confirmedReceipt
    uncertain,
    stateEpoch,
    retained,    \* retainedSnapshots
    disk,        \* snapshot files present in the directory
    calls,       \* every request issued: to the file queue or to the client
    seeds,       \* asynchronous adoptions whose snapshot is being written
    hook,        \* operation whose onRetry callback is on the stack, or 0
    outcome,     \* what each operation's completion was called with
    ops,         \* operations submitted
    tokens,      \* phase tokens handed out
    snapshots,   \* snapshot numbers handed out
    curScope,    \* runtimeConfigurationScope: the core session
    core,        \* configuration the core really runs
    orphans,     \* history: applies that were open when the controller was reset
    adrift       \* history: was what the core runs left there by an orphan?

ctl  == <<active, confirmed, uncertain, stateEpoch, retained, disk, outcome>>
vars == <<active, confirmed, uncertain, stateEpoch, retained, disk, calls,
          seeds, hook, outcome, ops, tokens, snapshots, curScope, core,
          orphans, adrift>>

Boot  == 0      \* the configuration a fresh core starts with
Mixed == -1     \* listener or parse side effects of a refused apply

Receipt == [id : Nat, scope : Nat, data : Int]
NoReceipt == [id |-> 0, scope |-> 0, data |-> Boot]

Phases == {"preparing", "validating", "retryValidating", "applying",
           "verifying", "rollbackApplying", "rollbackVerifying", "finished"}
ApplyPhases  == {"applying", "rollbackApplying"}
VerifyPhases == {"verifying", "rollbackVerifying"}
CorePhases   == {"validating", "retryValidating"} \cup ApplyPhases

Operation ==
    [op : Nat, scope : Nat, previous : Receipt, candidate : Receipt,
     restoredBaseline : Receipt, phase : Phases, token : Nat,
     applyStarted : BOOLEAN, applySettled : BOOLEAN,
     fileMayBeInUse : BOOLEAN, retryAfterVerifiedRollback : BOOLEAN,
     retryRejection : BOOLEAN, retryUsed : BOOLEAN]

NoOperation ==
    [op |-> 0, scope |-> 0, previous |-> NoReceipt, candidate |-> NoReceipt,
     restoredBaseline |-> NoReceipt, phase |-> "finished", token |-> 0,
     applyStarted |-> FALSE, applySettled |-> FALSE,
     fileMayBeInUse |-> FALSE, retryAfterVerifiedRollback |-> FALSE,
     retryRejection |-> FALSE, retryUsed |-> FALSE]

Call == [op : Nat, token : Nat, phase : Phases, file : Nat, data : Int,
         scope : Nat, answered : BOOLEAN,
         st : {"sent", "written", "failed", "accepted", "rejected", "verified"}]

Seed == [id : Nat, scope : Nat, data : Int, epoch : Nat,
         st : {"writing", "written", "failed"}]

Outcomes == {"none", "applied", "rejected", "rolledBack", "unknown", "cancelled"}

Busy == active.op # 0

\* isCurrent(): false once the scope is stale, and false inside the scope for
\* reasons of the caller (termination, lost control lease, restart).
Current(s) == IF s = curScope THEN BOOLEAN ELSE {FALSE}

SnapshotOf(c) == [id |-> c.file, scope |-> c.scope, data |-> c.data]

Files(o) == {o.candidate.id, o.previous.id}

Answer(c) == (calls \ {c}) \cup {[c EXCEPT !.answered = TRUE]}

Serve(c, st) == (calls \ {c}) \cup {[c EXCEPT !.st = st]}
-----------------------------------------------------------------------------
(* How an operation goes on or ends.  o is the operation's value so far in  *)
(* the turn.  Several epoch advances of one turn count as one: the epoch is *)
(* only ever compared for equality.                                         *)

Matches(c) ==
    /\ Busy
    /\ c.op = active.op
    /\ c.phase = active.phase
    /\ c.token = active.token

Remove_Unguarded(files, keep) == files

\* removeSnapshot: a retained snapshot stays.
Remove(files, keep) == files \ keep

Finish_SilentCancel(o, result, conf, unc, retain, remove) ==
    /\ active' = NoOperation
    /\ outcome' = [outcome EXCEPT ![o.op] =
                     IF result = "cancelled" THEN "none" ELSE result]
    /\ confirmed' = conf
    /\ uncertain' = unc
    /\ stateEpoch' = stateEpoch + 1
    /\ retained' = retained \cup (retain \ {0})
    /\ disk' = disk \ Remove(remove, retained')

Finish(o, result, conf, unc, retain, remove) ==
    /\ active' = NoOperation
    /\ outcome' = [outcome EXCEPT ![o.op] = result]
    /\ confirmed' = conf
    /\ uncertain' = unc
    /\ stateEpoch' = stateEpoch + 1
    /\ retained' = retained \cup (retain \ {0})
    /\ disk' = disk \ Remove(remove, retained')

Reject(o) ==
    Finish(o, "rejected", confirmed, uncertain, {}, {o.candidate.id})

WithoutScope(s) == IF confirmed.scope = s THEN NoReceipt ELSE confirmed

MarkUnknown_StillCertain(o) ==
    Finish(o, "unknown", WithoutScope(o.scope), FALSE, Files(o), {})

MarkUnknown(o) ==
    Finish(o, "unknown", WithoutScope(o.scope), TRUE,
           Files(o) \cup (IF confirmed.scope = o.scope THEN {confirmed.id} ELSE {}),
           {})

EndForStaleScope(o) ==
    \/ /\ o.applyStarted
       /\ Finish(o, "unknown", WithoutScope(o.scope), TRUE,
                 Files(o) \cup {confirmed.id}, {})
    \/ /\ ~o.applyStarted /\ o.fileMayBeInUse
       /\ Finish(o, "cancelled", WithoutScope(o.scope), uncertain,
                 {o.candidate.id}, {})
    \/ /\ ~o.applyStarted /\ ~o.fileMayBeInUse
       /\ Finish(o, "cancelled", WithoutScope(o.scope), uncertain, {},
                 {o.candidate.id} \cup
                 (IF confirmed.scope = o.scope THEN {confirmed.id} ELSE {}))

\* beginPhase and the request it guards: cs is the set of earlier calls.
BeginPhase(o, phase, r, cs) ==
    /\ active' = [o EXCEPT !.phase = phase, !.token = tokens + 1,
                           !.fileMayBeInUse = (phase # "preparing")]
    /\ tokens' = tokens + 1
    /\ calls' = cs \cup
         {[op |-> o.op, token |-> tokens + 1, phase |-> phase, file |-> r.id,
           data |-> r.data, scope |-> o.scope, answered |-> FALSE, st |-> "sent"]}

Proceed(o, phase, r, cs) ==
    /\ BeginPhase(o, phase, r, cs)
    /\ UNCHANGED <<confirmed, uncertain, stateEpoch, retained, disk, outcome>>

BeginApply(o, cs) ==
    Proceed([o EXCEPT !.applyStarted = TRUE, !.applySettled = FALSE],
            "applying", o.candidate, cs)

HasBaseline_Never(o) == FALSE
HasBaseline(o) == o.previous.id # 0 /\ o.previous.scope = o.scope

BeginRollback(o, cs) == Proceed(o, "rollbackApplying", o.previous, cs)

RollbackOrUnknown(o, cs) ==
    \/ /\ o.applySettled /\ HasBaseline(o)
       /\ BeginRollback(o, cs)
    \/ /\ ~(o.applySettled /\ HasBaseline(o))
       /\ MarkUnknown(o)
       /\ calls' = cs /\ UNCHANGED tokens

FinishRetryValidation(o, keepCandidate) ==
    Finish(o, "rolledBack", confirmed, uncertain,
           IF keepCandidate THEN {o.candidate.id} ELSE {},
           IF keepCandidate THEN {} ELSE {o.candidate.id})
-----------------------------------------------------------------------------
(* submit *)

Submitted(s, retry) ==
    [NoOperation EXCEPT !.op = ops + 1, !.scope = s,
        !.previous = IF confirmed.scope = s THEN confirmed ELSE NoReceipt,
        !.retryAfterVerifiedRollback = retry]

MaySubmit_AlsoUncertain == ~Busy
MaySubmit == ~Busy /\ ~uncertain

\* Refused: another transaction runs, the state is uncertain, or the caller's
\* scope is gone.  The last drops the confirmed receipt with its file.
SubmitRefused ==
    /\ ops < MaxOps
    /\ ops' = ops + 1
    /\ \/ /\ Busy
          /\ outcome' = [outcome EXCEPT ![ops + 1] = "rejected"]
          /\ UNCHANGED <<confirmed, stateEpoch, disk>>
       \/ /\ ~Busy /\ uncertain
          /\ outcome' = [outcome EXCEPT ![ops + 1] = "unknown"]
          /\ UNCHANGED <<confirmed, stateEpoch, disk>>
       \/ /\ MaySubmit
          /\ outcome' = [outcome EXCEPT ![ops + 1] = "cancelled"]
          /\ confirmed' = NoReceipt
          /\ stateEpoch' = IF confirmed.id = 0 THEN stateEpoch ELSE stateEpoch + 1
          /\ disk' = disk \ Remove({confirmed.id}, retained)
    /\ UNCHANGED <<active, uncertain, retained, calls, seeds, hook, tokens,
                   snapshots, curScope, core,
                   orphans, adrift>>

Submit(s, retry) ==
    /\ ops < MaxOps /\ snapshots < MaxSnapshots
    /\ MaySubmit
    /\ TRUE \in Current(s)
    /\ BeginPhase(Submitted(s, retry), "preparing",
                  [id |-> snapshots + 1, scope |-> s, data |-> snapshots + 1], calls)
    \* discardConfirmedIfScopeDiffers
    /\ confirmed' = IF confirmed.scope = s THEN confirmed ELSE NoReceipt
    /\ disk' = disk \ Remove(IF confirmed.scope = s THEN {} ELSE {confirmed.id}, retained)
    /\ stateEpoch' = stateEpoch + 1
    /\ ops' = ops + 1
    /\ snapshots' = snapshots + 1
    /\ UNCHANGED <<uncertain, retained, seeds, hook, outcome, curScope, core,
                   orphans, adrift>>

-----------------------------------------------------------------------------
(* The file queue *)

WriteSnapshot(c, ok) ==
    /\ c \in calls /\ c.phase = "preparing" /\ c.st = "sent"
    /\ calls' = Serve(c, IF ok THEN "written" ELSE "failed")
    /\ disk' = IF ok THEN disk \cup {c.file} ELSE disk
    /\ UNCHANGED <<active, confirmed, uncertain, stateEpoch, retained, seeds,
                   hook, outcome, ops, tokens, snapshots, curScope, core,
                   orphans, adrift>>

WriteSeed(s, ok) ==
    /\ s \in seeds /\ s.st = "writing"
    /\ seeds' = (seeds \ {s}) \cup
                {[s EXCEPT !.st = IF ok THEN "written" ELSE "failed"]}
    /\ disk' = IF ok THEN disk \cup {s.id} ELSE disk
    /\ UNCHANGED <<active, confirmed, uncertain, stateEpoch, retained, calls,
                   hook, outcome, ops, tokens, snapshots, curScope, core,
                   orphans, adrift>>

-----------------------------------------------------------------------------
(* Replies.  MainTurn: no callback is on the stack.                         *)

MainTurn ==
    /\ hook = 0
    /\ UNCHANGED <<seeds, ops, snapshots, curScope, core, orphans, adrift>>

\* The write hop whose operation or phase is gone removes the new file.
DiscardLateSnapshot(c) ==
    /\ MainTurn
    /\ c \in calls /\ c.phase = "preparing" /\ c.st # "sent" /\ ~c.answered
    /\ ~Matches(c)
    /\ calls' = Answer(c)
    /\ disk' = disk \ Remove({c.file}, retained)
    /\ UNCHANGED <<active, confirmed, uncertain, stateEpoch, retained, hook,
                   outcome, tokens>>

SnapshotWritten(c, cur) ==
    /\ MainTurn /\ UNCHANGED hook
    /\ c \in calls /\ c.phase = "preparing" /\ c.st # "sent" /\ ~c.answered
    /\ Matches(c)
    /\ cur \in Current(active.scope)
    /\ LET o == [active EXCEPT !.candidate =
                   IF c.st = "written" THEN SnapshotOf(c) ELSE NoReceipt]
       IN \/ /\ cur /\ c.st = "written"
             /\ Proceed(o, "validating", o.candidate, Answer(c))
          \/ /\ ~cur
             /\ EndForStaleScope(o)
             /\ calls' = Answer(c) /\ UNCHANGED tokens
          \/ /\ cur /\ c.st = "failed"
             /\ Reject(o)
             /\ calls' = Answer(c) /\ UNCHANGED tokens

\* receive: the phase's file is free again, then the caller's scope is asked.
Received(c) ==
    /\ MainTurn
    /\ c \in calls
    /\ Matches(c)

Settled == [active EXCEPT !.fileMayBeInUse = FALSE]

StaleReply(c) ==
    /\ Received(c) /\ UNCHANGED hook
    /\ c.phase # "preparing"
    /\ FALSE \in Current(active.scope)
    /\ EndForStaleScope(Settled)
    /\ calls' = Answer(c) /\ UNCHANGED tokens

ValidationReply(c, ok) ==
    /\ Received(c) /\ UNCHANGED hook
    /\ c.phase \in {"validating", "retryValidating"}
    /\ TRUE \in Current(active.scope)
    /\ \/ /\ ok
          /\ BeginApply(Settled, Answer(c))
       \/ /\ ~ok
          /\ IF c.phase = "retryValidating"
               THEN FinishRetryValidation(Settled, FALSE)
               ELSE Reject(Settled)
          /\ calls' = Answer(c) /\ UNCHANGED tokens

ApplyReply(c, result) ==
    /\ Received(c) /\ UNCHANGED hook
    /\ c.phase = "applying"
    /\ TRUE \in Current(active.scope)
    /\ result = "uncertain" \/ result = c.st
    /\ LET o == [Settled EXCEPT !.applySettled = TRUE]
           r == [o EXCEPT !.retryRejection =
                    @ \/ (o.retryAfterVerifiedRollback /\ ~o.retryUsed)]
       IN \/ /\ result = "accepted"
             /\ Proceed(o, "verifying", o.candidate, Answer(c))
          \/ /\ result = "rejected" /\ HasBaseline(o)
             /\ BeginRollback(r, Answer(c))
          \/ /\ result = "rejected" /\ ~HasBaseline(o)
             /\ Reject(o)
             /\ calls' = Answer(c) /\ UNCHANGED tokens
          \/ /\ result = "uncertain"
             /\ MarkUnknown(o)
             /\ calls' = Answer(c) /\ UNCHANGED tokens

VerifyReply(c, ok) ==
    /\ Received(c) /\ UNCHANGED hook
    /\ c.phase = "verifying"
    /\ TRUE \in Current(active.scope)
    /\ \/ /\ ok /\ c.st = "verified"
          \* promoteCandidate
          /\ Finish(Settled, "applied", active.candidate, FALSE, {}, {confirmed.id})
          /\ calls' = Answer(c) /\ UNCHANGED tokens
       \/ /\ ~ok
          /\ RollbackOrUnknown(Settled, Answer(c))

RollbackApplyReply(c, result) ==
    /\ Received(c) /\ UNCHANGED hook
    /\ c.phase = "rollbackApplying"
    /\ TRUE \in Current(active.scope)
    /\ result = "uncertain" \/ result = c.st
    /\ \/ /\ result = "accepted"
          /\ Proceed(Settled, "rollbackVerifying", active.previous, Answer(c))
       \/ /\ result \in {"rejected", "uncertain"}
          /\ MarkUnknown(Settled)
          /\ calls' = Answer(c) /\ UNCHANGED tokens

RetryDue_Unlimited(o) == o.retryAfterVerifiedRollback

RetryDue(o) ==
    o.retryAfterVerifiedRollback /\ ~o.retryUsed /\ o.retryRejection

\* completeRollback: the retry budget is spent before onRetry is called.
RollbackVerifyReply(c, ok) ==
    /\ Received(c)
    /\ c.phase = "rollbackVerifying"
    /\ TRUE \in Current(active.scope)
    /\ UNCHANGED tokens
    /\ \/ /\ ok /\ c.st = "verified" /\ RetryDue(active)
          /\ active' = [Settled EXCEPT !.restoredBaseline = active.previous,
                                       !.retryUsed = TRUE, !.retryRejection = FALSE]
          /\ hook' = active.op
          /\ confirmed' = active.previous
          /\ uncertain' = FALSE
          /\ stateEpoch' = stateEpoch + 1
          /\ calls' = Answer(c)
          /\ UNCHANGED <<retained, disk, outcome>>
       \/ /\ ok /\ c.st = "verified" /\ ~RetryDue(active)
          /\ Finish(Settled, "rolledBack", active.previous, FALSE, {},
                    {active.candidate.id})
          /\ calls' = Answer(c) /\ UNCHANGED hook
       \/ /\ ~ok
          /\ MarkUnknown(Settled)
          /\ calls' = Answer(c) /\ UNCHANGED hook

\* onRetry returns; the callback may have adopted, invalidated or resubmitted.
RetryHookReturns(cur) ==
    /\ hook # 0 /\ hook' = 0
    /\ cur \in Current(active.scope)
    /\ \/ /\ active.op # hook
          /\ UNCHANGED <<ctl, calls, tokens>>
       \/ /\ active.op = hook /\ ~cur
          /\ EndForStaleScope(active)
          /\ UNCHANGED <<calls, tokens>>
       \/ /\ active.op = hook /\ cur
          /\ IF /\ confirmed.id = active.restoredBaseline.id
                /\ confirmed.scope = active.scope
                /\ ~uncertain
               THEN Proceed(active, "retryValidating", active.candidate, calls)
               ELSE MarkUnknown(active) /\ UNCHANGED <<calls, tokens>>
    /\ UNCHANGED <<seeds, ops, snapshots, curScope, core,
                   orphans, adrift>>

HookReturns == \E cur \in BOOLEAN : RetryHookReturns(cur)

\* handleTimeout: the deadline of the current phase fires.
Timeout ==
    /\ MainTurn /\ UNCHANGED hook
    /\ Busy
    /\ \/ /\ FALSE \in Current(active.scope)
          /\ EndForStaleScope(active)
          /\ UNCHANGED <<calls, tokens>>
       \/ /\ TRUE \in Current(active.scope)
          /\ \/ /\ active.phase = "preparing"
                /\ Reject(active)
                /\ UNCHANGED <<calls, tokens>>
             \/ /\ active.phase = "validating"
                /\ Finish(active, "rejected", confirmed, uncertain,
                          {active.candidate.id}, {})
                /\ UNCHANGED <<calls, tokens>>
             \/ /\ active.phase = "retryValidating"
                /\ FinishRetryValidation(active, TRUE)
                /\ UNCHANGED <<calls, tokens>>
             \/ /\ active.phase \in ApplyPhases \cup {"rollbackVerifying"}
                /\ MarkUnknown(active)
                /\ UNCHANGED <<calls, tokens>>
             \/ /\ active.phase = "verifying"
                /\ RollbackOrUnknown(active, calls)
-----------------------------------------------------------------------------
(* Adoption and invalidation *)

Detach_LeavesOperation ==
    /\ retained' = retained
    /\ uncertain' = FALSE
    /\ stateEpoch' = stateEpoch + 1
    /\ UNCHANGED <<active, outcome>>

\* detachActiveOperationForAdoption and detachActiveOperationForInvalidation
Detach ==
    /\ active' = NoOperation
    /\ outcome' = IF Busy
         THEN [outcome EXCEPT ![active.op] =
                 IF active.applyStarted THEN "unknown" ELSE "cancelled"]
         ELSE outcome
    /\ retained' = retained \cup
         ((IF active.fileMayBeInUse THEN Files(active) ELSE {}) \ {0})
    /\ uncertain' = FALSE
    /\ stateEpoch' = stateEpoch + 1

\* The core may still serve c.
OpenApply(c) == c.phase \in ApplyPhases /\ c.st = "sent" /\ c.scope = curScope

\* History: a reset forgets the applies the live core may still serve.
OrphanApplies ==
    orphans' = orphans \cup {c.token : c \in {d \in calls : OpenApply(d)}}

DetachedFiles ==
    {confirmed.id} \cup IF active.fileMayBeInUse THEN {} ELSE Files(active)

\* adoptConfirmed(data:scope:dataPlane:) on the main thread: the snapshot is
\* written first; the caller's readback is what the core runs.
AdoptConfirmed ==
    /\ CallsAdopt
    /\ snapshots < MaxSnapshots
    /\ core # Mixed
    /\ Detach /\ OrphanApplies
    /\ adrift' = FALSE
    /\ confirmed' = [id |-> snapshots + 1, scope |-> curScope, data |-> core]
    /\ disk' = (disk \cup {snapshots + 1}) \ Remove(DetachedFiles, retained')
    /\ snapshots' = snapshots + 1
    /\ UNCHANGED <<calls, seeds, hook, ops, tokens, curScope, core>>

InvalidateState ==
    /\ Detach
    /\ confirmed' = NoReceipt
    /\ disk' = disk \ Remove(DetachedFiles, retained')
    /\ UNCHANGED <<calls, seeds, hook, ops, tokens, snapshots>>

\* invalidate() with the core left running (a quit that is then cancelled).
Invalidate ==
    /\ stateEpoch < MaxEpoch
    /\ InvalidateState /\ OrphanApplies
    /\ UNCHANGED <<curScope, core, adrift>>

\* A core session ends with everything that was asked of it.
NewCore ==
    /\ curScope < MaxScopes
    /\ curScope' = curScope + 1
    /\ core' = Boot
    /\ orphans' = {} /\ adrift' = FALSE

\* invalidate() in the turn that starts another core session.
RestartCore == NewCore /\ InvalidateState

\* Another core takes over (enhanced mode toggles, the API address changes)
\* before anybody invalidates the controller.
ReplaceCore ==
    /\ NewCore
    /\ UNCHANGED <<ctl, calls, seeds, hook, ops, tokens, snapshots>>

\* adoptConfirmed(...isCurrent:completion:): the epoch is captured before the
\* snapshot is written.  The caller before a transaction refuses while the state is
\* uncertain; the one at the end of an enhanced launch follows a reset in the turn
\* the core is replaced, and no transaction runs there before its checkpoint.
BeginSeed ==
    /\ snapshots < MaxSnapshots
    /\ core # Mixed
    /\ ~uncertain
    /\ stateEpoch' = stateEpoch + 1
    /\ snapshots' = snapshots + 1
    /\ seeds' = seeds \cup
         {[id |-> snapshots + 1, scope |-> curScope, data |-> core,
           epoch |-> stateEpoch + 1, st |-> "writing"]}
    /\ UNCHANGED <<active, confirmed, uncertain, retained, disk, calls, hook,
                   outcome, ops, tokens, curScope, core,
                   orphans, adrift>>

SeedIsFresh_WhileBusy(s) == stateEpoch = s.epoch
SeedIsFresh(s) == stateEpoch = s.epoch /\ ~Busy

SettleSeed(s, cur) ==
    /\ hook = 0
    /\ s \in seeds /\ s.st # "writing"
    /\ cur \in Current(s.scope)
    /\ seeds' = seeds \ {s}
    /\ \/ /\ s.st = "written" /\ SeedIsFresh(s) /\ cur
          /\ confirmed' = [id |-> s.id, scope |-> s.scope, data |-> s.data]
          /\ uncertain' = FALSE
          /\ stateEpoch' = stateEpoch + 1
          /\ disk' = disk \ Remove({confirmed.id}, retained)
       \/ /\ s.st = "failed" \/ ~(SeedIsFresh(s) /\ cur)
          /\ disk' = disk \ Remove({s.id}, retained)
          /\ UNCHANGED <<confirmed, uncertain, stateEpoch>>
    /\ UNCHANGED <<active, retained, calls, hook, outcome, ops, tokens,
                   snapshots, curScope, core,
                   orphans, adrift>>

-----------------------------------------------------------------------------
(* The core (external).  An apply may be served after its caller gave up.   *)
(* A refused apply can leave the configuration, or parts of it, behind.     *)

ServeApply(c, st, after) ==
    /\ c \in calls /\ c.phase \in ApplyPhases /\ c.st = "sent"
    /\ c.scope = curScope
    /\ \/ st = "accepted" /\ after = c.data
       \/ st = "rejected" /\ after \in {core, Mixed, c.data}
    /\ calls' = Serve(c, st)
    /\ core' = after
    /\ orphans' = orphans \ {c.token}
    /\ adrift' = IF st = "rejected" /\ after = core THEN adrift ELSE c.token \in orphans
    /\ UNCHANGED <<ctl, seeds, hook, ops, tokens, snapshots, curScope>>

\* The readback finds the expected configuration.
ServeVerify(c) ==
    /\ c \in calls /\ c.phase \in VerifyPhases /\ c.st = "sent"
    /\ c.scope = curScope /\ core = c.data
    /\ calls' = Serve(c, "verified")
    /\ UNCHANGED <<ctl, seeds, hook, ops, tokens, snapshots, curScope, core,
                   orphans, adrift>>

-----------------------------------------------------------------------------
Init ==
    /\ active = NoOperation
    /\ confirmed = NoReceipt
    /\ uncertain = FALSE
    /\ stateEpoch = 0
    /\ retained = {}
    /\ disk = {}
    /\ calls = {}
    /\ seeds = {}
    /\ hook = 0
    /\ outcome = [o \in 1..MaxOps |-> "none"]
    /\ ops = 0
    /\ tokens = 0
    /\ snapshots = 0
    /\ curScope = 1
    /\ core = Boot
    /\ orphans = {}
    /\ adrift = FALSE

Next ==
    \/ SubmitRefused
    \/ \E s \in 1..MaxScopes, retry \in BOOLEAN : Submit(s, retry)
    \/ \E c \in calls, ok \in BOOLEAN : WriteSnapshot(c, ok)
    \/ \E s \in seeds, ok \in BOOLEAN : WriteSeed(s, ok)
    \/ \E c \in calls : DiscardLateSnapshot(c)
    \/ \E c \in calls, cur \in BOOLEAN : SnapshotWritten(c, cur)
    \/ \E c \in calls : StaleReply(c)
    \/ \E c \in calls, ok \in BOOLEAN : ValidationReply(c, ok)
    \/ \E c \in calls, r \in {"accepted", "rejected", "uncertain"} : ApplyReply(c, r)
    \/ \E c \in calls, ok \in BOOLEAN : VerifyReply(c, ok)
    \/ \E c \in calls, r \in {"accepted", "rejected", "uncertain"} :
          RollbackApplyReply(c, r)
    \/ \E c \in calls, ok \in BOOLEAN : RollbackVerifyReply(c, ok)
    \/ HookReturns
    \/ Timeout
    \/ AdoptConfirmed
    \/ Invalidate
    \/ RestartCore
    \/ ReplaceCore
    \/ BeginSeed
    \/ \E s \in seeds, cur \in BOOLEAN : SettleSeed(s, cur)
    \/ \E c \in calls : \E st \in {"accepted", "rejected"}, after \in {core, Mixed, c.data} :
          ServeApply(c, st, after)
    \/ \E c \in calls : ServeVerify(c)

\* The deadline is a timer on the main queue and a synchronous callback
\* returns: nothing is assumed of the core, the client or the file queue.
Fairness ==
    /\ WF_vars(Timeout)
    /\ WF_vars(HookReturns)

Spec == Init /\ [][Next]_vars /\ Fairness

-----------------------------------------------------------------------------
(* Properties *)

TypeOK ==
    /\ active \in Operation /\ active.op \in 0..MaxOps
    /\ confirmed \in Receipt
    /\ uncertain \in BOOLEAN
    /\ stateEpoch \in Nat
    /\ retained \subseteq Nat
    /\ disk \subseteq Nat
    /\ calls \subseteq Call
    /\ seeds \subseteq Seed
    /\ hook \in 0..MaxOps
    /\ outcome \in [1..MaxOps -> Outcomes]
    /\ ops \in 0..MaxOps
    /\ tokens \in Nat
    /\ snapshots \in 0..MaxSnapshots
    /\ curScope \in 1..MaxScopes
    /\ core \in Int
    /\ orphans \subseteq Nat /\ adrift \in BOOLEAN

\* The confirmed baseline, and whatever a running transaction would roll back
\* to or apply, is always still readable: no ending of another operation, no
\* adoption and no late file job ever deletes it.
SnapshotsKept ==
    /\ confirmed.id # 0 => confirmed.id \in disk
    /\ Files(active) \ {0} \subseteq disk

\* A validator or core that was handed a path and has not answered can still
\* read it, whatever the controller has decided in the meantime.
ReadersKept ==
    \A c \in calls : c.phase \in CorePhases /\ ~c.answered => c.file \in disk

\* Once an apply may or may not have happened, no transaction runs until a
\* readback is adopted or the core is replaced.
UncertainBlocks == uncertain => ~Busy /\ hook = 0

\* Two applies are never in flight at the live core, neither by a rollback nor by a
\* retry nor by the next transaction, unless the controller was reset over the
\* earlier one (a quit that is then cancelled, or a synchronous adoption).
OneApplyInFlight ==
    \A c, d \in calls :
        OpenApply(c) /\ OpenApply(d) /\ c.token < d.token => c.token \in orphans

\* When the controller is idle and certain, the receipt it confirmed for the
\* live core is what that core runs: after a commit, a rollback, a retry, a
\* seed that raced a transaction, and every timeout.  Only an apply the controller
\* was reset over can still change the core behind the receipt.
CoreMatchesConfirmed ==
    ~Busy /\ ~uncertain /\ confirmed.id # 0 /\ confirmed.scope = curScope
        => core = confirmed.data \/ adrift

\* A candidate is applied at most twice, and the second time only from a
\* baseline whose rollback was verified.
RetryBounded ==
    \A c, d \in calls :
        /\ c.phase = "applying" /\ d.phase = "applying"
        /\ c.op = d.op /\ c.token < d.token
        => /\ \A e \in calls : e.phase = "applying" /\ e.op = c.op => e \in {c, d}
           /\ \E e \in calls : /\ e.op = c.op /\ e.phase = "rollbackVerifying"
                               /\ e.st = "verified"
                               /\ c.token < e.token /\ e.token < d.token

\* While onRetry runs the verified baseline cannot change under the operation
\* without the operation being detached.
HookKeepsBaseline ==
    hook # 0 /\ active.op = hook =>
        confirmed = active.restoredBaseline /\ ~uncertain

\* A running transaction always has a way on that needs neither the core nor the
\* file queue: its deadline, or the return of its callback, can always be handled.
DeadlineHelps ==
    /\ Busy /\ hook = 0 => ENABLED <<Timeout>>_vars
    /\ hook # 0 => ENABLED <<HookReturns>>_vars

\* Every transaction ends, whether or not the core ever answers, and on the way the
\* deadline is never in vain.
TransactionEnds ==
    /\ []DeadlineHelps
    /\ \A o \in 1..MaxOps : (active.op = o) ~> (outcome[o] # "none")

-----------------------------------------------------------------------------
(* The inductive invariant behind SnapshotsKept, ReadersKept,               *)
(* UncertainBlocks and HookKeepsBaseline.                                   *)

Pending(c) == c.phase = "preparing" /\ ~c.answered

\* A snapshot still being written, or written and not yet looked at, belongs
\* to nobody else.
PendingFilesOwned ==
    /\ \A c \in calls : Pending(c) =>
          /\ c.file # 0 /\ c.file \notin {confirmed.id} \cup Files(active)
          /\ c.st = "written" => c.file \in disk
          /\ \A d \in calls : Pending(d) /\ d.file = c.file => d = c
          /\ \A s \in seeds : s.id # c.file
    /\ \A s \in seeds :
          /\ s.id # 0 /\ s.id \notin {confirmed.id} \cup Files(active)
          /\ s.st = "written" => s.id \in disk
          /\ \A t \in seeds : t.id = s.id => t = s

IdsAllocated ==
    /\ active.op <= ops /\ hook <= ops
    /\ confirmed.id <= snapshots
    /\ \A f \in Files(active) : f <= snapshots
    /\ \A c \in calls : c.file <= snapshots /\ c.token <= tokens
    /\ \A s \in seeds : s.id <= snapshots
    /\ \A c, d \in calls : c.token = d.token => c = d

OperationConsistent ==
    /\ ~Busy => active = NoOperation
    /\ active.candidate.id # 0 =>
          active.candidate.id \notin {confirmed.id, active.previous.id}
    /\ Busy /\ active.phase # "preparing" => active.candidate.id # 0
    /\ active.phase \in ApplyPhases \cup VerifyPhases => active.applyStarted
    /\ hook # 0 /\ active.op = hook =>
          /\ confirmed = active.restoredBaseline /\ ~active.fileMayBeInUse
          /\ active.phase = "rollbackVerifying"

\* An unanswered reader of a path is the current request of the running
\* operation, or its file is pinned.
ReadersAccounted ==
    \A c \in calls : c.phase \in CorePhases /\ ~c.answered =>
        /\ c.file \in disk
        /\ \/ c.file \in retained
           \/ /\ Matches(c) /\ active.fileMayBeInUse
              /\ c.file \in Files(active) \ {0}
              /\ c.phase \notin ApplyPhases => c.file = active.candidate.id

SnapshotInvariant ==
    /\ TypeOK
    /\ SnapshotsKept
    /\ UncertainBlocks
    /\ PendingFilesOwned
    /\ IdsAllocated
    /\ OperationConsistent
    /\ ReadersAccounted

-----------------------------------------------------------------------------
\* The comment above retainedSnapshots: any snapshot an in-flight request may
\* still be reading is kept, verification included.
InFlightSnapshotsKept ==
    \A c \in calls : c.phase \in VerifyPhases /\ ~c.answered => c.file \in disk
=============================================================================
