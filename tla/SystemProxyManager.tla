-------------------------- MODULE SystemProxyManager --------------------------
(***************************************************************************)
(* SystemProxyManager: the only writer of the macOS system proxy.  A call   *)
(* is a chain of helper requests that runs alone on a serialized queue; a   *)
(* timeout or a connection error ends the caller's wait but not the helper's*)
(* write.  The settings found before taking over are kept in UserDefaults.  *)
(*                                                                         *)
(* The helper answers requests in the order they arrive.  What a settlement *)
(* posts to the transition queue, and a predicate that is evaluated on the  *)
(* main queue in between, belong to the step that settles it: a predicate   *)
(* may always say no.  Network services are abstracted to one setting.      *)
(*                                                                         *)
(* An operator named D_<Fault> is the definition D with a plausible bug in *)
(* it.  No action uses one: each shows that some property would notice.    *)
(***************************************************************************)
EXTENDS Integers, Sequences, FiniteSets

CONSTANTS
    MaxCalls,    \* bound on the calls made
    Kinds,       \* the calls that are made
    External,    \* settings that are not ClashFX's
    Off,         \* the one of them with every proxy off
    ClashFX,     \* the setting that points at ClashFX's ports
    Nothing,     \* no setting
    Crashes      \* whether the process may crash

AllKinds == {"enable", "replace", "disable", "terminate", "checkpoint", "rollback"}

ASSUME ManagerAssumption ==
    /\ MaxCalls \in Nat
    /\ Kinds \subseteq AllKinds
    /\ Off \in External /\ ClashFX \notin External
    /\ Nothing \notin External \cup {ClashFX}
    /\ Crashes \in BOOLEAN

VARIABLES
    live,         \* the system proxy setting
    defaults,     \* UserDefaults: the snapshot, its validity, disableRestoreProxy
    calls,        \* what became of each call
    running,      \* the call whose operation is running, 0 if none
    generation,   \* activeGeneration
    pending,      \* the call whose helper write is unconfirmed, 0 if none
    terminating,  \* isTerminating
    requests,     \* what the helper has still to do
    replies,      \* what it has answered and ClashFX has not received
    checkpoint,   \* the last checkpoint handed out
    writer,       \* history: the call the helper wrote for last, 0 for the user
    owed,         \* history: live was taken over by a call that keeps a snapshot
    cut           \* history: a crash has left a snapshot marked valid and removed

process == <<running, generation, pending, terminating>>
history == <<writer, owed, cut>>
vars == <<live, defaults, calls, process, requests, replies, checkpoint, history>>

Calls == 1..MaxCalls
Setting == External \cup {ClashFX}

Defaults == [saved : Setting \cup {Nothing}, valid : BOOLEAN, restoreOff : BOOLEAN]

\* savedSnapshot and validity as they were when live was read
Checkpoint == [live : Setting \cup {Nothing}, saved : Setting \cup {Nothing}, valid : BOOLEAN]
NoCheckpoint == [live |-> Nothing, saved |-> Nothing, valid |-> FALSE]

Reads  == {"capturing", "verifying", "checkpointing", "confirming"}
Writes == {"displacing", "enabling", "disabling", "restoring", "reverting"}
Checks == {"beforeDisplacing", "beforeEnabling"}
Ended  == {"ok", "failed", "lost"}

Call == [kind : AllKinds \cup {"none"}, gen : Nat, keep : BOOLEAN, cp : Checkpoint,
         stage : Reads \cup Writes \cup Checks \cup Ended \cup {"new", "queued"}]
Done(result) == [kind |-> "none", gen |-> 0, keep |-> FALSE, cp |-> NoCheckpoint,
                 stage |-> result]

Request == [call : Calls, stage : Reads \cup Writes, value : Setting \cup {Nothing},
            keep : BOOLEAN]
Reply == [call : Calls, stage : Reads \cup Writes, value : Setting \cup {Nothing},
          ok : BOOLEAN]

\* A clean start, a start after a crash, and the first start after an upgrade
\* from a release that kept no validity marker.
Init ==
    /\ \E s \in External, v, off \in BOOLEAN :
          \/ live = s /\ defaults = [saved |-> Nothing, valid |-> FALSE, restoreOff |-> off]
          \/ live = ClashFX /\ defaults = [saved |-> s, valid |-> v, restoreOff |-> off]
    /\ owed = defaults.valid
    /\ writer = 0 /\ cut = FALSE
    /\ calls = [c \in Calls |-> Done("new")]
    /\ running = 0 /\ generation = 0 /\ pending = 0 /\ terminating = FALSE
    /\ requests = <<>> /\ replies = {}
    /\ checkpoint = NoCheckpoint
-----------------------------------------------------------------------------
(* What the stages of an operation have in common.                          *)

\* done() and the result: the operation makes room for the next one.
Finish(c, result) ==
    calls' = [calls EXCEPT ![c] = Done(result)] /\ running' = 0

\* ownedHelper fails: an unconfirmed write, no control or no helper.
NoHelper(c) == Finish(c, "failed") /\ UNCHANGED requests

Send(c, call, value) ==
    /\ calls' = [calls EXCEPT ![c] = call] /\ running' = c
    /\ requests' = Append(requests, [call |-> c, stage |-> call.stage, value |-> value,
                                     keep |-> call.keep])

At(c, stage) == [calls[c] EXCEPT !.stage = stage]

Quarantined_Never == FALSE

\* hasPendingHelperMutation
Quarantined == pending # 0

Ask(c, call) ==
    \/ ~Quarantined /\ Send(c, call, Nothing)
    \/ NoHelper(c)

\* trackHelperMutation
Write(c, call, value) ==
    \/ ~Quarantined /\ Send(c, call, value) /\ pending' = c
    \/ NoHelper(c) /\ UNCHANGED pending

\* acceptsCallback; checkpoint operations begin no transition
Accepts(c) ==
    calls[c].kind \in {"checkpoint", "rollback"} \/ calls[c].gen = generation

\* The reply r to what c asked in this stage has come while c waits for it.
Awaited(c, stage, r) ==
    /\ r \in replies /\ r.call = c /\ r.stage = stage
    /\ calls[c].stage = stage /\ Accepts(c)

Received(c, stage, r) == Awaited(c, stage, r) /\ replies' = replies \ {r}
-----------------------------------------------------------------------------
(* Calls and the serialized queue.                                          *)

\* A call is queued, or refused at once (no control, no port, a paused SSID).
Submit(c) ==
    /\ calls[c].stage = "new" /\ \A d \in Calls : d < c => calls[d].stage # "new"
    /\ \E k \in Kinds :
          \/ /\ k = "rollback" => checkpoint # NoCheckpoint
             /\ calls' = [calls EXCEPT ![c] =
                             [kind |-> k, gen |-> 0, keep |-> FALSE, stage |-> "queued",
                              cp |-> IF k = "rollback" THEN checkpoint ELSE NoCheckpoint]]
          \/ k # "rollback" /\ calls' = [calls EXCEPT ![c] = Done("failed")]
    /\ UNCHANGED <<live, defaults, process, requests, replies, checkpoint, history>>

\* startNext: no operation is running and c has waited longest.
IsFirst(c) ==
    /\ running = 0 /\ calls[c].stage = "queued"
    /\ \A d \in Calls : d < c => calls[d].stage # "queued"

\* The predicate says no, the process is terminating, or control is gone.
StartRefused(c) ==
    /\ IsFirst(c) /\ Finish(c, "failed")
    /\ UNCHANGED <<live, defaults, generation, pending, terminating, requests, replies,
                   checkpoint, history>>

MayMigrate_NoContent == ~defaults.valid /\ live = ClashFX

\* shouldMigrateLegacySnapshot
MayMigrate ==
    /\ ~defaults.valid /\ live = ClashFX
    /\ defaults.saved \notin {Nothing, ClashFX}

Transition(c, stage) ==
    [calls[c] EXCEPT !.stage = stage, !.gen = generation + 1, !.keep = ~defaults.restoreOff]

Prepared(kind) == IF kind = "replace" THEN "beforeDisplacing" ELSE "beforeEnabling"

StartEnable(c) ==
    /\ IsFirst(c) /\ calls[c].kind \in {"enable", "replace"} /\ ~terminating
    /\ generation' = generation + 1
    /\ LET valid == defaults.valid \/ MayMigrate IN
       /\ defaults' = [defaults EXCEPT !.valid = valid]
       /\ IF defaults.restoreOff \/ valid
          THEN /\ calls' = [calls EXCEPT ![c] = Transition(c, Prepared(calls[c].kind))]
               /\ running' = c /\ UNCHANGED requests
          ELSE Ask(c, Transition(c, "capturing"))
    /\ UNCHANGED <<live, pending, terminating, replies, checkpoint, history>>

ShouldRestore == ~defaults.restoreOff /\ defaults.valid

StartDisable_ClearsFirst(c) ==
    /\ IsFirst(c) /\ calls[c].kind \in {"disable", "terminate"}
    /\ terminating => calls[c].kind = "terminate"
    /\ generation' = generation + 1
    /\ IF ShouldRestore
       THEN /\ Write(c, Transition(c, "restoring"), defaults.saved)
            /\ defaults' = [defaults EXCEPT !.valid = FALSE]
       ELSE Write(c, Transition(c, "disabling"), Off) /\ UNCHANGED defaults
    /\ UNCHANGED <<live, terminating, replies, checkpoint, history>>

\* disableOrRestore
StartDisable(c) ==
    /\ IsFirst(c) /\ calls[c].kind \in {"disable", "terminate"}
    /\ terminating => calls[c].kind = "terminate"
    /\ generation' = generation + 1
    /\ IF ShouldRestore THEN Write(c, Transition(c, "restoring"), defaults.saved)
       ELSE Write(c, Transition(c, "disabling"), Off)
    /\ UNCHANGED <<live, defaults, terminating, replies, checkpoint, history>>

\* captureCheckpoint notes what is saved before it asks for what is live.
StartCheckpoint(c) ==
    /\ IsFirst(c) /\ calls[c].kind = "checkpoint"
    /\ Ask(c, [At(c, "checkpointing") EXCEPT
                  !.cp = [NoCheckpoint EXCEPT !.saved = defaults.saved,
                                              !.valid = defaults.valid]])
    /\ UNCHANGED <<live, defaults, generation, pending, terminating, replies, checkpoint,
                   history>>

\* invokeCheckpointRestore
StartRollback(c) ==
    /\ IsFirst(c) /\ calls[c].kind = "rollback"
    /\ Write(c, At(c, "reverting"), calls[c].cp.live)
    /\ UNCHANGED <<live, defaults, generation, terminating, replies, checkpoint, history>>
-----------------------------------------------------------------------------
(* The turns that continue an operation.                                    *)

SavesOwn(value) == live = ClashFX /\ value = ClashFX

\* captureSnapshot's completion, then enableAfterPreparation
Captured(c, r) ==
    /\ Received(c, "capturing", r)
    /\ \/ /\ r.ok /\ ~SavesOwn(r.value)
          /\ defaults' = [defaults EXCEPT !.saved = r.value, !.valid = TRUE]
          /\ IF terminating THEN Finish(c, "failed")
             ELSE /\ calls' = [calls EXCEPT ![c] = At(c, Prepared(calls[c].kind))]
                  /\ running' = c
       \/ Finish(c, "failed") /\ UNCHANGED defaults
    /\ UNCHANGED <<live, generation, pending, terminating, requests, checkpoint, history>>

MayWrite_Ending(c) == Accepts(c)

MayWrite(c) == ~terminating /\ Accepts(c)

\* forceDisableBeforeEnable
Displace(c) ==
    /\ calls[c].stage = "beforeDisplacing"
    /\ \/ MayWrite(c) /\ Write(c, At(c, "displacing"), Off)
       \/ NoHelper(c) /\ UNCHANGED pending
    /\ UNCHANGED <<live, defaults, generation, terminating, replies, checkpoint, history>>

\* invokeEnable
InvokeEnable(c) ==
    /\ calls[c].stage = "beforeEnabling"
    /\ \/ MayWrite(c) /\ Write(c, At(c, "enabling"), ClashFX)
       \/ NoHelper(c) /\ UNCHANGED pending
    /\ UNCHANGED <<live, defaults, generation, terminating, replies, checkpoint, history>>

\* The reply confirms that the write of c is over.
Confirmed(c) == IF pending = c THEN 0 ELSE pending

Displaced(c, r) ==
    /\ Received(c, "displacing", r) /\ pending' = Confirmed(c)
    /\ IF r.ok THEN calls' = [calls EXCEPT ![c] = At(c, "beforeEnabling")] /\ running' = c
       ELSE Finish(c, "failed")
    /\ UNCHANGED <<live, defaults, generation, terminating, requests, checkpoint, history>>

Switched_AnyAnswer(c, r) ==
    /\ Received(c, "enabling", r) \/ Received(c, "disabling", r)
    /\ pending' = Confirmed(c)
    /\ Finish(c, "ok")
    /\ UNCHANGED <<live, defaults, generation, terminating, requests, checkpoint, history>>

Switched(c, r) ==
    /\ Received(c, "enabling", r) \/ Received(c, "disabling", r)
    /\ pending' = Confirmed(c)
    /\ Finish(c, IF r.ok THEN "ok" ELSE "failed")
    /\ UNCHANGED <<live, defaults, generation, terminating, requests, checkpoint, history>>

\* A restored setting is read back before it is trusted.
ReadBack(c, stage, r) ==
    IF r.ok /\ Confirmed(c) = 0
    THEN Send(c, At(c, stage), Nothing) \/ NoHelper(c)
    ELSE NoHelper(c)

Restored(c, r) ==
    /\ Received(c, "restoring", r) /\ pending' = Confirmed(c)
    /\ ReadBack(c, "verifying", r)
    /\ UNCHANGED <<live, defaults, generation, terminating, checkpoint, history>>

\* restoredSnapshotMatches: every setting matches a snapshot without services.
Matches(r, expected) == r.ok /\ expected \in {r.value, Nothing}

ClearSnapshot == [defaults EXCEPT !.saved = Nothing, !.valid = FALSE]

\* verifyRestoredSnapshot's completion
Verified(c, r) ==
    /\ Received(c, "verifying", r)
    /\ IF Matches(r, defaults.saved) THEN Finish(c, "ok") /\ defaults' = ClearSnapshot
       ELSE Finish(c, "failed") /\ UNCHANGED defaults
    /\ UNCHANGED <<live, generation, pending, terminating, requests, checkpoint, history>>

CheckpointRead(c, r) ==
    /\ Received(c, "checkpointing", r)
    /\ \/ r.ok /\ Finish(c, "ok") /\ checkpoint' = [calls[c].cp EXCEPT !.live = r.value]
       \/ Finish(c, "failed") /\ UNCHANGED checkpoint
    /\ UNCHANGED <<live, defaults, generation, pending, terminating, requests, history>>

Reverted(c, r) ==
    /\ Received(c, "reverting", r) /\ pending' = Confirmed(c)
    /\ ReadBack(c, "confirming", r)
    /\ UNCHANGED <<live, defaults, generation, terminating, checkpoint, history>>

RollbackConfirmed_TriesAgain(c, r) ==
    /\ Received(c, "confirming", r)
    /\ \/ /\ Matches(r, calls[c].cp.live) /\ Finish(c, "ok")
          /\ defaults' = [defaults EXCEPT !.saved = calls[c].cp.saved,
                                          !.valid = calls[c].cp.valid]
       \/ calls' = [calls EXCEPT ![c].stage = "queued"] /\ running' = 0 /\ UNCHANGED defaults
    /\ UNCHANGED <<live, generation, pending, terminating, requests, checkpoint, history>>

\* verifyCheckpointRestore's completion
RollbackConfirmed(c, r) ==
    /\ Received(c, "confirming", r)
    /\ \/ /\ Matches(r, calls[c].cp.live) /\ Finish(c, "ok")
          /\ defaults' = [defaults EXCEPT !.saved = calls[c].cp.saved,
                                          !.valid = calls[c].cp.valid]
       \/ Finish(c, "failed") /\ UNCHANGED defaults
    /\ UNCHANGED <<live, generation, pending, terminating, requests, checkpoint, history>>

\* The stage times out or its connection fails; a write stays unconfirmed.
StageFails(c) ==
    /\ calls[c].stage \in Reads \cup Writes /\ Accepts(c)
    /\ Finish(c, "failed")
    /\ UNCHANGED <<live, defaults, generation, pending, terminating, requests, replies,
                   checkpoint, history>>

\* Nobody waits for the reply any more, but it confirms the end of a write.
LateReply(c) ==
    /\ \E r \in replies :
          /\ r.call = c /\ (calls[c].stage # r.stage \/ ~Accepts(c))
          /\ replies' = replies \ {r}
          /\ pending' = IF r.stage \in Writes THEN Confirmed(c) ELSE pending
    /\ UNCHANGED <<live, defaults, calls, running, generation, terminating, requests,
                   checkpoint, history>>
-----------------------------------------------------------------------------
(* The helper, the user, and the life of the process.                       *)

\* The helper does the first request.  A failed write may have taken effect;
\* restoring a snapshot without services leaves everything as it is.
HelperServes ==
    /\ requests # <<>>
    /\ LET q == Head(requests)
           answer(v, ok) == IF calls[q.call].stage = "lost" THEN replies
                            ELSE replies \cup {[call |-> q.call, stage |-> q.stage,
                                                value |-> v, ok |-> ok]}
       IN \E ok \in BOOLEAN :
             \/ /\ q.stage \in Reads /\ replies' = answer(live, ok)
                /\ UNCHANGED <<live, history>>
             \/ /\ q.stage \in Writes /\ replies' = answer(Nothing, ok)
                /\ writer' = q.call
                /\ \/ /\ q.value # Nothing /\ live' = q.value
                      /\ owed' = (q.stage = "enabling" /\ (q.keep \/ (owed /\ live = ClashFX)))
                   \/ q.value = Nothing /\ UNCHANGED <<live, owed>>
                /\ UNCHANGED cut
             \/ /\ q.stage \in Writes /\ ~ok /\ replies' = answer(Nothing, FALSE)
                /\ UNCHANGED <<live, history>>
    /\ requests' = Tail(requests)
    /\ UNCHANGED <<defaults, calls, process, checkpoint>>

\* The user, or another program, sets the system proxy.
UserChanges ==
    /\ live' \in External /\ live' # live
    /\ writer' = 0 /\ owed' = FALSE
    /\ UNCHANGED <<defaults, calls, process, requests, replies, checkpoint, cut>>

\* The preference disableRestoreProxy
ToggleRestore ==
    /\ defaults' = [defaults EXCEPT !.restoreOff = ~@]
    /\ UNCHANGED <<live, calls, process, requests, replies, checkpoint, history>>

\* prepareForTermination and resumeAfterCancelledTermination
SetTerminating ==
    /\ terminating' = ~terminating
    /\ UNCHANGED <<live, defaults, calls, running, generation, pending, requests, replies,
                   checkpoint, history>>

\* The process dies and comes back; what it asked has reached the helper or not.
Dies ==
    /\ Crashes
    /\ calls' = [c \in Calls |-> IF calls[c].stage = "new" THEN calls[c] ELSE Done("lost")]
    /\ running' = 0 /\ generation' = 0 /\ pending' = 0 /\ terminating' = FALSE
    /\ replies' = {} /\ checkpoint' = NoCheckpoint /\ requests' \in {requests, <<>>}

Crash == Dies /\ UNCHANGED <<live, defaults, history>>

\* Snapshot and validity are two keys of UserDefaults, written one after the
\* other: what a crash in between leaves of Captured, Verified, RollbackConfirmed.
FirstKey(c, r) ==
    \/ Awaited(c, "capturing", r) /\ r.ok /\ ~SavesOwn(r.value)
       /\ defaults' = [defaults EXCEPT !.saved = r.value]
    \/ Awaited(c, "verifying", r) /\ Matches(r, defaults.saved)
       /\ defaults' = [defaults EXCEPT !.saved = Nothing]
    \/ Awaited(c, "confirming", r) /\ Matches(r, calls[c].cp.live)
       /\ defaults' = [defaults EXCEPT !.saved = calls[c].cp.saved]

CrashHalfway ==
    /\ \E c \in Calls : \E r \in replies : FirstKey(c, r)
    /\ cut' = (cut \/ (defaults'.valid /\ defaults'.saved = Nothing))
    /\ Dies /\ UNCHANGED <<live, writer, owed>>

Start(c) ==
    \/ StartRefused(c) \/ StartEnable(c) \/ StartDisable(c)
    \/ StartCheckpoint(c) \/ StartRollback(c)

Turn(c) == Displace(c) \/ InvokeEnable(c) \/ StageFails(c)

Replied(c) ==
    \E r \in replies :
        \/ Captured(c, r) \/ Displaced(c, r) \/ Switched(c, r) \/ Restored(c, r)
        \/ Verified(c, r) \/ CheckpointRead(c, r) \/ Reverted(c, r)
        \/ RollbackConfirmed(c, r)

Next ==
    \/ \E c \in Calls : Submit(c) \/ Start(c) \/ Turn(c) \/ Replied(c) \/ LateReply(c)
    \/ HelperServes \/ UserChanges \/ ToggleRestore \/ SetTerminating \/ Crash
    \/ CrashHalfway

Spec == Init /\ [][Next]_vars

\* The serialized queue goes on and timeouts fire; the helper may be silent.
QueueGoesOn == \E c \in Calls : Start(c) \/ Turn(c)
FairSpec == Spec /\ WF_vars(QueueGoesOn)
-----------------------------------------------------------------------------
(* Properties.                                                              *)

Types ==
    /\ live \in Setting /\ defaults \in Defaults
    /\ calls \in [Calls -> Call]
    /\ running \in Calls \cup {0} /\ generation \in Nat
    /\ pending \in Calls \cup {0} /\ terminating \in BOOLEAN
    /\ requests \in Seq(Request) /\ replies \subseteq Reply
    /\ checkpoint \in Checkpoint
    /\ writer \in Calls \cup {0} /\ owed \in BOOLEAN /\ cut \in BOOLEAN

\* Types, and what the mark of validity means: also a snapshot that was marked
\* by the migration from an older release is one.
TypeOK == Types /\ (defaults.valid => cut \/ defaults.saved # Nothing)

Mine(q) == calls[q.call].stage # "lost"

\* "Keep mutations quarantined until the actual helper reply confirms exit":
\* nothing this process asks of the helper waits behind a write of its own.
Quarantine ==
    /\ \A i \in DOMAIN requests :
          requests[i].stage \in Writes /\ Mine(requests[i])
              => i = Len(requests) /\ pending = requests[i].call
    /\ \A r \in replies :
          r.stage \in Writes
              => pending = r.call /\ \A i \in DOMAIN requests : ~Mine(requests[i])

\* "Enabling never reaches the privileged helper until the previous settings
\* have been captured or a known-valid snapshot already exists", and the
\* snapshot stays as long as ClashFX's setting is in force, over crashes at any
\* point but one: between the two keys clearSnapshot writes, which leaves a valid
\* snapshot that is no longer there, and the next enable captures nothing.
SnapshotHeld ==
    live = ClashFX /\ owed => cut \/ (defaults.valid /\ defaults.saved # Nothing)

\* A call that reports success had the last word: since its own write only the
\* user has changed the system proxy, never a late write of another call.  (What
\* it restores is nothing when the snapshot was cut.)
ReportsTrue ==
    [][\A c \in Calls :
          calls[c].kind \in {"enable", "replace", "disable", "terminate", "rollback"}
          /\ calls'[c].stage = "ok" => writer \in {0, c}]_vars

\* While the process terminates no enable reaches the helper.
TerminatingQuiet ==
    [][terminating /\ Len(requests') > Len(requests)
          => requests'[Len(requests')].stage \notin {"enabling", "displacing"}]_vars

\* Nothing that was asked for is left to be done.
Idle == running = 0 /\ \A c \in Calls : calls[c].stage # "queued"

\* Whatever becomes of the process and of its other calls, the queue can go on
\* until it is idle: without a reply an operation times out.
NeverStuck == ~Idle => ENABLED <<QueueGoesOn>>_vars

Ends(c) == calls[c].stage \notin Ended /\ calls[c].stage' \in Ended

\* Every call ends, also if the helper never answers: the queue is never stuck,
\* and it is idle again and again unless calls end for ever, which a bounded number
\* of calls does not.
CallsEnd ==
    /\ []NeverStuck
    /\ []<>Idle \/ []<><<\E c \in Calls : Ends(c)>>_vars
=============================================================================
