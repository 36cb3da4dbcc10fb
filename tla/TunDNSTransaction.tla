-------------------------- MODULE TunDNSTransaction --------------------------
(***************************************************************************)
(* TunDNSTransactionController: while the tunnel runs, the system resolvers *)
(* point at it.  What they were before is kept in a journal on disk that is *)
(* written before every change and cleared after a verified restore.  An    *)
(* operation is a chain of helper requests and journal I/O; a timeout ends  *)
(* the wait for it, not what it has already handed to either queue.         *)
(*                                                                         *)
(* The helper's part is included: both sides number a transaction by the    *)
(* capture it begins with, here by the call that asked for it.  Network     *)
(* services are abstracted to one, and the property list to addresses and   *)
(* search domains.  A journal is of version 2.                              *)
(*                                                                         *)
(* An operator named D_<Fault> is the definition D with a plausible bug in *)
(* it.  No action uses one: each shows that some property would notice.    *)
(***************************************************************************)
EXTENDS Integers, Sequences, FiniteSets

CONSTANTS
    MaxCalls,        \* bound on the calls made
    Profiles,        \* the DNS settings users choose: addresses, perhaps none,
                     \* and search domains, which stand for the other fields
    Tun,             \* tunDNSServer
    MaxPredecessors, \* maximumPredecessorTransactionIDs
    None             \* no snapshot, no transaction, no answer

ASSUME TunDNSAssumption ==
    /\ MaxCalls \in Nat /\ MaxPredecessors \in Nat
    /\ \A p \in Profiles : p = [addr |-> p.addr, domains |-> p.domains] /\ p.addr # Tun
    /\ None \notin Nat

VARIABLES
    live,      \* the DNS settings of the network services
    journal,   \* .tun_dns_snapshot.json
    calls,     \* what became of each call
    running,   \* the call whose operation is running, 0 if none
    answer,    \* the callback of the running call that waits on the main queue
    io,        \* journalIOQueue
    requests,  \* the helper's DNS operation queue
    asked,     \* the restores that wait for the helper's protocol version
    helper,    \* what the helper remembers of the latest capture and write
    own        \* history: the user's settings, without what ClashFX put there

vars == <<live, journal, calls, running, answer, io, requests, asked, helper, own>>

Calls == 1..MaxCalls
Ids == 0..MaxCalls   \* 0 is a transaction of an earlier process

Addresses == { p.addr : p \in Profiles }
Domains   == { p.domains : p \in Profiles }
Setting   == [addr : Addresses \cup {Tun}, domains : Domains]
Fits_OneMore(ids) == Cardinality(ids) <= MaxPredecessors + 1

\* hasValidPredecessorHistory
Fits(ids) == Cardinality(ids) <= MaxPredecessors

\* previous: the transactions before this one whose writes it may undo
Snapshot == [id : Ids, original : Setting, previous : SUBSET Ids]

ASSUME NoneAssumption == None \notin Snapshot

Loads    == {"loading", "comparing", "fetching", "rechecking"}
Saves    == {"saving", "pruning"}
Asks     == {"capturing", "applying", "restoring", "flushing", "refreshing"}
Waiting  == Loads \cup Saves \cup Asks \cup {"clearing"}
\* A restore may have had nothing to do, and an unsettled clear goes on after its
\* call has ended.
Ended    == {"ok", "nothing", "failed", "unsettled"}

\* A close advances enhancedModeGeneration before it asks for the restore; the
\* rollback of a launch and a helper update restore at the current generation.
Restores == {"close", "restore"}

Call == [kind : {"apply", "none"} \cup Restores, snap : Snapshot \cup {None},
         stage : {"new", "queued"} \cup Waiting \cup Ended]

\* Of a call that has ended it matters that it was a restore, unless it failed.
Done(kind, result) ==
    [kind |-> IF kind \in Restores /\ result # "failed" THEN kind ELSE "none",
     snap |-> None, stage |-> result]

\* begun: save has been called.
Job     == [call : Calls, stage : Loads \cup Saves \cup {"clearing"},
            snap : Snapshot \cup {None}, begun : BOOLEAN]
Request == [call : Calls, stage : Asks, snap : Snapshot \cup {None}]
Answer  == [ok : BOOLEAN, snap : Snapshot \cup {None}]

Helper == [capture : Ids \cup {None}, write : Ids \cup {None}, restored : BOOLEAN]
FreshHelper == [capture |-> None, write |-> None, restored |-> FALSE]

\* A clean start, and one after a session that left the tunnel's resolvers.
Init ==
    /\ own \in Profiles
    /\ \/ live = own /\ journal = None /\ helper = FreshHelper
       \/ /\ live = [own EXCEPT !.addr = Tun]
          /\ journal = [id |-> 0, original |-> own, previous |-> {}]
          /\ helper = [capture |-> 0, write |-> 0, restored |-> FALSE]
    /\ calls = [c \in Calls |-> Done("none", "new")]
    /\ running = 0 /\ answer = None
    /\ io = <<>> /\ requests = <<>> /\ asked = {}
-----------------------------------------------------------------------------
(* What the stages of an operation have in common.                          *)

Stage(c) == calls[c].stage
At(c, stage, snap) == [calls EXCEPT ![c].stage = stage, ![c].snap = snap]

\* settlement.finish and done()
Finish(c, result) ==
    /\ calls' = [calls EXCEPT ![c] = Done(@.kind, result)]
    /\ running' = 0 /\ answer' = None
    /\ UNCHANGED <<io, requests, asked>>

\* A request of the helper, and a job for the journal's queue
Ask(c, stage, snap) ==
    /\ calls' = At(c, stage, snap) /\ running' = c /\ answer' = None
    /\ requests' = Append(requests, [call |-> c, stage |-> stage, snap |-> snap])
    /\ UNCHANGED <<io, asked>>

Enqueue(c, stage, snap, written) ==
    /\ calls' = At(c, stage, snap) /\ running' = c /\ answer' = None
    /\ io' = Append(io, [call |-> c, stage |-> stage, snap |-> written, begun |-> FALSE])
    /\ UNCHANGED <<requests, asked>>

\* client.restore: the helper is asked for its version before it is sent restoreDNS.
AskVersion(c, snap) ==
    /\ calls' = At(c, "restoring", snap) /\ running' = c /\ answer' = None
    /\ asked' = asked \cup {[call |-> c, stage |-> "restoring", snap |-> snap]}
    /\ UNCHANGED <<io, requests>>

loadJournal(c, stage, snap) == Enqueue(c, stage, snap, None)
saveJournal(c, stage, snap, written) == Enqueue(c, stage, snap, written)

outside == <<live, journal, helper, own>>

\* isCurrent of an apply, to which every caller gives its generation: a later close
\* supersedes it, a later restore at the same generation does not.  Whatever else
\* advances the generation may supersede any operation, see Fails.
IsCurrent(c) ==
    calls[c].kind = "apply" => \A d \in Calls : d > c => calls[d].kind # "close"

\* The callback of c in this stage runs with ok.
Answered(c, stage, ok) ==
    /\ running = c /\ Stage(c) = stage /\ IsCurrent(c)
    /\ answer # None /\ answer.ok = ok
-----------------------------------------------------------------------------
(* Calls and the serialized queue.                                          *)

\* A restore without a journal has nothing to do (hasSavedDNSInfo), and without
\* a helper every call fails.
Submit(c) ==
    /\ Stage(c) = "new" /\ \A d \in Calls : d < c => Stage(d) # "new"
    /\ \E k \in {"apply"} \cup Restores, stage \in {"queued", "failed"} :
          calls' = [calls EXCEPT ![c] =
                       IF k \in Restores /\ journal = None THEN Done(k, "nothing")
                       ELSE [Done(k, stage) EXCEPT !.kind = IF stage = "queued" \/ k = "close" THEN k ELSE @]]
    /\ UNCHANGED <<running, answer, io, requests, asked, outside>>

\* startNext
IsFirst(c) ==
    /\ running = 0 /\ Stage(c) = "queued"
    /\ \A d \in Calls : d < c => Stage(d) # "queued"

Start(c) ==
    /\ IsFirst(c)
    /\ \/ calls[c].kind = "apply" /\ IsCurrent(c) /\ Ask(c, "capturing", None)
       \/ calls[c].kind \in Restores /\ loadJournal(c, "fetching", None)
       \/ Finish(c, "failed")    \* not isCurrent
    /\ UNCHANGED outside

\* A timeout, an error, or an operation that is no longer current.  Once the
\* clear is on its way the two callbacks left handle this themselves.
Fails(c) ==
    /\ running = c /\ Stage(c) \in Waiting \ {"clearing", "refreshing"}
    /\ Finish(c, "failed") /\ UNCHANGED outside
-----------------------------------------------------------------------------
(* apply                                                                    *)

Captured(c) ==
    /\ Answered(c, "capturing", TRUE)
    /\ loadJournal(c, "loading", answer.snap) /\ UNCHANGED outside

Predecessors_Compacts(previous, id) == IF previous = None THEN {} ELSE {previous.id} \ {id}

\* predecessorTransactionIDs
Predecessors(previous, id) ==
    IF previous = None THEN {} ELSE (previous.previous \cup {previous.id}) \ {id}

Original_AsCaptured(captured, previous) == captured.original

\* The original of the service: with our resolvers in place, the addresses are
\* those of the earlier journal and the rest is what was captured.
Original(captured, previous) ==
    IF previous # None /\ captured.original.addr = Tun
    THEN [captured.original EXCEPT !.addr = previous.original.addr]
    ELSE captured.original

Merging(captured, previous) ==
    [captured EXCEPT !.original = Original(captured, previous),
                     !.previous = Predecessors(previous, captured.id)]

\* The journal was loaded: it is merged and written before anything changes.
Loaded(c) ==
    /\ Answered(c, "loading", TRUE)
    /\ IF Fits(Predecessors(answer.snap, c))
       THEN LET merged == Merging(calls[c].snap, answer.snap)
            IN saveJournal(c, "saving", merged, merged)
       ELSE Finish(c, "failed")
    /\ UNCHANGED outside

Saved(c) ==
    /\ Answered(c, "saving", TRUE)
    /\ Ask(c, "applying", calls[c].snap) /\ UNCHANGED outside

Applied(c) ==
    /\ Answered(c, "applying", TRUE)
    /\ IF calls[c].snap.previous = {} THEN Ask(c, "flushing", calls[c].snap)
       ELSE loadJournal(c, "comparing", calls[c].snap)
    /\ UNCHANGED outside

\* prunePredecessorsAfterApply; a journal that cannot be read is a changed one.
Compared(c) ==
    /\ \E ok \in BOOLEAN : Answered(c, "comparing", ok)
    /\ IF answer.ok /\ answer.snap = calls[c].snap
       THEN saveJournal(c, "pruning", calls[c].snap, [calls[c].snap EXCEPT !.previous = {}])
       ELSE Ask(c, "flushing", calls[c].snap)
    /\ UNCHANGED outside

Pruned(c) ==
    /\ \E ok \in BOOLEAN : Answered(c, "pruning", ok)
    /\ Ask(c, "flushing", calls[c].snap) /\ UNCHANGED outside

\* flushAfterApply
Flushed(c) == Answered(c, "flushing", TRUE) /\ Finish(c, "ok") /\ UNCHANGED outside
-----------------------------------------------------------------------------
(* restore                                                                  *)

Fetched_LooksAgain(c) ==
    /\ Answered(c, "fetching", TRUE)
    /\ IF answer.snap = None
       THEN /\ calls' = At(c, "queued", None) /\ running' = 0 /\ answer' = None
            /\ UNCHANGED <<io, requests, asked>>
       ELSE AskVersion(c, answer.snap)
    /\ UNCHANGED outside

Fetched(c) ==
    /\ Answered(c, "fetching", TRUE)
    /\ IF answer.snap = None THEN Finish(c, "ok") ELSE AskVersion(c, answer.snap)
    /\ UNCHANGED outside

Restored_AnyAnswer(c) ==
    /\ \E ok \in BOOLEAN : Answered(c, "restoring", ok)
    /\ loadJournal(c, "rechecking", calls[c].snap) /\ UNCHANGED outside

Restored(c) ==
    /\ Answered(c, "restoring", TRUE)
    /\ loadJournal(c, "rechecking", calls[c].snap) /\ UNCHANGED outside

\* The journal is still the one that was restored: it may be cleared.
Rechecked(c) ==
    /\ Answered(c, "rechecking", TRUE)
    /\ IF answer.snap = calls[c].snap THEN saveJournal(c, "clearing", calls[c].snap, None)
       ELSE Finish(c, "failed")
    /\ UNCHANGED outside

Cleared(c) ==
    /\ \/ Answered(c, "clearing", TRUE) /\ Ask(c, "refreshing", calls[c].snap)
       \/ Answered(c, "clearing", FALSE) /\ Finish(c, "failed")
    /\ UNCHANGED outside

IsClear(j, c) == j.call = c /\ j.stage = "clearing"

Withdrawn_Kept(i) == io

\* cancelBeforeStartOrGetResult in state queued: the clear never begins.
Withdrawn(i) == SubSeq(io, 1, i - 1) \o SubSeq(io, i + 1, Len(io))

\* journalClearTimeout: the clear waits, runs, or is over.
ClearTimesOut(c) ==
    /\ running = c /\ Stage(c) = "clearing"
    /\ \/ \E i \in DOMAIN io :
             /\ IsClear(io[i], c)
             /\ calls' = [calls EXCEPT ![c] = Done(@.kind, IF io[i].begun THEN "unsettled" ELSE "failed")]
             /\ io' = IF io[i].begun THEN io ELSE Withdrawn(i)
             /\ running' = 0 /\ answer' = None /\ UNCHANGED <<requests, asked>>
       \/ answer # None /\ Finish(c, IF answer.ok THEN "ok" ELSE "failed")
    /\ UNCHANGED outside

\* Restored DNS is safe even if the cache refresh fails or never answers.
Refreshed(c) ==
    running = c /\ Stage(c) = "refreshing" /\ Finish(c, "ok") /\ UNCHANGED outside
-----------------------------------------------------------------------------
(* The journal's queue.                                                     *)

\* The answer reaches the call if it still waits for it.
Deliver(q, ok, snap) ==
    answer' = IF running = q.call /\ Stage(q.call) = q.stage
              THEN [ok |-> ok, snap |-> snap] ELSE answer

JournalLoads ==
    /\ io # <<>> /\ Head(io).stage \in Loads /\ io' = Tail(io)
    /\ \E ok \in BOOLEAN : Deliver(Head(io), ok, IF ok THEN journal ELSE None)
    /\ UNCHANGED <<journal, calls, running, requests, asked, live, helper, own>>

\* A save may fail before the file is replaced or after it.
JournalSaves ==
    /\ io # <<>> /\ Head(io).stage \in Saves /\ io' = Tail(io)
    /\ \E ok \in BOOLEAN :
          /\ Deliver(Head(io), ok, None)
          /\ \/ journal' = Head(io).snap
             \/ ~ok /\ UNCHANGED journal
    /\ UNCHANGED <<calls, running, requests, asked, live, helper, own>>

ClearBegins ==
    /\ io # <<>> /\ Head(io).stage = "clearing" /\ ~Head(io).begun
    /\ io' = [io EXCEPT ![1].begun = TRUE]
    /\ UNCHANGED <<journal, calls, running, answer, requests, asked, live, helper, own>>

ClearEnds ==
    /\ io # <<>> /\ Head(io).begun /\ io' = Tail(io)
    /\ \E ok \in BOOLEAN :
          /\ Deliver(Head(io), ok, None)
          /\ journal' = IF ok THEN None ELSE journal
    /\ UNCHANGED <<calls, running, requests, asked, live, helper, own>>
-----------------------------------------------------------------------------
(* The helper.                                                              *)

\* The request the helper serves next, and the answer it gives
IsNext(stage) == requests # <<>> /\ Head(requests).stage = stage

Serves(stage, ok, snap) ==
    /\ IsNext(stage)
    /\ requests' = Tail(requests) /\ Deliver(Head(requests), ok, snap)
    /\ UNCHANGED <<journal, calls, running, io, asked, own>>

\* captureDNS
HelperCaptures ==
    \/ /\ Serves("capturing", TRUE, [id |-> Head(requests).call, original |-> live, previous |-> {}])
       /\ helper' = [helper EXCEPT !.capture = Head(requests).call] /\ UNCHANGED live
    \/ Serves("capturing", FALSE, None) /\ UNCHANGED <<live, helper>>

\* ClashFXDNSSettingsByReplacingServers
Override(setting) == [setting EXCEPT !.addr = Tun]

\* The fences of applyDNS
MayApply(snap) ==
    /\ helper.capture \in {None, snap.id}
    /\ ~(helper.restored /\ helper.write = snap.id)

\* ClashFXDNSCurrentMatchesOriginalOrApplied: not changed since the capture
Matches(snap) == live \in {snap.original, Override(snap.original)}

\* applyDNSWithSnapshot: a write that reports an error may be in force.
HelperApplies ==
    /\ IsNext("applying")
    /\ LET snap == Head(requests).snap
           tried == [helper EXCEPT !.write = snap.id, !.restored = FALSE]
       IN \/ /\ MayApply(snap) /\ Matches(snap) /\ helper' = tried
             /\ live' = Override(snap.original)
             /\ \E ok \in BOOLEAN : Serves("applying", ok, None)
          \/ /\ Serves("applying", FALSE, None) /\ UNCHANGED live
             /\ helper' = IF MayApply(snap) THEN tried ELSE helper

\* ClashFXDNSRestoreSnapshotMatchesLatestWrite
Accepts(snap) ==
    \/ helper.write \in {None, snap.id}
    \/ Fits(snap.previous) /\ helper.write \in snap.previous

IsOurs_AddressOnly(original) == live.addr = Tun

\* ClashFXDNSRestoreDecisionForCurrent: ours to restore, else in conflict
IsOurs(original) == live = Override(original)

\* ClashFXDNSRestoreDecisionForCurrent: already restored or detached
Settled(setting, original) == setting = original \/ setting.addr # Tun

\* restoreDNS
HelperRestores ==
    /\ IsNext("restoring")
    /\ LET snap == Head(requests).snap
       IN \/ /\ Accepts(snap) /\ (Settled(live, snap.original) \/ IsOurs(snap.original))
             /\ Serves("restoring", TRUE, None)
             /\ live' = IF Settled(live, snap.original) THEN live ELSE snap.original
             /\ helper' = [helper EXCEPT !.restored = TRUE]
          \/ /\ Serves("restoring", FALSE, None) /\ UNCHANGED helper
             /\ \/ UNCHANGED live
                \/ Accepts(snap) /\ IsOurs(snap.original) /\ live' = snap.original

\* The version arrives: restoreDNS is sent, also if the call has ended and others
\* have sent requests since, or the helper is too old.
VersionArrives ==
    /\ \E q \in asked :
          /\ asked' = asked \ {q}
          /\ \/ requests' = Append(requests, q) /\ UNCHANGED answer
             \/ Deliver(q, FALSE, None) /\ UNCHANGED requests
    /\ UNCHANGED <<journal, calls, running, io, live, helper, own>>

\* flushDNSCache
HelperFlushes ==
    /\ \E s \in {"flushing", "refreshing"}, ok \in BOOLEAN : Serves(s, ok, None)
    /\ UNCHANGED <<live, helper>>
-----------------------------------------------------------------------------
(* The user, and the lives of the two processes.                            *)

\* Other settings, or other search domains with the tunnel's resolver in place
UserChanges ==
    /\ \E s \in Profiles \cup (IF live.addr = Tun THEN {[live EXCEPT !.domains = d] : d \in Domains}
                               ELSE {}) :
          /\ s # live /\ live' = s
          /\ own' = IF s.addr = Tun THEN [own EXCEPT !.domains = s.domains] ELSE s
    /\ UNCHANGED <<journal, calls, running, answer, io, requests, asked, helper>>

\* ClashFX dies: what it asked of the helper has reached it or not.
Crash ==
    /\ calls' = [c \in Calls |-> IF Stage(c) = "new" THEN calls[c] ELSE Done("none", "failed")]
    /\ running' = 0 /\ answer' = None /\ io' = <<>> /\ asked' = {}
    /\ requests' \in {requests, <<>>}
    /\ UNCHANGED outside

\* A version that has not arrived is lost with the connection.
HelperRestarts ==
    /\ helper' = FreshHelper /\ requests' = <<>> /\ asked' = {}
    /\ UNCHANGED <<live, journal, calls, running, answer, io, own>>

Turn(c) ==
    \/ Captured(c) \/ Loaded(c) \/ Saved(c) \/ Applied(c) \/ Compared(c) \/ Pruned(c)
    \/ Flushed(c) \/ Fetched(c) \/ Restored(c) \/ Rechecked(c) \/ Cleared(c)
    \/ ClearTimesOut(c) \/ Refreshed(c) \/ Fails(c)

JournalQueue == JournalLoads \/ JournalSaves \/ ClearBegins \/ ClearEnds

HelperQueue == HelperCaptures \/ HelperApplies \/ HelperRestores \/ HelperFlushes
               \/ VersionArrives

Next ==
    \/ \E c \in Calls : Submit(c) \/ Start(c) \/ Turn(c)
    \/ JournalQueue \/ HelperQueue \/ UserChanges \/ Crash \/ HelperRestarts

Spec == Init /\ [][Next]_vars

\* The main queue goes on and timeouts fire; helper and disk may be silent.
QueueGoesOn == \E c \in Calls : Start(c) \/ Turn(c)
FairSpec == Spec /\ WF_vars(QueueGoesOn)
-----------------------------------------------------------------------------
(* Properties.                                                              *)

\* Types; the lineage of a journal stays within its bound, the transaction
\* itself is never part of it, and only an operation that runs has an answer.
TypeOK ==
    /\ live \in Setting /\ own \in Setting
    /\ journal \in Snapshot \cup {None}
    /\ calls \in [Calls -> Call]
    /\ running \in Calls \cup {0} /\ answer \in Answer \cup {None}
    /\ io \in Seq(Job) /\ requests \in Seq(Request) /\ asked \subseteq Request
    /\ helper \in Helper
    /\ journal # None => Cardinality(journal.previous) <= MaxPredecessors /\ journal.id \notin journal.previous
    /\ answer # None => running # 0 /\ Stage(running) \in Waiting

\* Whenever the resolvers are the tunnel's, the helper would accept the journal on
\* disk for a restore, after any number of applies, timeouts and late writes: "Its
\* bounded lineage permits recovery of that preceding write".
StillRestorable == live.addr = Tun => journal # None /\ Accepts(journal)

\* The resolvers of the tunnel give way to exactly what the user would have by
\* now, search domains changed in the meantime included, and take nothing else
\* of it away while they are in force.
RestoresExactly ==
    [][/\ live'.addr = Tun => live'.domains = own'.domains
       /\ live.addr = Tun /\ live'.addr # Tun => live' = own']_vars

Succeeded == {"ok", "nothing"}

\* What a restore that has succeeded promises of the calls before it: all of it if
\* it ran, and if it found nothing to do, only to a close.  An apply that is under
\* way goes on over a restore at the current generation.
Holds(c) == Stage(c) = "ok" \/ (Stage(c) = "nothing" /\ calls[c].kind = "close")

\* A restore that is reported as a success left no resolver of the tunnel behind.
\* Where the code serialises or supersedes the applies before it, no write of an
\* earlier call brings one back, however late it is served.
RestoresHold ==
    [][\A c \in Calls : calls'[c].kind \in Restores =>
          /\ Stage(c) \notin Succeeded /\ Stage(c)' \in Succeeded => live.addr # Tun
          /\ Holds(c) /\ live.addr # Tun /\ live'.addr = Tun => helper'.write > c]_vars

\* "A late reply never clears a newer journal", and a clear that its timeout
\* called off does not happen: a call that has ended clears the journal only if
\* it said that the clear was still in progress.
ClearsAsReported ==
    [][journal # None /\ journal' = None =>
          /\ Stage(Head(io).call) \in {"clearing", "unsettled"}
          /\ journal.id < Head(io).call]_vars

\* What the journal promises, in three variables and for the addresses.
Promise == INSTANCE RecoverableOverride WITH
    Values     <- Addresses,
    owner      <- own.addr,
    overridden <- live.addr = Tun,
    evidence   <- IF journal = None THEN None ELSE journal.original.addr

\* "Persist before changing system settings": every step of the transaction is a
\* step of that promise or leaves it alone, over recaptures, late writes, timeouts
\* and crashes.  So the journal knows the user's resolvers whenever the tunnel's
\* are in force: theorem PromiseKept.
KeepsPromise == Promise!Spec

\* Nothing that was asked for is left to be done.
Idle == running = 0 /\ \A c \in Calls : Stage(c) # "queued"

\* Whatever the helper, the disk and the other calls do, the queue can go on until
\* it is idle: a clear of the journal waits, runs or is answered, and every other
\* stage can time out.
NeverStuck == ~Idle => ENABLED <<QueueGoesOn>>_vars

Ends(c) == Stage(c) \notin Ended /\ Stage(c)' \in Ended

\* Every call ends, also if the helper or the disk never answers: the queue is never
\* stuck, and it is idle again and again unless calls end for ever, which a bounded
\* number of calls does not.
CallsEnd ==
    /\ []NeverStuck
    /\ []<>Idle \/ []<><<\E c \in Calls : Ends(c)>>_vars
=============================================================================
