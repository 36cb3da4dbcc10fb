----------------------- MODULE SystemProxyManager_proofs -----------------------
(***************************************************************************)
(* For any number of calls, any settings and any crashes: nothing overlaps *)
(* an unconfirmed write, the snapshot is held while ClashFX's setting is in *)
(* force unless a crash cut its removal short, a reported success had the   *)
(* last word, quitting enables nothing, and no operation keeps the queue,   *)
(* however silent the helper is.                                            *)
(***************************************************************************)
EXTENDS SystemProxyManager, SequenceTheorems, TLAPS

Active == Reads \cup Writes \cup Checks

\* the stages of an enable once the previous settings are safe
Ahead == {"beforeDisplacing", "displacing", "beforeEnabling", "enabling"}

\* the read-backs on which the snapshot is given up or replaced
Settling == {"verifying", "confirming"}

\* One operation is under way at a time.
Alone == \A c \in Calls : calls[c].stage \in Active => running = c

\* What a call is, as far as its stage tells.
KindsFit ==
    \A c \in Calls :
        /\ calls[c].stage \in Ended \cup {"new"} => calls[c].kind = "none"
        /\ calls[c].stage = "checkpointing" => calls[c].kind = "checkpoint"
        /\ calls[c].kind = "rollback" => calls[c].cp.live # Nothing

\* Only calls that were made have asked anything, and only this process's calls
\* are answered.
Submitted ==
    /\ \A i \in DOMAIN requests : calls[requests[i].call].stage # "new"
    /\ \A r \in replies : calls[r.call].stage \notin {"new", "lost"}

\* Settings are written and read, never the absence of one, unless a snapshot
\* was cut.
ValuesPresent ==
    /\ \A i \in DOMAIN requests :
          requests[i].stage \in Writes => cut \/ requests[i].value # Nothing
    /\ \A r \in replies : r.stage \in Reads => r.value # Nothing
    /\ checkpoint = NoCheckpoint \/ checkpoint.live # Nothing

\* A write of this process is the last request.
WritesLast ==
    \A i \in DOMAIN requests :
        requests[i].stage \in Writes /\ Mine(requests[i])
            => i = Len(requests) /\ pending = requests[i].call

\* Once a write is answered the helper has nothing to do until the answer is
\* received, so that what the write did is still so, but for the user.
AnswersAlone ==
    \A r \in replies :
        r.stage \in Writes =>
            /\ pending = r.call
            /\ requests = <<>>
            /\ \A s \in replies : s.stage \in Writes => s = r
            /\ r.ok => writer \in {0, r.call} /\ (r.stage # "enabling" => cut \/ ~owed)

\* A valid snapshot is one, in UserDefaults and in a checkpoint.
Whole(d) == d.valid => cut \/ d.saved # Nothing
RecordsWhole == Whole(defaults) /\ Whole(checkpoint) /\ \A c \in Calls : Whole(calls[c].cp)

\* An enable that keeps a snapshot has one, in this process or an earlier one.
KeptAhead ==
    /\ \A c \in Calls : calls[c].stage \in Ahead /\ calls[c].keep => cut \/ defaults.valid
    /\ \A i \in DOMAIN requests :
          requests[i].stage = "enabling" /\ requests[i].keep => cut \/ defaults.valid

Held == live = ClashFX /\ owed => cut \/ defaults.valid

\* A setting that is read back was put there by this call or the user, owes
\* nobody a snapshot, and no write is on its way.
Settled ==
    \A c \in Calls :
        calls[c].stage \in Settling =>
            /\ cut \/ ~owed
            /\ writer \in {0, c}
            /\ \A i \in DOMAIN requests : requests[i].stage \notin Writes

ManagerInvariant ==
    /\ Types /\ Alone /\ KindsFit /\ Submitted /\ ValuesPresent /\ WritesLast /\ AnswersAlone
    /\ RecordsWhole /\ KeptAhead /\ Held /\ Settled

\* Nothing of this process is with the helper, and no write is answered.
Quiet ==
    /\ \A i \in DOMAIN requests : requests[i].stage \in Writes => ~Mine(requests[i])
    /\ \A r \in replies : r.stage \notin Writes

USE DEF Calls
-----------------------------------------------------------------------------
(* What the invariant says in passing.                                      *)

LEMMA QuietUnlessPending ==
    ASSUME ManagerInvariant, pending = 0
    PROVE  Quiet
<1>1. /\ \A i \in DOMAIN requests : requests[i].call # 0
      /\ \A r \in replies : r.call # 0
  <2>1. requests \in Seq(Request) /\ replies \subseteq Reply
    BY DEF ManagerInvariant, Types
  <2>2. \A q \in Request : q.call # 0
    BY ManagerAssumption DEF Request
  <2>3. \A r \in Reply : r.call # 0
    BY ManagerAssumption DEF Reply
  <2> QED
    BY <2>1, <2>2, <2>3
<1> QED
  BY <1>1 DEF ManagerInvariant, WritesLast, AnswersAlone, Quiet

\* The operation of c goes on or ends, without asking the helper for anything.
\* The record of the snapshot changes only for the better, unless the setting
\* has been read back.
LEMMA CallMoves ==
    ASSUME ManagerInvariant, NEW c \in Calls, NEW new \in Call,
           calls[c].stage \notin {"new", "lost"}, new.stage \notin {"new", "lost"},
           running \in {0, c},
           calls' = [calls EXCEPT ![c] = new],
           new.stage \in Active => running' = c, running' \in {0, c},
           new.stage \in Ended => new.kind = "none",
           new.stage # "checkpointing", new.kind = "rollback" => new.cp.live # Nothing,
           Whole(new.cp), new.stage \notin Settling,
           new.stage \in Ahead /\ new.keep => cut \/ defaults'.valid,
           defaults' \in Defaults, Whole(defaults'),
           \/ defaults.valid => defaults'.valid
           \/ calls[c].stage \in Settling /\ new.stage \notin Ahead,
           UNCHANGED <<requests, live, history>>,
           replies' \subseteq replies,
           \/ pending' = pending
           \/ /\ pending' = 0
              /\ \A i \in DOMAIN requests : requests[i].stage \in Writes => ~Mine(requests[i])
              /\ \A r \in replies' : r.stage \notin Writes,
           checkpoint' \in Checkpoint, Whole(checkpoint'),
           checkpoint' = NoCheckpoint \/ checkpoint'.live # Nothing,
           generation' \in Nat, terminating' \in BOOLEAN
    PROVE  ManagerInvariant'
<1> USE DEF ManagerInvariant
<1>0. /\ \A d \in Calls : d # c => calls'[d] = calls[d]
      /\ calls'[c] = new /\ calls' \in [Calls -> Call]
      /\ \A i \in DOMAIN requests : requests[i] \in Request
      /\ pending' \in Calls \cup {0}
      /\ \A i \in DOMAIN requests : Mine(requests[i])' <=> Mine(requests[i])
  <2>1. calls \in [Calls -> Call] /\ requests \in Seq(Request) /\ pending \in Calls \cup {0}
    BY DEF Types
  <2>2. \A i \in DOMAIN requests : requests[i] \in Request
    BY <2>1
  <2>3. \A q \in Request : q.call \in Calls
    BY DEF Request
  <2> QED
    BY <2>1, <2>2, <2>3 DEF Mine
<1>1. Types'
  BY <1>0 DEF Types, history
<1>2. Alone'
  BY <1>0 DEF Alone, Active, Ended, Reads, Writes, Checks
<1>3. KindsFit'
  BY <1>0 DEF KindsFit, Ended
<1>4. Submitted'
  BY <1>0 DEF Submitted, Types, Reply, Request
<1>5. ValuesPresent'
  BY <1>0 DEF ValuesPresent, history
<1>6. WritesLast'
  BY <1>0 DEF WritesLast
<1>7. AnswersAlone'
  BY <1>0 DEF AnswersAlone, history
<1>8. RecordsWhole'
  BY <1>0 DEF RecordsWhole, Whole, history
<1>9. CASE defaults.valid => defaults'.valid
  <2>1. KeptAhead' /\ Held'
    BY <1>0, <1>9 DEF KeptAhead, Held, history
  <2>2. Settled'
    BY <1>0 DEF Settled, history
  <2> QED
    BY <1>1, <1>2, <1>3, <1>4, <1>5, <1>6, <1>7, <1>8, <2>1, <2>2
<1>10. CASE calls[c].stage \in Settling /\ new.stage \notin Ahead
  <2>1. /\ cut \/ ~owed
        /\ \A i \in DOMAIN requests : requests[i].stage \notin Writes
    BY <1>10 DEF Settled
  <2>2. \A d \in Calls : calls'[d].stage \notin Ahead
    BY <1>0, <1>10 DEF Alone, Active, Ahead, Settling, Reads, Writes, Checks
  <2>3. KeptAhead' /\ Held'
    BY <2>1, <2>2 DEF KeptAhead, Held, history, Writes
  <2>4. Settled'
    BY <1>0 DEF Settled, history
  <2> QED
    BY <1>1, <1>2, <1>3, <1>4, <1>5, <1>6, <1>7, <1>8, <2>3, <2>4
<1> QED
  BY <1>9, <1>10

\* The operation of c asks the helper, which has nothing else of this process.
LEMMA CallSends ==
    ASSUME ManagerInvariant, NEW c \in Calls, NEW new \in Call,
           NEW value \in Setting \cup {Nothing},
           calls[c].stage \notin {"new", "lost"}, new.stage \in Reads \cup Writes,
           running \in {0, c}, running' = c,
           calls' = [calls EXCEPT ![c] = new],
           new.stage = "checkpointing" => new.kind = "checkpoint",
           new.kind = "rollback" => new.cp.live # Nothing, Whole(new.cp),
           new.stage \in Writes => cut \/ value # Nothing,
           requests' = Append(requests, [call |-> c, stage |-> new.stage, value |-> value,
                                         keep |-> new.keep]),
           \A i \in DOMAIN requests : requests[i].stage \in Writes => ~Mine(requests[i]),
           replies' \subseteq replies, \A r \in replies' : r.stage \notin Writes,
           pending' = IF new.stage \in Writes THEN c ELSE 0,
           new.stage \in Settling =>
               /\ cut \/ ~owed
               /\ writer \in {0, c}
               /\ \A i \in DOMAIN requests : requests[i].stage \notin Writes,
           new.stage \in Ahead /\ new.keep => cut \/ defaults'.valid,
           defaults' \in Defaults, Whole(defaults'), defaults.valid => defaults'.valid,
           generation' \in Nat,
           UNCHANGED <<live, history, checkpoint, terminating>>
    PROVE  ManagerInvariant'
<1> USE DEF ManagerInvariant
<1> DEFINE q == [call |-> c, stage |-> new.stage, value |-> value, keep |-> new.keep]
<1>1. /\ calls \in [Calls -> Call] /\ requests \in Seq(Request)
      /\ replies \subseteq Reply
  BY DEF Types
<1>2. /\ q \in Request /\ q.call = c /\ q.stage = new.stage
      /\ q.value = value /\ q.keep = new.keep
  BY DEF Request, Call
<1> HIDE DEF q
<1>3. /\ Len(requests) \in Nat /\ DOMAIN requests = 1..Len(requests)
      /\ requests' = Append(requests, q) /\ requests' \in Seq(Request)
      /\ DOMAIN requests' = 1..(Len(requests) + 1) /\ Len(requests') = Len(requests) + 1
      /\ requests'[Len(requests) + 1] = q
      /\ \A i \in DOMAIN requests : requests'[i] = requests[i] /\ requests[i] \in Request
  BY <1>1, <1>2 DEF q
<1>4. /\ \A d \in Calls : d # c => calls'[d] = calls[d]
      /\ calls'[c] = new /\ calls' \in [Calls -> Call]
      /\ pending' \in Calls \cup {0}
      /\ c \in Calls /\ new.stage \notin {"new", "lost"} /\ new.stage \notin Ended
  BY <1>1 DEF Reads, Writes, Ended
<1>5. \A x \in Request : x.call \in Calls
  BY DEF Request
<1>6. \A x \in Request : Mine(x)' <=> Mine(x)
  BY <1>4, <1>5 DEF Mine
<1>7. \A i \in DOMAIN requests' : i \in DOMAIN requests \/ (i = Len(requests) + 1 /\ requests'[i] = q)
  BY <1>3
<1>8. Types'
  BY <1>1, <1>3, <1>4 DEF Types, history
<1>9. Alone' /\ KindsFit'
  <2>1. Alone'
    BY <1>4 DEF Alone, Active, Reads, Writes, Checks
  <2>2. KindsFit'
    BY <1>4 DEF KindsFit, Ended
  <2> QED
    BY <2>1, <2>2
<1>10. Submitted'
  <2>1. \A r \in replies : r \in Reply /\ r.call \in Calls
    BY <1>1 DEF Reply
  <2> QED
    BY <1>2, <1>3, <1>4, <1>5, <1>7, <2>1 DEF Submitted
<1>11. ValuesPresent'
  BY <1>2, <1>3, <1>7 DEF ValuesPresent, history
<1>12. WritesLast'
  BY <1>2, <1>3, <1>6, <1>7 DEF WritesLast
<1>13. AnswersAlone'
  BY DEF AnswersAlone
<1>14. RecordsWhole'
  BY <1>4 DEF RecordsWhole, Whole, history
<1>15. KeptAhead'
  <2>1. \A i \in DOMAIN requests' :
            requests'[i].stage = "enabling" /\ requests'[i].keep => cut \/ defaults'.valid
    BY <1>2, <1>3, <1>7 DEF KeptAhead, Ahead
  <2> QED
    BY <1>4, <2>1 DEF KeptAhead, history
<1>16. Held'
  BY DEF Held, history
<1>17. Settled'
  <2>1. ASSUME NEW d \in Calls, calls'[d].stage \in Settling
        PROVE  d = c /\ new.stage \in Settling
    <3>1. calls'[d].stage \in Active
      BY <2>1 DEF Settling, Active, Reads
    <3> QED
      BY <1>4, <1>9, <2>1, <3>1, ManagerAssumption DEF Alone
  <2>2. new.stage \in Settling => new.stage \notin Writes
    BY DEF Settling, Writes
  <2> QED
    BY <1>2, <1>3, <1>7, <2>1, <2>2 DEF Settled, history
<1> QED
  BY <1>8, <1>9, <1>10, <1>11, <1>12, <1>13, <1>14, <1>15, <1>16, <1>17
-----------------------------------------------------------------------------
(* How a turn ends, and what it starts from.                                *)

LEMMA DoneFits ==
    ASSUME NEW result \in Ended \cup {"new"}
    PROVE  /\ Done(result) \in Call
           /\ Done(result).stage = result /\ Done(result).kind = "none"
           /\ Done(result).cp = NoCheckpoint
           /\ Whole(NoCheckpoint)
BY DEF Done, Call, Checkpoint, NoCheckpoint, Whole, Ended, AllKinds

\* An operation that ends without touching the record.
LEMMA CallEnds ==
    ASSUME ManagerInvariant, NEW c \in Calls, NEW result \in {"ok", "failed"},
           calls[c].stage \notin {"new", "lost"}, running \in {0, c},
           Finish(c, result),
           UNCHANGED <<requests, live, history, checkpoint>>,
           \/ UNCHANGED defaults
           \/ /\ defaults' \in Defaults /\ Whole(defaults')
              /\ (defaults.valid => defaults'.valid) \/ calls[c].stage \in Settling,
           replies' \subseteq replies,
           \/ pending' = pending
           \/ /\ pending' = 0
              /\ \A i \in DOMAIN requests : requests[i].stage \in Writes => ~Mine(requests[i])
              /\ \A r \in replies' : r.stage \notin Writes,
           generation' \in Nat, terminating' \in BOOLEAN
    PROVE  ManagerInvariant'
<1> DEFINE new == Done(result)
<1>1. /\ new \in Call /\ new.stage = result /\ new.kind = "none" /\ new.cp = NoCheckpoint
      /\ Whole(NoCheckpoint)
  BY DoneFits DEF Ended
<1>2. calls' = [calls EXCEPT ![c] = new] /\ running' = 0
  BY DEF Finish
<1> HIDE DEF new
<1>3. /\ checkpoint \in Checkpoint /\ Whole(checkpoint) /\ defaults \in Defaults /\ Whole(defaults)
      /\ checkpoint = NoCheckpoint \/ checkpoint.live # Nothing
  BY DEF ManagerInvariant, Types, RecordsWhole, ValuesPresent
<1>4. new.stage \notin Active \cup Settling \cup Ahead \cup {"new", "lost", "checkpointing"}
  BY <1>1 DEF Active, Reads, Writes, Checks, Settling, Ahead
<1>5. /\ new.kind # "rollback" /\ Whole(new.cp)
      /\ defaults' \in Defaults /\ Whole(defaults')
      /\ (defaults.valid => defaults'.valid) \/ calls[c].stage \in Settling
  BY <1>1, <1>3
<1> QED
  BY <1>1, <1>2, <1>3, <1>4, <1>5, CallMoves

\* An operation that asks the helper, unless an unconfirmed write or the lack of
\* a helper ends it.
LEMMA CallAsks ==
    ASSUME ManagerInvariant, NEW c \in Calls, NEW new \in Call,
           NEW value \in Setting \cup {Nothing},
           calls[c].stage \notin {"new", "lost"}, running \in {0, c},
           new.stage \in (Reads \cup Writes) \ Settling,
           new.stage = "checkpointing" => new.kind = "checkpoint",
           new.kind = "rollback" => new.cp.live # Nothing, Whole(new.cp),
           new.stage \in Writes => cut \/ value # Nothing,
           new.stage \in Ahead /\ new.keep => cut \/ defaults'.valid,
           defaults' \in Defaults, Whole(defaults'), defaults.valid => defaults'.valid,
           generation' \in Nat,
           UNCHANGED <<live, history, replies, checkpoint, terminating>>,
           \/ /\ ~Quarantined /\ Send(c, new, value)
              /\ pending' = IF new.stage \in Writes THEN c ELSE pending
           \/ NoHelper(c) /\ UNCHANGED pending
    PROVE  ManagerInvariant'
<1>1. CASE NoHelper(c) /\ UNCHANGED pending
  <2>1. terminating' \in BOOLEAN
    BY DEF ManagerInvariant, Types
  <2> QED
    BY <1>1, <2>1, CallEnds DEF NoHelper
<1>2. CASE /\ ~Quarantined /\ Send(c, new, value)
           /\ pending' = IF new.stage \in Writes THEN c ELSE pending
  <2>1. pending = 0 /\ Quiet
    BY <1>2, QuietUnlessPending DEF Quarantined
  <2>2. /\ calls' = [calls EXCEPT ![c] = new] /\ running' = c
        /\ requests' = Append(requests, [call |-> c, stage |-> new.stage, value |-> value,
                                         keep |-> new.keep])
        /\ pending' = IF new.stage \in Writes THEN c ELSE 0
    BY <1>2, <2>1 DEF Send
  <2> QED
    BY <2>1, <2>2, CallSends DEF Quiet
<1> QED
  BY <1>1, <1>2

\* What the receiver of a reply may rely on.
LEMMA ReceivedFacts ==
    ASSUME ManagerInvariant, NEW c \in Calls, NEW stage \in Reads \cup Writes, NEW r,
           Received(c, stage, r)
    PROVE  /\ r \in Reply /\ r.call = c /\ r.stage = stage
           /\ calls[c] \in Call /\ calls[c].stage = stage /\ running = c
           /\ calls[c].stage \notin {"new", "lost"}
           /\ replies' \subseteq replies
           /\ stage \in Writes =>
                  /\ Confirmed(c) = 0 /\ requests = <<>>
                  /\ \A s \in replies' : s.stage \notin Writes
                  /\ r.ok => writer \in {0, c} /\ (stage # "enabling" => cut \/ ~owed)
           /\ stage \in Reads => r.value \in Setting
<1>1. /\ r \in replies /\ r.call = c /\ r.stage = stage /\ calls[c].stage = stage
      /\ replies' = replies \ {r}
  BY DEF Received, Awaited
<1>2. r \in Reply /\ calls[c] \in Call
  BY <1>1 DEF ManagerInvariant, Types
<1>3. running = c /\ stage \notin {"new", "lost"}
  BY <1>1 DEF ManagerInvariant, Alone, Active, Reads, Writes
<1>4. stage \in Writes =>
          /\ pending = c /\ requests = <<>>
          /\ \A s \in replies : s.stage \in Writes => s = r
          /\ r.ok => writer \in {0, c} /\ (stage # "enabling" => cut \/ ~owed)
  BY <1>1 DEF ManagerInvariant, AnswersAlone
<1>5. stage \in Reads => r.value \in Setting
  BY <1>1, <1>2 DEF ManagerInvariant, ValuesPresent, Reply
<1> QED
  BY <1>1, <1>2, <1>3, <1>4, <1>5 DEF Confirmed
-----------------------------------------------------------------------------
(* The calls.                                                               *)

LEMMA SubmitSafe ==
    ASSUME ManagerInvariant, NEW c \in Calls, Submit(c)
    PROVE  ManagerInvariant'
<1> USE DEF ManagerInvariant
<1>1. calls \in [Calls -> Call] /\ checkpoint \in Checkpoint /\ calls[c].stage = "new"
      /\ Whole(checkpoint) /\ (checkpoint = NoCheckpoint \/ checkpoint.live # Nothing)
  BY DEF Types, Submit, RecordsWhole, ValuesPresent
<1>2. PICK new \in Call :
          /\ calls' = [calls EXCEPT ![c] = new]
          /\ new.stage \in {"queued", "failed"} /\ Whole(new.cp)
          /\ new.stage = "failed" => new.kind = "none"
          /\ new.kind = "rollback" => new.cp.live # Nothing
  <2>1. PICK k \in Kinds :
          \/ /\ k = "rollback" => checkpoint # NoCheckpoint
             /\ calls' = [calls EXCEPT ![c] =
                             [kind |-> k, gen |-> 0, keep |-> FALSE, stage |-> "queued",
                              cp |-> IF k = "rollback" THEN checkpoint ELSE NoCheckpoint]]
          \/ calls' = [calls EXCEPT ![c] = Done("failed")]
    BY DEF Submit
  <2>2. CASE calls' = [calls EXCEPT ![c] = Done("failed")]
    BY <2>2, DoneFits DEF Ended
  <2>3. CASE /\ k = "rollback" => checkpoint # NoCheckpoint
             /\ calls' = [calls EXCEPT ![c] =
                             [kind |-> k, gen |-> 0, keep |-> FALSE, stage |-> "queued",
                              cp |-> IF k = "rollback" THEN checkpoint ELSE NoCheckpoint]]
    <3> DEFINE cp == IF k = "rollback" THEN checkpoint ELSE NoCheckpoint
               new == [kind |-> k, gen |-> 0, keep |-> FALSE, stage |-> "queued", cp |-> cp]
    <3>1. cp \in Checkpoint /\ Whole(cp) /\ (k = "rollback" => cp.live # Nothing)
      BY <1>1, <2>3 DEF NoCheckpoint, Checkpoint, Whole
    <3> HIDE DEF cp
    <3>2. new \in Call
      BY <3>1, ManagerAssumption DEF Call
    <3> QED
      BY <2>3, <3>1, <3>2 DEF cp
  <2> QED
    BY <2>1, <2>2, <2>3
<1>3. /\ \A d \in Calls : d # c => calls'[d] = calls[d]
      /\ calls'[c] = new /\ calls' \in [Calls -> Call]
      /\ new.stage \notin Active \cup Ahead \cup Settling \cup {"new", "lost", "checkpointing"}
      /\ new.stage \in Ended \cup {"new"} => new.kind = "none"
  BY <1>1, <1>2 DEF Active, Reads, Writes, Checks, Ahead, Settling, Ended
<1>4. /\ \A i \in DOMAIN requests : requests[i] \in Request
      /\ \A x \in Request : x.call \in Calls /\ (Mine(x)' <=> Mine(x))
      /\ \A r \in replies : r.call \in Calls
  <2>1. requests \in Seq(Request) /\ replies \subseteq Reply
    BY DEF Types
  <2>2. (\A x \in Request : x.call \in Calls) /\ (\A r \in Reply : r.call \in Calls)
    BY DEF Request, Reply
  <2> QED
    BY <1>1, <1>3, <2>1, <2>2 DEF Mine
<1>5. UNCHANGED <<live, defaults, process, requests, replies, checkpoint, history>>
  BY DEF Submit
<1>6. Types'
  BY <1>3, <1>5 DEF Types, process, history
<1>7. Alone' /\ KindsFit' /\ Submitted'
  BY <1>2, <1>3, <1>4, <1>5 DEF Alone, KindsFit, Submitted, process
<1>8. ValuesPresent' /\ WritesLast' /\ AnswersAlone'
  BY <1>4, <1>5 DEF ValuesPresent, WritesLast, AnswersAlone, process, history
<1>9. RecordsWhole' /\ KeptAhead' /\ Held' /\ Settled'
  BY <1>2, <1>3, <1>5 DEF RecordsWhole, Whole, KeptAhead, Held, Settled, history
<1> QED
  BY <1>6, <1>7, <1>8, <1>9

\* What an operation that starts may rely on.
LEMMA FirstFacts ==
    ASSUME ManagerInvariant, NEW c \in Calls, IsFirst(c)
    PROVE  /\ calls[c] \in Call /\ calls[c].stage = "queued" /\ running = 0
           /\ calls[c].stage \notin {"new", "lost"} /\ Whole(calls[c].cp)
           /\ calls[c].kind = "rollback" => calls[c].cp.live # Nothing
           /\ defaults \in Defaults /\ Whole(defaults) /\ generation \in Nat
           /\ pending \in Calls \cup {0} /\ terminating \in BOOLEAN
BY DEF ManagerInvariant, Types, IsFirst, RecordsWhole, KindsFit

LEMMA StartRefusedSafe ==
    ASSUME ManagerInvariant, NEW c \in Calls, StartRefused(c)
    PROVE  ManagerInvariant'
<1>1. IsFirst(c) /\ Finish(c, "failed")
      /\ UNCHANGED <<live, defaults, generation, pending, terminating, requests, replies,
                     checkpoint, history>>
  BY DEF StartRefused
<1> QED
  BY <1>1, FirstFacts, CallEnds

\* The record an operation begins its transition with.
LEMMA TransitionFits ==
    ASSUME NEW c \in Calls, calls[c] \in Call, generation \in Nat, defaults \in Defaults,
           NEW stage \in Reads \cup Writes \cup Checks
    PROVE  LET new == Transition(c, stage)
           IN  /\ new \in Call /\ new.stage = stage /\ new.kind = calls[c].kind
               /\ new.cp = calls[c].cp /\ new.keep = ~defaults.restoreOff
<1> DEFINE keep == ~defaults.restoreOff
           g == generation + 1
<1>1. g \in Nat
  OBVIOUS
<1>2. keep \in BOOLEAN
  BY Zenon
<1>3. ASSUME NEW k \in BOOLEAN, NEW n \in Nat
      PROVE  LET new == [calls[c] EXCEPT !.stage = stage, !.gen = n, !.keep = k]
             IN  /\ new \in Call /\ new.stage = stage /\ new.kind = calls[c].kind
                 /\ new.cp = calls[c].cp /\ new.keep = k
  BY DEF Call
<1>4. Transition(c, stage) = [calls[c] EXCEPT !.stage = stage, !.gen = g, !.keep = keep]
  BY DEF Transition
<1> HIDE DEF keep, g
<1>5. LET new == [calls[c] EXCEPT !.stage = stage, !.gen = g, !.keep = keep]
      IN  /\ new \in Call /\ new.stage = stage /\ new.kind = calls[c].kind
          /\ new.cp = calls[c].cp /\ new.keep = keep
  BY <1>1, <1>2, <1>3
<1> QED
  BY <1>4, <1>5 DEF keep

LEMMA AtFits ==
    ASSUME NEW c \in Calls, calls[c] \in Call, NEW stage \in Reads \cup Writes \cup Checks
    PROVE  LET new == At(c, stage)
           IN  /\ new \in Call /\ new.stage = stage /\ new.kind = calls[c].kind
               /\ new.cp = calls[c].cp /\ new.keep = calls[c].keep
BY DEF At, Call

LEMMA StartEnableSafe ==
    ASSUME ManagerInvariant, NEW c \in Calls, StartEnable(c)
    PROVE  ManagerInvariant'
<1> DEFINE valid == defaults.valid \/ MayMigrate
<1>1. /\ calls[c] \in Call /\ calls[c].stage \notin {"new", "lost"} /\ Whole(calls[c].cp)
      /\ defaults \in Defaults /\ Whole(defaults) /\ generation \in Nat /\ running = 0
  BY FirstFacts DEF StartEnable
<1>2. /\ calls[c].kind \in {"enable", "replace"} /\ generation' = generation + 1
      /\ defaults' = [defaults EXCEPT !.valid = valid]
      /\ UNCHANGED <<live, pending, terminating, replies, checkpoint, history>>
  BY DEF StartEnable
<1>3. valid \in BOOLEAN /\ (valid => cut \/ defaults.saved # Nothing)
  BY <1>1 DEF MayMigrate, Whole, Defaults
<1>4. /\ defaults' \in Defaults /\ defaults'.valid = valid /\ Whole(defaults')
      /\ defaults.valid => defaults'.valid
  <2> HIDE DEF valid
  <2>1. defaults' \in Defaults /\ defaults'.valid = valid /\ defaults'.saved = defaults.saved
    BY <1>1, <1>2, <1>3 DEF Defaults
  <2> QED
    BY <1>3, <2>1 DEF Whole, valid
<1>5. generation' \in Nat
  BY <1>1, <1>2
<1>6. CASE defaults.restoreOff \/ valid
  <2> DEFINE stage == Prepared(calls[c].kind)
             new == Transition(c, stage)
  <2>1. calls' = [calls EXCEPT ![c] = new] /\ running' = c /\ UNCHANGED requests
    BY <1>6 DEF StartEnable
  <2>2. stage \in Checks
    BY DEF Prepared, Checks
  <2>3. /\ new \in Call /\ new.stage = stage /\ new.kind = calls[c].kind
        /\ new.cp = calls[c].cp /\ new.keep = ~defaults.restoreOff
    BY <1>1, <2>2, TransitionFits
  <2>4. new.keep => defaults'.valid
    BY <1>4, <1>6, <2>3
  <2>5. /\ checkpoint' \in Checkpoint /\ Whole(checkpoint') /\ terminating' \in BOOLEAN
        /\ checkpoint' = NoCheckpoint \/ checkpoint'.live # Nothing
    BY <1>2 DEF ManagerInvariant, Types, RecordsWhole, ValuesPresent
  <2> HIDE DEF new, stage
  <2>6. new.stage \notin Ended \cup Settling \cup {"new", "lost", "checkpointing"}
    BY <2>2, <2>3 DEF Checks, Ended, Settling
  <2>7. new.kind # "rollback" /\ Whole(new.cp)
    BY <1>1, <1>2, <2>3
  <2> QED
    BY <1>1, <1>2, <1>4, <1>5, <2>1, <2>3, <2>4, <2>5, <2>6, <2>7, CallMoves
<1>7. CASE ~(defaults.restoreOff \/ valid)
  <2> DEFINE new == Transition(c, "capturing")
  <2>1. Ask(c, new)
    BY <1>7 DEF StartEnable
  <2>2. /\ new \in Call /\ new.stage = "capturing" /\ new.kind = calls[c].kind
        /\ new.cp = calls[c].cp
    BY <1>1, TransitionFits DEF Reads
  <2> HIDE DEF new
  <2>3. /\ new.stage \in (Reads \cup Writes) \ Settling /\ new.stage \notin Writes \cup Ahead
        /\ new.kind # "rollback" /\ Whole(new.cp)
    BY <1>1, <1>2, <2>2 DEF Reads, Writes, Settling, Ahead
  <2>4. \/ ~Quarantined /\ Send(c, new, Nothing) /\ pending' = pending
        \/ NoHelper(c) /\ UNCHANGED pending
    BY <1>2, <2>1 DEF Ask
  <2> QED
    BY <1>1, <1>2, <1>4, <1>5, <2>2, <2>3, <2>4, CallAsks
<1> QED
  BY <1>6, <1>7

LEMMA StartDisableSafe ==
    ASSUME ManagerInvariant, NEW c \in Calls, StartDisable(c)
    PROVE  ManagerInvariant'
<1>1. /\ calls[c] \in Call /\ calls[c].stage \notin {"new", "lost"} /\ Whole(calls[c].cp)
      /\ defaults \in Defaults /\ Whole(defaults) /\ generation \in Nat /\ running = 0
  BY FirstFacts DEF StartDisable
<1>2. /\ calls[c].kind \in {"disable", "terminate"} /\ generation' = generation + 1
      /\ UNCHANGED <<live, defaults, terminating, replies, checkpoint, history>>
  BY DEF StartDisable
<1>3. PICK stage \in {"restoring", "disabling"}, value \in Setting \cup {Nothing} :
          /\ Write(c, Transition(c, stage), value)
          /\ cut \/ value # Nothing
  <2>1. CASE ShouldRestore
    <3>1. /\ defaults.saved \in Setting \cup {Nothing}
          /\ cut \/ defaults.saved # Nothing
      BY <1>1, <2>1 DEF ShouldRestore, Whole, Defaults
    <3> QED
      BY <2>1, <3>1 DEF StartDisable
  <2>2. CASE ~ShouldRestore
    <3>1. Off \in Setting /\ Off # Nothing
      BY ManagerAssumption DEF Setting
    <3> QED
      BY <2>2, <3>1 DEF StartDisable
  <2> QED
    BY <2>1, <2>2
<1> DEFINE new == Transition(c, stage)
<1>4. /\ new \in Call /\ new.stage = stage /\ new.kind = calls[c].kind /\ new.cp = calls[c].cp
  BY <1>1, TransitionFits DEF Writes
<1>5. \/ ~Quarantined /\ Send(c, new, value) /\ pending' = c
      \/ NoHelper(c) /\ UNCHANGED pending
  BY <1>3 DEF Write
<1> HIDE DEF new
<1>6. /\ new.stage \in Writes /\ new.stage \notin Settling \cup Ahead \cup {"checkpointing"}
      /\ new.kind # "rollback" /\ Whole(new.cp) /\ generation' \in Nat
  BY <1>1, <1>2, <1>4 DEF Writes, Settling, Ahead
<1> QED
  BY <1>1, <1>2, <1>3, <1>4, <1>5, <1>6, CallAsks

LEMMA StartCheckpointSafe ==
    ASSUME ManagerInvariant, NEW c \in Calls, StartCheckpoint(c)
    PROVE  ManagerInvariant'
<1> DEFINE cp == [NoCheckpoint EXCEPT !.saved = defaults.saved, !.valid = defaults.valid]
           new == [At(c, "checkpointing") EXCEPT !.cp = cp]
<1>1. /\ calls[c] \in Call /\ calls[c].stage \notin {"new", "lost"}
      /\ defaults \in Defaults /\ Whole(defaults) /\ generation \in Nat /\ running = 0
  BY FirstFacts DEF StartCheckpoint
<1>2. /\ calls[c].kind = "checkpoint" /\ Ask(c, new)
      /\ UNCHANGED <<live, defaults, generation, pending, terminating, replies, checkpoint,
                     history>>
  BY DEF StartCheckpoint
<1>3. cp \in Checkpoint /\ Whole(cp)
  BY <1>1 DEF Checkpoint, NoCheckpoint, Defaults, Whole
<1> HIDE DEF cp
<1>4. /\ new \in Call /\ new.stage = "checkpointing" /\ new.kind = "checkpoint" /\ new.cp = cp
  BY <1>1, <1>2, <1>3 DEF At, Call, Reads
<1>5. \/ ~Quarantined /\ Send(c, new, Nothing) /\ pending' = pending
      \/ NoHelper(c) /\ UNCHANGED pending
  BY <1>2 DEF Ask
<1> HIDE DEF new
<1>6. /\ new.stage \in (Reads \cup Writes) \ Settling /\ new.stage \notin Writes \cup Ahead
      /\ Whole(new.cp)
  BY <1>3, <1>4 DEF Reads, Writes, Settling, Ahead
<1> QED
  BY <1>1, <1>2, <1>4, <1>5, <1>6, CallAsks

LEMMA StartRollbackSafe ==
    ASSUME ManagerInvariant, NEW c \in Calls, StartRollback(c)
    PROVE  ManagerInvariant'
<1> DEFINE new == At(c, "reverting")
           value == calls[c].cp.live
<1>1. /\ calls[c] \in Call /\ calls[c].stage \notin {"new", "lost"} /\ Whole(calls[c].cp)
      /\ calls[c].kind = "rollback" => value # Nothing
      /\ defaults \in Defaults /\ Whole(defaults) /\ generation \in Nat /\ running = 0
  BY FirstFacts DEF StartRollback
<1>2. /\ calls[c].kind = "rollback" /\ Write(c, new, value)
      /\ UNCHANGED <<live, defaults, generation, terminating, replies, checkpoint, history>>
  BY DEF StartRollback
<1>3. value \in Setting \cup {Nothing}
  BY <1>1 DEF Call, Checkpoint
<1>4. /\ new \in Call /\ new.stage = "reverting" /\ new.kind = "rollback"
      /\ new.cp = calls[c].cp
  BY <1>1, <1>2, AtFits DEF Writes
<1>5. \/ ~Quarantined /\ Send(c, new, value) /\ pending' = c
      \/ NoHelper(c) /\ UNCHANGED pending
  BY <1>2 DEF Write
<1>6. new.cp.live = value
  BY <1>4
<1> HIDE DEF new, value
<1>7. /\ new.stage \in Writes /\ new.stage \notin Settling \cup Ahead \cup {"checkpointing"}
      /\ Whole(new.cp)
  BY <1>1, <1>4 DEF Writes, Settling, Ahead
<1> QED
  BY <1>1, <1>2, <1>3, <1>4, <1>5, <1>6, <1>7, CallAsks
-----------------------------------------------------------------------------
(* The turns that continue an operation.                                    *)

\* What the checkpoint, the record and the flags are before any turn.
LEMMA StandingFacts ==
    ASSUME ManagerInvariant
    PROVE  /\ checkpoint \in Checkpoint /\ Whole(checkpoint)
           /\ checkpoint = NoCheckpoint \/ checkpoint.live # Nothing
           /\ defaults \in Defaults /\ Whole(defaults)
           /\ generation \in Nat /\ terminating \in BOOLEAN /\ pending \in Calls \cup {0}
BY DEF ManagerInvariant, Types, RecordsWhole, ValuesPresent

\* What a call is that is under way.
LEMMA CallFacts ==
    ASSUME ManagerInvariant, NEW c \in Calls, calls[c].stage \in Active
    PROVE  /\ calls[c] \in Call /\ calls[c].stage \notin {"new", "lost"} /\ running = c
           /\ Whole(calls[c].cp) /\ (calls[c].kind = "rollback" => calls[c].cp.live # Nothing)
           /\ calls[c].stage \in Ahead /\ calls[c].keep => cut \/ defaults.valid
<1>1. calls[c].stage \notin {"new", "lost"}
  BY DEF Active, Reads, Writes, Checks
<1> QED
  BY <1>1 DEF ManagerInvariant, Types, Alone, RecordsWhole, KindsFit, KeptAhead

LEMMA CapturedSafe ==
    ASSUME ManagerInvariant, NEW c \in Calls, NEW r, Captured(c, r)
    PROVE  ManagerInvariant'
<1>1. /\ Received(c, "capturing", r)
      /\ UNCHANGED <<live, generation, pending, terminating, requests, checkpoint, history>>
  BY DEF Captured
<1>2. /\ calls[c].stage = "capturing" /\ running = c /\ replies' \subseteq replies
      /\ r.value \in Setting
  BY <1>1, ReceivedFacts DEF Reads
<1>3. /\ calls[c] \in Call /\ calls[c].stage \notin {"new", "lost"}
      /\ Whole(calls[c].cp) /\ (calls[c].kind = "rollback" => calls[c].cp.live # Nothing)
  BY <1>2, CallFacts DEF Active, Reads
<1>4. CASE Finish(c, "failed") /\ UNCHANGED defaults
  BY <1>1, <1>2, <1>3, <1>4, StandingFacts, CallEnds
<1>5. CASE defaults' = [defaults EXCEPT !.saved = r.value, !.valid = TRUE]
  <2>1. defaults' \in Defaults /\ defaults'.valid /\ Whole(defaults')
    BY <1>2, <1>5, StandingFacts, ManagerAssumption DEF Defaults, Whole, Setting
  <2>2. CASE Finish(c, "failed")
    BY <1>1, <1>2, <1>3, <2>1, <2>2, StandingFacts, CallEnds
  <2>3. CASE calls' = [calls EXCEPT ![c] = At(c, Prepared(calls[c].kind))] /\ running' = c
    <3> DEFINE stage == Prepared(calls[c].kind)
               new == At(c, stage)
    <3>1. stage \in Checks
      BY DEF Prepared, Checks
    <3>2. /\ new \in Call /\ new.stage = stage /\ new.kind = calls[c].kind
          /\ new.cp = calls[c].cp
      BY <1>3, <3>1, AtFits
    <3>3. calls' = [calls EXCEPT ![c] = new]
      BY <2>3
    <3> HIDE DEF new, stage
    <3>4. new.stage \notin Ended \cup Settling \cup {"new", "lost", "checkpointing"}
      BY <3>1, <3>2 DEF Checks, Ended, Settling
    <3>5. (new.kind = "rollback" => new.cp.live # Nothing) /\ Whole(new.cp)
      BY <1>3, <3>2
    <3> QED
      BY <1>1, <1>2, <1>3, <2>1, <2>3, <3>2, <3>3, <3>4, <3>5, StandingFacts, CallMoves
  <2> QED
    BY <1>4, <1>5, <2>2, <2>3 DEF Captured
<1> QED
  BY <1>4, <1>5 DEF Captured

\* Displacing and enabling ask with a snapshot, if they keep one.
LEMMA WriteAheadSafe ==
    ASSUME ManagerInvariant, NEW c \in Calls, calls[c].stage \in Checks,
           NEW stage \in {"displacing", "enabling"}, NEW value \in Setting,
           Write(c, At(c, stage), value) \/ (NoHelper(c) /\ UNCHANGED pending),
           UNCHANGED <<live, defaults, generation, terminating, replies, checkpoint, history>>
    PROVE  ManagerInvariant'
<1> DEFINE new == At(c, stage)
<1>1. /\ calls[c] \in Call /\ calls[c].stage \notin {"new", "lost"} /\ running = c
      /\ Whole(calls[c].cp) /\ (calls[c].kind = "rollback" => calls[c].cp.live # Nothing)
      /\ calls[c].keep => cut \/ defaults.valid
  BY CallFacts DEF Active, Ahead, Checks
<1>2. /\ new \in Call /\ new.stage = stage /\ new.kind = calls[c].kind
      /\ new.cp = calls[c].cp /\ new.keep = calls[c].keep
  BY <1>1, AtFits DEF Writes
<1>3. \/ ~Quarantined /\ Send(c, new, value) /\ pending' = c
      \/ NoHelper(c) /\ UNCHANGED pending
  BY DEF Write
<1> HIDE DEF new
<1>4. /\ new.stage \in Writes /\ new.stage \notin Settling \cup {"checkpointing"}
      /\ (new.kind = "rollback" => new.cp.live # Nothing) /\ Whole(new.cp)
      /\ new.keep => cut \/ defaults'.valid
      /\ value # Nothing
  BY <1>1, <1>2, ManagerAssumption DEF Writes, Settling, Setting
<1> QED
  BY <1>1, <1>2, <1>3, <1>4, StandingFacts, CallAsks

LEMMA DisplaceSafe ==
    ASSUME ManagerInvariant, NEW c \in Calls, Displace(c)
    PROVE  ManagerInvariant'
BY WriteAheadSafe, ManagerAssumption DEF Displace, Checks, Setting

LEMMA InvokeEnableSafe ==
    ASSUME ManagerInvariant, NEW c \in Calls, InvokeEnable(c)
    PROVE  ManagerInvariant'
BY WriteAheadSafe DEF InvokeEnable, Checks, Setting

LEMMA DisplacedSafe ==
    ASSUME ManagerInvariant, NEW c \in Calls, NEW r, Displaced(c, r)
    PROVE  ManagerInvariant'
<1>1. /\ Received(c, "displacing", r) /\ pending' = Confirmed(c)
      /\ UNCHANGED <<live, defaults, generation, terminating, requests, checkpoint, history>>
  BY DEF Displaced
<1>2. /\ calls[c].stage = "displacing" /\ running = c /\ replies' \subseteq replies
      /\ pending' = 0 /\ requests = <<>> /\ \A s \in replies' : s.stage \notin Writes
  BY <1>1, ReceivedFacts DEF Writes
<1>3. /\ calls[c] \in Call /\ calls[c].stage \notin {"new", "lost"}
      /\ Whole(calls[c].cp) /\ (calls[c].kind = "rollback" => calls[c].cp.live # Nothing)
      /\ calls[c].keep => cut \/ defaults.valid
  BY <1>2, CallFacts DEF Active, Writes, Ahead
<1>4. \A i \in DOMAIN requests : requests[i].stage \in Writes => ~Mine(requests[i])
  BY <1>2
<1>5. CASE Finish(c, "failed")
  BY <1>1, <1>2, <1>3, <1>4, <1>5, StandingFacts, CallEnds
<1>6. CASE calls' = [calls EXCEPT ![c] = At(c, "beforeEnabling")] /\ running' = c
  <2> DEFINE new == At(c, "beforeEnabling")
  <2>1. /\ new \in Call /\ new.stage = "beforeEnabling" /\ new.kind = calls[c].kind
        /\ new.cp = calls[c].cp /\ new.keep = calls[c].keep
    BY <1>3, AtFits DEF Checks
  <2>2. calls' = [calls EXCEPT ![c] = new] /\ running' = c
    BY <1>6
  <2> HIDE DEF new
  <2>3. new.stage \notin Ended \cup Settling \cup {"new", "lost", "checkpointing"}
    BY <2>1 DEF Ended, Settling
  <2> QED
    BY <1>1, <1>2, <1>3, <1>4, <2>1, <2>2, <2>3, StandingFacts, CallMoves
<1> QED
  BY <1>5, <1>6 DEF Displaced

LEMMA SwitchedSafe ==
    ASSUME ManagerInvariant, NEW c \in Calls, NEW r, Switched(c, r)
    PROVE  ManagerInvariant'
<1>1. PICK stage \in Writes : Received(c, stage, r)
  BY DEF Switched, Writes
<1>2. /\ pending' = Confirmed(c) /\ Finish(c, IF r.ok THEN "ok" ELSE "failed")
      /\ UNCHANGED <<live, defaults, generation, terminating, requests, checkpoint, history>>
  BY DEF Switched
<1>3. /\ running = c /\ replies' \subseteq replies /\ calls[c].stage \notin {"new", "lost"}
      /\ pending' = 0 /\ requests = <<>> /\ \A s \in replies' : s.stage \notin Writes
  BY <1>1, <1>2, ReceivedFacts
<1>4. \A i \in DOMAIN requests : requests[i].stage \in Writes => ~Mine(requests[i])
  BY <1>3
<1>5. PICK result \in {"ok", "failed"} : Finish(c, result)
  BY <1>2
<1> QED
  BY <1>2, <1>3, <1>4, <1>5, StandingFacts, CallEnds

\* A setting that has been restored is read back with nothing left to be written.
LEMMA ReadBackSafe ==
    ASSUME ManagerInvariant, NEW c \in Calls, NEW r,
           NEW stage \in {"restoring", "reverting"}, NEW next \in Settling,
           Received(c, stage, r), pending' = Confirmed(c), ReadBack(c, next, r),
           UNCHANGED <<live, defaults, generation, terminating, checkpoint, history>>
    PROVE  ManagerInvariant'
<1>1. stage \in Writes /\ stage # "enabling"
  BY DEF Writes
<1>2. /\ calls[c].stage = stage /\ running = c /\ replies' \subseteq replies
      /\ Confirmed(c) = 0 /\ requests = <<>> /\ (\A s \in replies' : s.stage \notin Writes)
      /\ r.ok => writer \in {0, c} /\ (cut \/ ~owed)
  BY <1>1, ReceivedFacts
<1>3. /\ calls[c] \in Call /\ calls[c].stage \notin {"new", "lost"}
      /\ Whole(calls[c].cp) /\ (calls[c].kind = "rollback" => calls[c].cp.live # Nothing)
  BY <1>1, <1>2, CallFacts DEF Active
<1>4. \A i \in DOMAIN requests : requests[i].stage \notin Writes
  BY <1>2
<1>5. CASE NoHelper(c)
  BY <1>2, <1>3, <1>4, <1>5, StandingFacts, CallEnds DEF NoHelper
<1>6. CASE r.ok /\ Send(c, At(c, next), Nothing)
  <2> DEFINE new == At(c, next)
  <2>1. /\ new \in Call /\ new.stage = next /\ new.kind = calls[c].kind
        /\ new.cp = calls[c].cp /\ new.keep = calls[c].keep
    BY <1>3, AtFits DEF Settling, Reads
  <2>2. /\ calls' = [calls EXCEPT ![c] = new] /\ running' = c
        /\ requests' = Append(requests, [call |-> c, stage |-> new.stage, value |-> Nothing,
                                         keep |-> new.keep])
    BY <1>6 DEF Send
  <2> HIDE DEF new
  <2>3. /\ new.stage \in Reads /\ new.stage \in Reads \cup Writes
        /\ new.stage \notin Writes \cup Ahead \cup {"checkpointing"}
    BY <2>1 DEF Settling, Reads, Writes, Ahead
  <2>4. pending' = IF new.stage \in Writes THEN c ELSE 0
    BY <1>2, <2>3
  <2> QED
    BY <1>2, <1>3, <1>4, <1>6, <2>1, <2>2, <2>3, <2>4, StandingFacts, CallSends
<1> QED
  BY <1>5, <1>6 DEF ReadBack

LEMMA RestoredSafe ==
    ASSUME ManagerInvariant, NEW c \in Calls, NEW r, Restored(c, r)
    PROVE  ManagerInvariant'
BY ReadBackSafe DEF Restored, Settling

LEMMA RevertedSafe ==
    ASSUME ManagerInvariant, NEW c \in Calls, NEW r, Reverted(c, r)
    PROVE  ManagerInvariant'
BY ReadBackSafe DEF Reverted, Settling

LEMMA VerifiedSafe ==
    ASSUME ManagerInvariant, NEW c \in Calls, NEW r, Verified(c, r)
    PROVE  ManagerInvariant'
<1>1. /\ Received(c, "verifying", r)
      /\ UNCHANGED <<live, generation, pending, terminating, requests, checkpoint, history>>
  BY DEF Verified
<1>2. /\ calls[c].stage \in Settling /\ running = c /\ replies' \subseteq replies
      /\ calls[c].stage \notin {"new", "lost"}
  BY <1>1, ReceivedFacts DEF Reads, Settling
<1>3. PICK result \in {"ok", "failed"} : Finish(c, result)
  BY DEF Verified
<1>4. UNCHANGED defaults \/ (defaults' \in Defaults /\ Whole(defaults'))
  BY StandingFacts DEF Verified, ClearSnapshot, Defaults, Whole
<1> QED
  BY <1>1, <1>2, <1>3, <1>4, StandingFacts, CallEnds

LEMMA CheckpointReadSafe ==
    ASSUME ManagerInvariant, NEW c \in Calls, NEW r, CheckpointRead(c, r)
    PROVE  ManagerInvariant'
<1>1. /\ Received(c, "checkpointing", r)
      /\ UNCHANGED <<live, defaults, generation, pending, terminating, requests, history>>
  BY DEF CheckpointRead
<1>2. /\ calls[c].stage = "checkpointing" /\ running = c /\ replies' \subseteq replies
      /\ r.value \in Setting
  BY <1>1, ReceivedFacts DEF Reads
<1>3. calls[c] \in Call /\ calls[c].stage \notin {"new", "lost"} /\ Whole(calls[c].cp)
  BY <1>2, CallFacts DEF Active, Reads
<1>4. /\ checkpoint' \in Checkpoint /\ Whole(checkpoint')
      /\ checkpoint' = NoCheckpoint \/ checkpoint'.live # Nothing
  <2>1. CASE UNCHANGED checkpoint
    BY <2>1, StandingFacts
  <2>2. CASE checkpoint' = [calls[c].cp EXCEPT !.live = r.value]
    <3>1. calls[c].cp \in Checkpoint
      BY <1>3 DEF Call
    <3> QED
      BY <1>2, <1>3, <2>2, <3>1, ManagerAssumption DEF Checkpoint, Whole, Setting
  <2> QED
    BY <2>1, <2>2 DEF CheckpointRead
<1>5. PICK result \in {"ok", "failed"} : Finish(c, result)
  BY DEF CheckpointRead
<1> DEFINE new == Done(result)
<1>6. /\ new \in Call /\ new.stage = result /\ new.kind = "none" /\ new.cp = NoCheckpoint
      /\ Whole(NoCheckpoint)
  BY DoneFits DEF Ended
<1>7. calls' = [calls EXCEPT ![c] = new] /\ running' = 0
  BY <1>5 DEF Finish
<1> HIDE DEF new
<1>8. new.stage \notin Active \cup Settling \cup Ahead \cup {"new", "lost", "checkpointing"}
  BY <1>6 DEF Active, Reads, Writes, Checks, Settling, Ahead
<1> QED
  BY <1>1, <1>2, <1>3, <1>4, <1>6, <1>7, <1>8, StandingFacts, CallMoves

LEMMA RollbackConfirmedSafe ==
    ASSUME ManagerInvariant, NEW c \in Calls, NEW r, RollbackConfirmed(c, r)
    PROVE  ManagerInvariant'
<1>1. /\ Received(c, "confirming", r)
      /\ UNCHANGED <<live, generation, pending, terminating, requests, checkpoint, history>>
  BY DEF RollbackConfirmed
<1>2. /\ calls[c].stage \in Settling \cap Active /\ running = c /\ replies' \subseteq replies
      /\ calls[c].stage \notin {"new", "lost"}
  BY <1>1, ReceivedFacts DEF Reads, Settling, Active
<1>3. PICK result \in {"ok", "failed"} : Finish(c, result)
  BY DEF RollbackConfirmed
<1>4. UNCHANGED defaults \/ (defaults' \in Defaults /\ Whole(defaults'))
  <2>1. calls[c].cp \in Checkpoint /\ Whole(calls[c].cp)
    BY <1>2, CallFacts DEF Call
  <2> QED
    BY <2>1, StandingFacts DEF RollbackConfirmed, Defaults, Checkpoint, Whole
<1> QED
  BY <1>1, <1>2, <1>3, <1>4, StandingFacts, CallEnds

\* A stage that is no longer waited for; its write stays unconfirmed.
LEMMA StageFailsSafe ==
    ASSUME ManagerInvariant, NEW c \in Calls, StageFails(c)
    PROVE  ManagerInvariant'
<1>1. calls[c].stage \in Active
  BY DEF StageFails, Active
<1>2. calls[c].stage \notin {"new", "lost"} /\ running = c
  BY <1>1, CallFacts
<1> QED
  BY <1>2, StandingFacts, CallEnds DEF StageFails

LEMMA LateReplySafe ==
    ASSUME ManagerInvariant, NEW c \in Calls, LateReply(c)
    PROVE  ManagerInvariant'
<1> USE DEF ManagerInvariant
<1>1. PICK r \in replies :
          /\ r.call = c /\ replies' = replies \ {r}
          /\ pending' = IF r.stage \in Writes THEN Confirmed(c) ELSE pending
  BY DEF LateReply
<1>2. UNCHANGED <<live, defaults, calls, running, generation, terminating, requests, checkpoint,
                  history>>
  BY DEF LateReply
<1>3. \/ pending' = pending
      \/ /\ pending' = 0 /\ requests = <<>>
         /\ \A s \in replies' : s.stage \notin Writes
  BY <1>1 DEF AnswersAlone, Confirmed
<1>4. Types'
  BY <1>1, <1>2, <1>3 DEF Types, history
<1>5. Alone' /\ KindsFit' /\ Submitted' /\ ValuesPresent'
  BY <1>1, <1>2 DEF Alone, KindsFit, Submitted, ValuesPresent, history
<1>6. WritesLast' /\ AnswersAlone'
  BY <1>1, <1>2, <1>3 DEF WritesLast, AnswersAlone, Mine, history
<1>7. RecordsWhole' /\ KeptAhead' /\ Held' /\ Settled'
  BY <1>2 DEF RecordsWhole, Whole, KeptAhead, Held, Settled, history
<1> QED
  BY <1>4, <1>5, <1>6, <1>7
-----------------------------------------------------------------------------
(* The helper, the user, and the life of the process.                       *)

LEMMA HeadIsFirst ==
    ASSUME NEW S, NEW s \in Seq(S), s # <<>>
    PROVE  Head(s) = s[1]
OBVIOUS

LEMMA OneLeavesNone ==
    ASSUME NEW S, NEW s \in Seq(S), Len(s) = 1
    PROVE  Tail(s) = <<>>
<1>1. s # <<>>
  OBVIOUS
<1>2. Tail(s) \in Seq(S) /\ Len(Tail(s)) = 0
  BY <1>1, HeadTailProperties
<1> QED
  BY <1>2, EmptySeq

\* The queue of the helper once its head is done.
LEMMA TailFacts ==
    ASSUME requests \in Seq(Request), requests # <<>>
    PROVE  /\ Head(requests) \in Request /\ Tail(requests) \in Seq(Request)
           /\ 1 \in DOMAIN requests /\ Head(requests) = requests[1]
           /\ Len(requests) = 1 => Tail(requests) = <<>>
           /\ Len(requests) \in Nat /\ Len(Tail(requests)) = Len(requests) - 1
           /\ \A i \in DOMAIN Tail(requests) :
                  i + 1 \in DOMAIN requests /\ Tail(requests)[i] = requests[i + 1]
<1>1. /\ Head(requests) \in Request /\ Tail(requests) \in Seq(Request)
      /\ Len(Tail(requests)) = Len(requests) - 1
      /\ \A i \in 1..Len(Tail(requests)) : Tail(requests)[i] = requests[i + 1]
  BY HeadTailProperties
<1>2. Len(requests) \in Nat \ {0} /\ DOMAIN requests = 1..Len(requests)
  BY EmptySeq
<1>3. DOMAIN Tail(requests) = 1..Len(Tail(requests))
  BY <1>1
<1>4. Head(requests) = requests[1]
  BY HeadIsFirst
<1>5. \A i \in DOMAIN Tail(requests) : i + 1 \in DOMAIN requests
  BY <1>1, <1>2, <1>3
<1>6. Len(requests) = 1 => Tail(requests) = <<>>
  BY OneLeavesNone
<1>7. 1 \in DOMAIN requests
  BY <1>2
<1> QED
  BY <1>1, <1>2, <1>3, <1>4, <1>5, <1>6, <1>7

LEMMA HelperServesSafe ==
    ASSUME ManagerInvariant, HelperServes
    PROVE  ManagerInvariant'
<1> USE DEF ManagerInvariant
<1> DEFINE q == Head(requests)
<1>1. requests \in Seq(Request) /\ requests # <<>> /\ requests' = Tail(requests)
  BY DEF HelperServes, Types
<1>2. /\ q \in Request /\ q.call \in Calls /\ 1 \in DOMAIN requests /\ q = requests[1]
      /\ q.stage \in Reads \cup Writes /\ ~(q.stage \in Reads /\ q.stage \in Writes)
  BY <1>1, TailFacts DEF Request, Reads, Writes
<1>3. /\ requests' \in Seq(Request)
      /\ \A i \in DOMAIN requests' : i + 1 \in DOMAIN requests /\ requests'[i] = requests[i + 1]
      /\ Len(requests) \in Nat /\ Len(requests') = Len(requests) - 1
  BY <1>1, TailFacts
<1>4. UNCHANGED <<defaults, calls, running, generation, pending, terminating, checkpoint>>
  BY DEF HelperServes, process
<1>5. PICK v \in Setting \cup {Nothing}, ok \in BOOLEAN :
          /\ replies' = IF calls[q.call].stage = "lost" THEN replies
                        ELSE replies \cup {[call |-> q.call, stage |-> q.stage,
                                            value |-> v, ok |-> ok]}
          /\ \/ /\ q.stage \in Reads /\ v = live
                /\ UNCHANGED <<live, history>>
             \/ /\ q.stage \in Writes
                /\ writer' = q.call /\ UNCHANGED cut
                /\ \/ /\ q.value # Nothing /\ live' = q.value
                      /\ owed' = (q.stage = "enabling" /\ (q.keep \/ (owed /\ live = ClashFX)))
                   \/ q.value = Nothing /\ UNCHANGED <<live, owed>>
             \/ q.stage \in Writes /\ ~ok /\ UNCHANGED <<live, history>>
  <2>1. live \in Setting
    BY DEF Types
  <2> QED
    BY <2>1 DEF HelperServes
<1> DEFINE a == [call |-> q.call, stage |-> q.stage, value |-> v, ok |-> ok]
<1>6. a \in Reply /\ a.call = q.call /\ a.stage = q.stage /\ a.value = v /\ a.ok = ok
  BY <1>2 DEF Reply, Request
<1>7. replies' = IF calls[q.call].stage = "lost" THEN replies ELSE replies \cup {a}
  BY <1>5
<1>8. /\ q.value # Nothing => q.value \in Setting
      /\ q.stage \in Writes => cut \/ q.value # Nothing
      /\ cut' = cut
  BY <1>2, <1>5 DEF ValuesPresent, Request, history
<1> HIDE DEF q, a
<1>9. Types'
  <2>1. live' \in Setting /\ writer' \in Calls \cup {0}
    BY <1>2, <1>5, <1>8 DEF Types, history
  <2>2. owed' \in BOOLEAN
    BY <1>5 DEF Types, history
  <2>3. replies' \subseteq Reply
    BY <1>6, <1>7 DEF Types
  <2>4. cut' \in BOOLEAN
    BY <1>8 DEF Types
  <2> QED
    BY <1>3, <1>4, <2>1, <2>2, <2>3, <2>4 DEF Types
<1>10. Alone' /\ KindsFit' /\ RecordsWhole'
  BY <1>4, <1>8 DEF Alone, KindsFit, RecordsWhole, Whole
<1>11. Submitted'
  BY <1>2, <1>3, <1>4, <1>6, <1>7 DEF Submitted
<1>12. ValuesPresent'
  <2>1. q.stage \in Reads => v # Nothing
    BY <1>2, <1>5, ManagerAssumption DEF Types, Setting
  <2> QED
    BY <1>3, <1>4, <1>6, <1>7, <1>8, <2>1 DEF ValuesPresent
<1>13. WritesLast'
  <2>1. \A x \in Request : Mine(x)' <=> Mine(x)
    BY <1>4 DEF Mine
  <2>2. \A i \in DOMAIN requests' : requests'[i] \in Request /\ i \in Int
    BY <1>3
  <2> QED
    BY <1>3, <1>4, <2>1, <2>2 DEF WritesLast
<1>14. AnswersAlone'
  <2>1. \A s \in replies : s.stage \notin Writes
    BY <1>1 DEF AnswersAlone
  <2>2. CASE q.stage \notin Writes \/ calls[q.call].stage = "lost"
    BY <1>6, <1>7, <2>1, <2>2 DEF AnswersAlone
  <2>3. CASE q.stage \in Writes /\ calls[q.call].stage # "lost"
    <3>1. Len(requests) = 1 /\ pending = q.call
      BY <1>2, <2>3 DEF WritesLast, Mine
    <3>2. requests' = <<>>
      BY <1>1, <3>1, TailFacts
    <3>3. ok => writer' = q.call /\ (q.stage # "enabling" => cut \/ ~owed')
      BY <1>2, <1>5, <1>8, <2>3
    <3> QED
      BY <1>4, <1>8, <1>6, <1>7, <2>1, <3>1, <3>2, <3>3 DEF AnswersAlone
  <2> QED
    BY <2>2, <2>3
<1>15. KeptAhead'
  BY <1>3, <1>4, <1>8 DEF KeptAhead
<1>16. Held'
  <2>1. q.stage = "enabling" /\ q.keep => cut \/ defaults.valid
    BY <1>2 DEF KeptAhead
  <2> QED
    BY <1>4, <1>5, <1>8, <2>1 DEF Held, history
<1>17. Settled'
  BY <1>2, <1>3, <1>4, <1>5, <1>8 DEF Settled, history
<1> QED
  BY <1>9, <1>10, <1>11, <1>12, <1>13, <1>14, <1>15, <1>16, <1>17

LEMMA UserChangesSafe ==
    ASSUME ManagerInvariant, UserChanges
    PROVE  ManagerInvariant'
<1> USE DEF ManagerInvariant
<1>1. /\ live' \in External /\ writer' = 0 /\ owed' = FALSE
      /\ UNCHANGED <<defaults, calls, running, generation, pending, terminating, requests, replies,
                     checkpoint, cut>>
  BY DEF UserChanges, process
<1>2. Types'
  BY <1>1 DEF Types, Setting
<1>3. Alone' /\ KindsFit' /\ Submitted' /\ ValuesPresent' /\ WritesLast' /\ RecordsWhole'
  BY <1>1 DEF Alone, KindsFit, Submitted, ValuesPresent, WritesLast, RecordsWhole, Whole, Mine
<1>4. AnswersAlone' /\ KeptAhead' /\ Held' /\ Settled'
  BY <1>1 DEF AnswersAlone, KeptAhead, Held, Settled
<1> QED
  BY <1>2, <1>3, <1>4

LEMMA FlagsSafe ==
    ASSUME ManagerInvariant, ToggleRestore \/ SetTerminating
    PROVE  ManagerInvariant'
<1> USE DEF ManagerInvariant
<1>1. UNCHANGED <<live, calls, running, generation, pending, requests, replies, checkpoint, history>>
  BY DEF ToggleRestore, SetTerminating, process
<1>2. /\ defaults' \in Defaults /\ defaults'.saved = defaults.saved
      /\ defaults'.valid = defaults.valid
  <2>1. defaults \in Defaults
    BY DEF Types
  <2>2. CASE defaults' = [defaults EXCEPT !.restoreOff = ~@]
    <3>1. ASSUME NEW off \in BOOLEAN
          PROVE  LET d == [defaults EXCEPT !.restoreOff = off]
                 IN  d \in Defaults /\ d.saved = defaults.saved /\ d.valid = defaults.valid
      BY <2>1 DEF Defaults
    <3> DEFINE off == ~defaults.restoreOff
    <3>2. off \in BOOLEAN
      BY Zenon
    <3>3. defaults' = [defaults EXCEPT !.restoreOff = off]
      BY <2>2
    <3> HIDE DEF off
    <3> QED
      BY <3>1, <3>2, <3>3
  <2> QED
    BY <2>1, <2>2 DEF ToggleRestore, SetTerminating
<1>3. terminating' \in BOOLEAN
  BY DEF ToggleRestore, SetTerminating, process, Types
<1>4. Types'
  BY <1>1, <1>2, <1>3 DEF Types, history
<1>5. Alone' /\ KindsFit' /\ Submitted' /\ ValuesPresent' /\ WritesLast' /\ RecordsWhole'
  BY <1>1, <1>2 DEF Alone, KindsFit, Submitted, ValuesPresent, WritesLast, RecordsWhole, Mine, Whole,
                    history
<1>6. AnswersAlone' /\ KeptAhead' /\ Held' /\ Settled'
  BY <1>1, <1>2 DEF AnswersAlone, KeptAhead, Held, Settled, history
<1> QED
  BY <1>4, <1>5, <1>6

\* What survives a crash is with the helper, and no longer this process's.
LEMMA DiesSafe ==
    ASSUME ManagerInvariant, Dies, UNCHANGED <<live, writer, owed>>,
           defaults' \in Defaults, defaults'.valid = defaults.valid,
           cut' \in BOOLEAN, cut => cut', Whole(defaults)'
    PROVE  ManagerInvariant'
<1> USE DEF ManagerInvariant
<1>1. /\ running' = 0 /\ generation' = 0 /\ pending' = 0 /\ terminating' = FALSE
      /\ replies' = {} /\ checkpoint' = NoCheckpoint /\ requests' \in {requests, <<>>}
  BY DEF Dies
<1>2. /\ calls \in [Calls -> Call] /\ requests \in Seq(Request)
      /\ \A x \in Request : x.call \in Calls
  BY DEF Types, Request
<1>3. /\ calls' \in [Calls -> Call]
      /\ \A c \in Calls :
             IF calls[c].stage = "new" THEN calls'[c] = calls[c] ELSE calls'[c] = Done("lost")
  BY <1>2, DoneFits DEF Dies, Ended
<1>4. /\ \A c \in Calls : calls'[c].stage \in {"new", "lost"} /\ calls'[c].kind = "none"
                           /\ Whole(calls'[c].cp)
      /\ \A c \in Calls : calls[c].stage # "new" => calls'[c].stage = "lost"
      /\ Whole(NoCheckpoint)
  BY <1>3, DoneFits DEF Ended, KindsFit, RecordsWhole
<1>5. \A i \in DOMAIN requests' :
          /\ i \in DOMAIN requests /\ requests'[i] = requests[i] /\ requests'[i] \in Request
          /\ calls'[requests'[i].call].stage = "lost"
  <2>1. CASE requests' = requests
    BY <1>2, <1>4, <2>1 DEF Submitted
  <2>2. CASE requests' = <<>>
    BY <2>2
  <2> QED
    BY <1>1, <2>1, <2>2
<1>6. Types'
  <2>1. requests' \in Seq(Request)
    <3>1. CASE requests' = requests
      BY <1>2, <3>1
    <3>2. CASE requests' = <<>>
      BY <3>2, EmptySeq
    <3> QED
      BY <1>1, <3>1, <3>2
  <2>2. NoCheckpoint \in Checkpoint
    BY DEF NoCheckpoint, Checkpoint
  <2> QED
    BY <1>1, <1>3, <2>1, <2>2 DEF Types
<1>7. Alone' /\ KindsFit' /\ RecordsWhole'
  BY <1>1, <1>4 DEF Alone, KindsFit, RecordsWhole, Whole, Active, Reads, Writes, Checks
<1>8. Submitted' /\ ValuesPresent'
  BY <1>1, <1>5 DEF Submitted, ValuesPresent
<1>9. WritesLast'
  BY <1>5 DEF WritesLast, Mine
<1>10. AnswersAlone' /\ KeptAhead' /\ Held' /\ Settled'
  BY <1>1, <1>4, <1>5 DEF AnswersAlone, KeptAhead, Held, Settled, Ahead, Settling
<1> QED
  BY <1>6, <1>7, <1>8, <1>9, <1>10
\* A crash between the two keys keeps what the snapshot was marked as.
LEMMA CrashSafe ==
    ASSUME ManagerInvariant, Crash \/ CrashHalfway
    PROVE  ManagerInvariant'
<1>1. Dies /\ UNCHANGED <<live, writer, owed>>
  BY DEF Crash, CrashHalfway, history
<1>2. CASE Crash
  <2>1. UNCHANGED <<defaults, cut>>
    BY <1>2 DEF Crash, history
  <2> QED
    BY <1>1, <2>1, DiesSafe DEF ManagerInvariant, Types, RecordsWhole, Whole
<1>3. CASE CrashHalfway
  <2>1. PICK c \in Calls, r \in replies : FirstKey(c, r)
    BY <1>3 DEF CrashHalfway
  <2>2. /\ defaults \in Defaults /\ cut \in BOOLEAN /\ r \in Reply
        /\ calls[c].cp.saved \in Setting \cup {Nothing}
    BY <2>1 DEF ManagerInvariant, Types, Call, Checkpoint
  <2>3. PICK saved \in Setting \cup {Nothing} : defaults' = [defaults EXCEPT !.saved = saved]
    BY <2>1, <2>2 DEF FirstKey, Reply
  <2>4. defaults' \in Defaults /\ defaults'.valid = defaults.valid
    BY <2>2, <2>3 DEF Defaults
  <2>5. cut' = (cut \/ (defaults'.valid /\ defaults'.saved = Nothing))
    BY <1>3 DEF CrashHalfway
  <2>6. cut' \in BOOLEAN /\ (cut => cut')
    BY Zenon, <2>5
  <2>7. Whole(defaults)'
    BY <2>5 DEF Whole
  <2> QED
    BY <1>1, <2>4, <2>6, <2>7, DiesSafe
<1> QED
  BY <1>2, <1>3
-----------------------------------------------------------------------------
LEMMA InitSafe ==
    ASSUME Init
    PROVE  ManagerInvariant
<1>1. /\ owed = defaults.valid /\ writer = 0 /\ cut = FALSE /\ calls = [c \in Calls |-> Done("new")]
      /\ running = 0 /\ generation = 0 /\ pending = 0 /\ terminating = FALSE
      /\ requests = <<>> /\ replies = {} /\ checkpoint = NoCheckpoint
  BY DEF Init
<1>2. live \in Setting /\ defaults \in Defaults /\ Whole(defaults)
  <2>1. PICK s \in External, v \in BOOLEAN, off \in BOOLEAN :
            \/ live = s /\ defaults = [saved |-> Nothing, valid |-> FALSE, restoreOff |-> off]
            \/ live = ClashFX /\ defaults = [saved |-> s, valid |-> v, restoreOff |-> off]
    BY DEF Init
  <2>2. s \in Setting /\ ClashFX \in Setting /\ s # Nothing
    BY ManagerAssumption DEF Setting
  <2>3. CASE live = s /\ defaults = [saved |-> Nothing, valid |-> FALSE, restoreOff |-> off]
    BY <2>2, <2>3 DEF Defaults, Whole
  <2>4. CASE live = ClashFX /\ defaults = [saved |-> s, valid |-> v, restoreOff |-> off]
    <3>1. live \in Setting
      BY <2>2, <2>4
    <3>2. defaults \in Defaults
      BY <2>2, <2>4 DEF Defaults
    <3>3. defaults.saved # Nothing
      BY <2>2, <2>4
    <3> QED
      BY <3>1, <3>2, <3>3 DEF Whole
  <2> QED
    BY <2>1, <2>3, <2>4
<1>3. /\ \A c \in Calls : /\ calls[c].stage = "new" /\ calls[c].kind = "none"
                          /\ calls[c].cp = NoCheckpoint
      /\ calls \in [Calls -> Call] /\ Whole(NoCheckpoint) /\ NoCheckpoint \in Checkpoint
  BY <1>1, DoneFits DEF NoCheckpoint, Checkpoint
<1>4. requests \in Seq(Request) /\ DOMAIN requests = {}
  BY <1>1, EmptySeq
<1>5. defaults.valid \in BOOLEAN
  BY <1>2 DEF Defaults
<1>6. Types
  BY <1>1, <1>2, <1>3, <1>4, <1>5 DEF Types
<1>7. Alone /\ KindsFit /\ Submitted /\ ValuesPresent /\ WritesLast /\ AnswersAlone
  BY <1>1, <1>3, <1>4 DEF Alone, KindsFit, Submitted, ValuesPresent, WritesLast, AnswersAlone,
                          Active, Reads, Writes, Checks
<1>8. RecordsWhole /\ KeptAhead /\ Held /\ Settled
  BY <1>1, <1>2, <1>3, <1>4 DEF RecordsWhole, KeptAhead, Held, Settled, Ahead, Settling
<1> QED
  BY <1>6, <1>7, <1>8 DEF ManagerInvariant

LEMMA NextSafe ==
    ASSUME ManagerInvariant, [Next]_vars
    PROVE  ManagerInvariant'
<1>1. ASSUME NEW c \in Calls, Start(c) PROVE ManagerInvariant'
  BY <1>1, StartRefusedSafe, StartEnableSafe, StartDisableSafe, StartCheckpointSafe,
     StartRollbackSafe DEF Start
<1>2. ASSUME NEW c \in Calls, Turn(c) PROVE ManagerInvariant'
  BY <1>2, DisplaceSafe, InvokeEnableSafe, StageFailsSafe DEF Turn
<1>3. ASSUME NEW c \in Calls, Replied(c) PROVE ManagerInvariant'
  BY <1>3, CapturedSafe, DisplacedSafe, SwitchedSafe, RestoredSafe, VerifiedSafe,
     CheckpointReadSafe, RevertedSafe, RollbackConfirmedSafe DEF Replied
<1>4. CASE UNCHANGED vars
  <2>1. UNCHANGED <<live, defaults, calls, running, generation, pending, terminating, requests,
                    replies, checkpoint, history>>
    BY <1>4 DEF vars, process
  <2> USE DEF ManagerInvariant
  <2>2. Types' /\ Alone' /\ KindsFit' /\ Submitted' /\ ValuesPresent' /\ WritesLast'
    BY <2>1 DEF Types, Alone, KindsFit, Submitted, ValuesPresent, WritesLast, Mine, history
  <2>3. AnswersAlone' /\ RecordsWhole' /\ KeptAhead' /\ Held' /\ Settled'
    BY <2>1 DEF AnswersAlone, RecordsWhole, Whole, KeptAhead, Held, Settled, history
  <2> QED
    BY <2>2, <2>3
<1> QED
  BY <1>1, <1>2, <1>3, <1>4, SubmitSafe, LateReplySafe, HelperServesSafe, UserChangesSafe,
     FlagsSafe, CrashSafe DEF Next

\* The inductive invariant, for any number of calls, settings and crashes.
THEOREM ManagerCorrect == Spec => []ManagerInvariant
BY InitSafe, NextSafe, PTL DEF Spec

\* TypeOK: every reachable state is well typed, and a snapshot marked valid is one
\* unless its removal was cut short.
THEOREM TypeCorrect == Spec => []TypeOK
<1>1. ManagerInvariant => TypeOK
  BY DEF ManagerInvariant, RecordsWhole, Whole, TypeOK
<1> QED
  BY <1>1, ManagerCorrect, PTL

\* Quarantine: nothing this process asks of the helper waits behind a write of
\* its own that is not confirmed.
THEOREM QuarantineCorrect == Spec => []Quarantine
<1>1. ManagerInvariant => Quarantine
  BY DEF ManagerInvariant, WritesLast, AnswersAlone, Quarantine
<1> QED
  BY <1>1, ManagerCorrect, PTL

\* SnapshotHeld: as long as ClashFX's setting is in force the settings found
\* before are on disk, over crashes at any point but between the two keys of
\* clearSnapshot; what such a crash leaves is the exception the property names.
THEOREM SnapshotHeldCorrect == Spec => []SnapshotHeld
<1>1. ManagerInvariant => SnapshotHeld
  BY DEF ManagerInvariant, Held, RecordsWhole, Whole, SnapshotHeld
<1> QED
  BY <1>1, ManagerCorrect, PTL
-----------------------------------------------------------------------------
(* What a step does: it reports success only where it is true, and while    *)
(* the process terminates it asks for no enable.                            *)

Unreported == \A c \in Calls : calls[c].stage # "ok" => calls'[c].stage # "ok"

AsksNoEnable ==
    Len(requests') > Len(requests)
        => requests'[Len(requests')].stage \notin {"enabling", "displacing"}

Plain == Unreported /\ (terminating => AsksNoEnable)

LEMMA SetsPlain ==
    ASSUME ManagerInvariant, NEW d \in Calls, NEW new, new.stage # "ok",
           calls' = [calls EXCEPT ![d] = new], UNCHANGED requests
    PROVE  Plain
<1>1. calls \in [Calls -> Call] /\ Len(requests) \in Nat
  BY DEF ManagerInvariant, Types
<1>2. Unreported
  BY <1>1 DEF Unreported
<1>3. ~(Len(requests') > Len(requests))
  BY <1>1
<1> QED
  BY <1>2, <1>3 DEF Plain, AsksNoEnable

LEMMA FailsPlain ==
    ASSUME ManagerInvariant, NEW d \in Calls, Finish(d, "failed"), UNCHANGED requests
    PROVE  Plain
<1>1. calls' = [calls EXCEPT ![d] = Done("failed")] /\ Done("failed").stage # "ok"
  BY DEF Finish, Done
<1> QED
  BY <1>1, SetsPlain

LEMMA SendsPlain ==
    ASSUME ManagerInvariant, NEW d \in Calls, NEW new, new.stage \in Reads \cup Writes,
           terminating => new.stage \notin {"enabling", "displacing"},
           NEW value, Send(d, new, value)
    PROVE  Plain
<1> DEFINE q == [call |-> d, stage |-> new.stage, value |-> value, keep |-> new.keep]
<1>1. calls \in [Calls -> Call] /\ requests \in Seq(Request)
  BY DEF ManagerInvariant, Types
<1>2. calls' = [calls EXCEPT ![d] = new] /\ requests' = Append(requests, q)
  BY DEF Send
<1>3. new.stage # "ok"
  BY DEF Reads, Writes
<1>4. Unreported
  BY <1>1, <1>2, <1>3 DEF Unreported
<1>5. requests'[Len(requests')] = q
  <2> HIDE DEF q
  <2>1. \A x : Append(requests, x)[Len(requests) + 1] = x
                /\ Len(Append(requests, x)) = Len(requests) + 1
    BY <1>1
  <2> QED
    BY <1>2, <2>1
<1>6. terminating => AsksNoEnable
  BY <1>5 DEF AsksNoEnable
<1> QED
  BY <1>4, <1>6 DEF Plain

LEMMA StartPlain ==
    ASSUME ManagerInvariant, NEW c \in Calls, Start(c)
    PROVE  Plain
<1>1. CASE StartRefused(c)
  BY <1>1, FailsPlain DEF StartRefused
<1>2. CASE StartEnable(c)
  <2>1. calls[c] \in Call /\ generation \in Nat /\ defaults \in Defaults /\ ~terminating
    BY <1>2, FirstFacts DEF StartEnable
  <2>2. Prepared(calls[c].kind) \in Checks
    BY DEF Prepared, Checks
  <2>3. /\ Transition(c, "capturing").stage = "capturing"
        /\ Transition(c, Prepared(calls[c].kind)).stage \in Checks
    BY <2>1, <2>2, TransitionFits DEF Reads
  <2>4. CASE /\ calls' = [calls EXCEPT ![c] = Transition(c, Prepared(calls[c].kind))]
             /\ UNCHANGED requests
    BY <2>3, <2>4, SetsPlain DEF Checks
  <2>5. CASE Send(c, Transition(c, "capturing"), Nothing)
    BY <2>3, <2>5, SendsPlain DEF Reads
  <2>6. CASE NoHelper(c)
    BY <2>6, FailsPlain DEF NoHelper
  <2> QED
    BY <1>2, <2>4, <2>5, <2>6 DEF StartEnable, Ask
<1>3. CASE StartDisable(c)
  <2>1. calls[c] \in Call /\ generation \in Nat /\ defaults \in Defaults
    BY <1>3, FirstFacts DEF StartDisable
  <2>2. /\ Transition(c, "restoring").stage = "restoring"
        /\ Transition(c, "disabling").stage = "disabling"
    BY <2>1, TransitionFits DEF Writes
  <2>3. \/ Send(c, Transition(c, "restoring"), defaults.saved)
        \/ Send(c, Transition(c, "disabling"), Off)
        \/ NoHelper(c)
    BY <1>3 DEF StartDisable, Write
  <2> QED
    BY <2>2, <2>3, SendsPlain, FailsPlain DEF NoHelper, Writes
<1>4. CASE StartCheckpoint(c)
  <2> DEFINE cp == [NoCheckpoint EXCEPT !.saved = defaults.saved, !.valid = defaults.valid]
             new == [At(c, "checkpointing") EXCEPT !.cp = cp]
  <2>1. calls[c] \in Call
    BY <1>4, FirstFacts DEF StartCheckpoint
  <2>2. At(c, "checkpointing") \in Call /\ At(c, "checkpointing").stage = "checkpointing"
    BY <2>1, AtFits DEF Reads
  <2>3. new.stage = "checkpointing"
    BY <2>2 DEF Call
  <2>4. Send(c, new, Nothing) \/ NoHelper(c)
    BY <1>4 DEF StartCheckpoint, Ask
  <2> HIDE DEF new
  <2> QED
    BY <2>3, <2>4, SendsPlain, FailsPlain DEF NoHelper, Reads
<1>5. CASE StartRollback(c)
  <2>1. calls[c] \in Call
    BY <1>5, FirstFacts DEF StartRollback
  <2>2. At(c, "reverting").stage = "reverting"
    BY <2>1, AtFits DEF Writes
  <2>3. Send(c, At(c, "reverting"), calls[c].cp.live) \/ NoHelper(c)
    BY <1>5 DEF StartRollback, Write
  <2> QED
    BY <2>2, <2>3, SendsPlain, FailsPlain DEF NoHelper, Writes
<1> QED
  BY <1>1, <1>2, <1>3, <1>4, <1>5 DEF Start

LEMMA TurnPlain ==
    ASSUME ManagerInvariant, NEW c \in Calls, Turn(c)
    PROVE  Plain
<1>1. CASE StageFails(c)
  BY <1>1, FailsPlain DEF StageFails
<1>2. ASSUME NEW stage \in {"displacing", "enabling"}, NEW value,
             calls[c].stage \in Checks, ~terminating, Send(c, At(c, stage), value)
      PROVE  Plain
  <2>1. calls[c] \in Call
    BY <1>2, CallFacts DEF Active
  <2>2. At(c, stage).stage = stage
    BY <2>1, AtFits DEF Writes
  <2> QED
    BY <1>2, <2>2, SendsPlain DEF Writes
<1>3. CASE NoHelper(c)
  BY <1>3, FailsPlain DEF NoHelper
<1>4. CASE Displace(c)
  BY <1>2, <1>3, <1>4 DEF Displace, Write, MayWrite, Checks
<1>5. CASE InvokeEnable(c)
  BY <1>2, <1>3, <1>5 DEF InvokeEnable, Write, MayWrite, Checks
<1> QED
  BY <1>1, <1>4, <1>5 DEF Turn

LEMMA ContinuedPlain ==
    ASSUME ManagerInvariant, NEW c \in Calls, NEW r,
           Captured(c, r) \/ Displaced(c, r) \/ Restored(c, r) \/ Reverted(c, r)
    PROVE  Plain
<1>1. PICK stage \in Reads \cup Writes : Received(c, stage, r)
  BY DEF Captured, Displaced, Restored, Reverted, Reads, Writes
<1>2. calls[c] \in Call
  BY <1>1, ReceivedFacts
<1>3. CASE Finish(c, "failed") /\ UNCHANGED requests
  BY <1>3, FailsPlain
<1>4. ASSUME NEW check \in Checks, UNCHANGED requests,
             calls' = [calls EXCEPT ![c] = At(c, check)]
      PROVE  Plain
  <2>1. At(c, check).stage = check
    BY <1>2, AtFits
  <2> QED
    BY <1>4, <2>1, SetsPlain DEF Checks
<1>5. ASSUME NEW next \in Settling, Send(c, At(c, next), Nothing)
      PROVE  Plain
  <2>1. At(c, next).stage = next
    BY <1>2, AtFits DEF Settling, Reads
  <2> QED
    BY <1>5, <2>1, SendsPlain DEF Settling, Reads
<1>6. CASE Captured(c, r)
  <2>1. Prepared(calls[c].kind) \in Checks
    BY DEF Prepared, Checks
  <2> QED
    BY <1>3, <1>4, <1>6, <2>1 DEF Captured
<1>7. CASE Displaced(c, r)
  BY <1>3, <1>4, <1>7 DEF Displaced, Checks
<1>8. CASE Restored(c, r) \/ Reverted(c, r)
  BY <1>3, <1>5, <1>8 DEF Restored, Reverted, ReadBack, NoHelper, Settling
<1> QED
  BY <1>6, <1>7, <1>8

\* An operation that ends with this reply reports what is so.
LEMMA EndedTrue ==
    ASSUME ManagerInvariant, NEW d \in Calls, NEW r,
           \/ Switched(d, r) \/ Verified(d, r)
           \/ CheckpointRead(d, r) \/ RollbackConfirmed(d, r),
           NEW c \in Calls, calls[c].kind \notin {"none", "checkpoint"},
           calls'[c].stage = "ok"
    PROVE  writer \in {0, c}
<1>1. PICK stage \in {"enabling", "disabling", "verifying", "checkpointing", "confirming"} :
          /\ Received(d, stage, r)
          /\ stage \in {"enabling", "disabling"} /\ calls'[d].stage = "ok" => r.ok
          /\ \E result \in {"ok", "failed"} : Finish(d, result)
  <2>1. calls \in [Calls -> Call]
    BY DEF ManagerInvariant, Types
  <2>2. ASSUME ~r.ok, Finish(d, "failed") PROVE calls'[d].stage # "ok"
    BY <2>1, <2>2 DEF Finish, Done
  <2>3. CASE Switched(d, r)
    <3>1. PICK stage \in {"enabling", "disabling"} : Received(d, stage, r)
      BY <2>3 DEF Switched
    <3>2. Finish(d, IF r.ok THEN "ok" ELSE "failed")
      BY <2>3 DEF Switched
    <3> QED
      BY <2>2, <3>1, <3>2
  <2>4. CASE Verified(d, r)
    BY <2>4 DEF Verified
  <2>5. CASE CheckpointRead(d, r)
    BY <2>5 DEF CheckpointRead
  <2>6. CASE RollbackConfirmed(d, r)
    BY <2>6 DEF RollbackConfirmed
  <2> QED
    BY <2>3, <2>4, <2>5, <2>6
<1>2. c = d
  <2>1. calls[c].stage # "ok"
    BY DEF ManagerInvariant, KindsFit, Ended
  <2>2. \A e \in Calls : e # d => calls'[e] = calls[e]
    BY <1>1 DEF Finish, ManagerInvariant, Types
  <2> QED
    BY <2>1, <2>2
<1>3. stage \in Reads \cup Writes /\ calls[d].stage = stage
  BY <1>1 DEF Reads, Writes, Received, Awaited
<1>4. CASE stage \in {"enabling", "disabling"}
  BY <1>1, <1>2, <1>3, <1>4, ReceivedFacts DEF Writes
<1>5. CASE stage \in {"verifying", "confirming"}
  BY <1>2, <1>3, <1>5 DEF ManagerInvariant, Settled, Settling
<1>6. CASE stage = "checkpointing"
  BY <1>2, <1>3, <1>6 DEF ManagerInvariant, KindsFit
<1> QED
  BY <1>4, <1>5, <1>6

\* A step asks for no enable while the process terminates, and reports what is so.
LEMMA StepTrue ==
    ASSUME ManagerInvariant, [Next]_vars
    PROVE  \/ Plain
           \/ /\ terminating => AsksNoEnable
              /\ \A c \in Calls :
                     calls[c].kind \notin {"none", "checkpoint"} /\ calls'[c].stage = "ok"
                         => writer \in {0, c}
<1>1. requests \in Seq(Request) /\ calls \in [Calls -> Call]
  BY DEF ManagerInvariant, Types
<1>2. Len(requests') <= Len(requests) => AsksNoEnable
  BY <1>1 DEF AsksNoEnable
<1>3. UNCHANGED <<calls, requests>> => Plain
  BY <1>1 DEF Plain, Unreported, AsksNoEnable
<1>4. ASSUME NEW c \in Calls, Submit(c) PROVE Plain
  <2>1. PICK k \in Kinds :
            \/ calls' = [calls EXCEPT ![c] =
                             [kind |-> k, gen |-> 0, keep |-> FALSE, stage |-> "queued",
                              cp |-> IF k = "rollback" THEN checkpoint ELSE NoCheckpoint]]
            \/ calls' = [calls EXCEPT ![c] = Done("failed")]
    BY <1>4 DEF Submit
  <2>2. Done("failed").stage # "ok" /\ UNCHANGED requests
    BY <1>4 DEF Done, Submit
  <2> QED
    BY <2>1, <2>2, SetsPlain
<1>5. ASSUME NEW d \in Calls, NEW r,
             \/ Switched(d, r) \/ Verified(d, r)
             \/ CheckpointRead(d, r) \/ RollbackConfirmed(d, r)
      PROVE  /\ AsksNoEnable
             /\ \A c \in Calls :
                    calls[c].kind \notin {"none", "checkpoint"} /\ calls'[c].stage = "ok"
                        => writer \in {0, c}
  <2>1. UNCHANGED requests
    BY <1>5 DEF Switched, Verified, CheckpointRead, RollbackConfirmed
  <2> QED
    BY <1>1, <1>2, <1>5, <2>1, EndedTrue
<1>6. ASSUME NEW c \in Calls, LateReply(c) PROVE Plain
  BY <1>3, <1>6 DEF LateReply
<1>7. CASE HelperServes
  <2>1. requests # <<>> /\ requests' = Tail(requests) /\ UNCHANGED calls
    BY <1>7 DEF HelperServes
  <2>2. Len(requests') <= Len(requests)
    BY <1>1, <2>1, TailFacts
  <2> QED
    BY <1>2, <2>1, <2>2 DEF Plain, Unreported
<1>8. CASE UserChanges \/ ToggleRestore \/ SetTerminating
  BY <1>3, <1>8 DEF UserChanges, ToggleRestore, SetTerminating
<1>9. CASE Crash \/ CrashHalfway
  <2>0. Dies
    BY <1>9 DEF Crash, CrashHalfway
  <2>1. \A c \in Calls : calls'[c].stage = "ok" => calls[c].stage = "ok"
    BY <1>1, <2>0 DEF Dies, Done
  <2>2. Len(requests') <= Len(requests)
    BY <1>1, <2>0 DEF Dies
  <2> QED
    BY <1>2, <2>1, <2>2 DEF Plain, Unreported
<1>10. CASE UNCHANGED vars
  BY <1>3, <1>10 DEF vars
<1> QED
  BY <1>4, <1>5, <1>6, <1>7, <1>8, <1>9, <1>10, StartPlain, TurnPlain, ContinuedPlain
     DEF Next, Replied

\* ReportsTrue: a call that reports success had the last word.
THEOREM ReportsTrueCorrect == Spec => ReportsTrue
<1>1. ManagerInvariant /\ [Next]_vars
          => \A c \in Calls :
                 calls[c].kind \in {"enable", "replace", "disable", "terminate", "rollback"}
                 /\ calls'[c].stage = "ok" => writer \in {0, c}
  <2> SUFFICES ASSUME ManagerInvariant, [Next]_vars, NEW c \in Calls,
                      calls[c].kind \in {"enable", "replace", "disable", "terminate", "rollback"},
                      calls'[c].stage = "ok"
               PROVE  writer \in {0, c}
    OBVIOUS
  <2>1. calls[c].stage # "ok"
    BY DEF ManagerInvariant, KindsFit, Ended
  <2> QED
    BY <2>1, StepTrue DEF Plain, Unreported
<1> QED
  BY <1>1, ManagerCorrect, PTL DEF Spec, ReportsTrue

\* TerminatingQuiet: while the process terminates no enable reaches the helper.
THEOREM TerminatingQuietCorrect == Spec => TerminatingQuiet
<1>1. ManagerInvariant /\ [Next]_vars
          => (terminating /\ Len(requests') > Len(requests)
                 => requests'[Len(requests')].stage \notin {"enabling", "displacing"})
  BY StepTrue DEF Plain, AsksNoEnable
<1> QED
  BY <1>1, ManagerCorrect, PTL DEF Spec, TerminatingQuiet
-----------------------------------------------------------------------------
(* An operation ends.  Every turn of its own brings it nearer to its end,   *)
(* and nothing else takes it back.                                          *)

StageLeft(stage) ==
    CASE stage = "capturing"        -> 5
      [] stage = "beforeDisplacing" -> 4
      [] stage = "displacing"       -> 3
      [] stage = "beforeEnabling"   -> 2
      [] stage \in {"enabling", "disabling", "verifying", "checkpointing", "confirming"} -> 1
      [] stage \in {"restoring", "reverting"} -> 2
      [] OTHER -> 0

StagesLeft(c) == StageLeft(calls[c].stage)

\* The step ends the operation of c, or brings it nearer to its end.
Shortens(c) ==
    \/ running' = 0 /\ calls'[c].stage \in Ended
    \/ running' = c /\ calls'[c].stage \in Active /\ StagesLeft(c)' < StagesLeft(c)

LEMMA StageLeftFacts ==
    /\ \A s \in {"new", "queued"} \cup Ended : StageLeft(s) = 0
    /\ \A s \in Active : StageLeft(s) \in 1..5
    /\ \A s : StageLeft(s) \in 0..5
    /\ \A s : StageLeft(s) # 0 => s \in Active
BY DEF StageLeft, Ended, Active, Reads, Writes, Checks

LEMMA FinishShortens ==
    ASSUME ManagerInvariant, NEW c \in Calls, NEW result \in Ended, Finish(c, result)
    PROVE  Shortens(c)
BY DEF ManagerInvariant, Types, Finish, Done, Shortens

\* The operation of c goes on to a later stage.
LEMMA LaterShortens ==
    ASSUME ManagerInvariant, NEW c \in Calls, NEW new,
           calls' = [calls EXCEPT ![c] = new], running' = c, new.stage \in Active,
           StageLeft(new.stage) < StageLeft(calls[c].stage)
    PROVE  Shortens(c)
BY DEF ManagerInvariant, Types, Shortens, StagesLeft

LEMMA SendShortens ==
    ASSUME ManagerInvariant, NEW c \in Calls, NEW stage \in Reads \cup Writes, NEW value,
           StageLeft(stage) < StageLeft(calls[c].stage), Send(c, At(c, stage), value)
    PROVE  Shortens(c)
<1>1. At(c, stage).stage = stage
  BY AtFits DEF ManagerInvariant, Types
<1> QED
  BY <1>1, LaterShortens DEF Send, Active

LEMMA TurnShortens ==
    ASSUME ManagerInvariant, NEW c \in Calls, Turn(c)
    PROVE  Shortens(c) /\ running = c
<1>1. running = c
  BY DEF Turn, Displace, InvokeEnable, StageFails, ManagerInvariant, Alone, Active, Checks
<1>2. CASE Finish(c, "failed")
  BY <1>1, <1>2, FinishShortens DEF Ended
<1>3. CASE calls[c].stage = "beforeDisplacing" /\ Send(c, At(c, "displacing"), Off)
  BY <1>1, <1>3, SendShortens DEF StageLeft, Writes
<1>4. CASE calls[c].stage = "beforeEnabling" /\ Send(c, At(c, "enabling"), ClashFX)
  BY <1>1, <1>4, SendShortens DEF StageLeft, Writes
<1> QED
  BY <1>1, <1>2, <1>3, <1>4 DEF Turn, Displace, InvokeEnable, StageFails, Write, NoHelper

LEMMA RepliedShortens ==
    ASSUME ManagerInvariant, NEW c \in Calls, Replied(c)
    PROVE  Shortens(c) /\ running = c
<1>1. PICK r \in replies :
          \/ Captured(c, r) \/ Displaced(c, r) \/ Switched(c, r) \/ Restored(c, r)
          \/ Verified(c, r) \/ CheckpointRead(c, r) \/ Reverted(c, r)
          \/ RollbackConfirmed(c, r)
  BY DEF Replied
<1>2. running = c /\ calls[c] \in Call
  <2>1. PICK stage \in Reads \cup Writes : Received(c, stage, r)
    BY <1>1 DEF Captured, Displaced, Switched, Restored, Verified, CheckpointRead, Reverted,
                RollbackConfirmed, Reads, Writes
  <2> QED
    BY <2>1, ReceivedFacts DEF Received, Awaited, ManagerInvariant, Alone, Active
<1>3. ASSUME NEW result \in {"ok", "failed"}, Finish(c, result)
      PROVE  Shortens(c)
  BY <1>3, FinishShortens DEF Ended
<1>4. ASSUME NEW check \in Checks, running' = c,
             calls' = [calls EXCEPT ![c] = At(c, check)],
             StageLeft(check) < StageLeft(calls[c].stage)
      PROVE  Shortens(c)
  <2>1. At(c, check).stage = check
    BY <1>2, AtFits
  <2> QED
    BY <1>4, <2>1, LaterShortens DEF Active
<1>5. CASE Captured(c, r)
  <2>1. Prepared(calls[c].kind) \in Checks /\ calls[c].stage = "capturing"
    BY <1>5 DEF Prepared, Checks, Captured, Received, Awaited
  <2>2. StageLeft(Prepared(calls[c].kind)) < StageLeft(calls[c].stage)
    BY <2>1 DEF StageLeft, Checks
  <2> QED
    BY <1>2, <1>3, <1>4, <1>5, <2>1, <2>2 DEF Captured
<1>6. CASE Displaced(c, r)
  <2>1. calls[c].stage = "displacing" /\ StageLeft("beforeEnabling") < StageLeft("displacing")
    BY <1>6 DEF Displaced, Received, Awaited, StageLeft
  <2> QED
    BY <1>2, <1>3, <1>4, <1>6, <2>1 DEF Displaced, Checks
<1>7. CASE Restored(c, r)
  <2>1. calls[c].stage = "restoring" /\ StageLeft("verifying") < StageLeft("restoring")
    BY <1>7 DEF Restored, Received, Awaited, StageLeft
  <2> QED
    BY <1>2, <1>3, <1>7, <2>1, SendShortens DEF Restored, ReadBack, NoHelper, Reads
<1>8. CASE Reverted(c, r)
  <2>1. calls[c].stage = "reverting" /\ StageLeft("confirming") < StageLeft("reverting")
    BY <1>8 DEF Reverted, Received, Awaited, StageLeft
  <2> QED
    BY <1>2, <1>3, <1>8, <2>1, SendShortens DEF Reverted, ReadBack, NoHelper, Reads
<1> QED
  BY <1>1, <1>2, <1>3, <1>5, <1>6, <1>7, <1>8
     DEF Switched, Verified, CheckpointRead, RollbackConfirmed

\* An operation runs in one of its stages.
Busy == \A c \in Calls : running = c => calls[c].stage \in Active

\* No step takes a running operation back.
LEMMA StepShortens ==
    ASSUME ManagerInvariant, Busy, [Next]_vars, NEW c \in Calls, running = c
    PROVE  Shortens(c) \/ (running' = c /\ StagesLeft(c)' = StagesLeft(c))
<1>1. calls \in [Calls -> Call] /\ c # 0
  BY ManagerAssumption DEF ManagerInvariant, Types
<1>2. ASSUME NEW d \in Calls, Submit(d)
      PROVE  running' = c /\ StagesLeft(c)' = StagesLeft(c)
  <2>0. UNCHANGED running
    BY <1>2 DEF Submit, process
  <2>1. PICK new \in [kind : AllKinds \cup {"none"}, gen : Nat, keep : BOOLEAN,
                      cp : Checkpoint \cup {NoCheckpoint}, stage : {"queued", "failed"}] :
            calls' = [calls EXCEPT ![d] = new]
    BY <1>2, ManagerAssumption DEF Submit, Done, ManagerInvariant, Types
  <2>2. calls[d].stage = "new" /\ new.stage \in {"queued", "failed"}
    BY <1>2, <2>1 DEF Submit
  <2>3. StageLeft(new.stage) = StageLeft(calls[d].stage)
    BY <2>2, StageLeftFacts DEF Ended
  <2> QED
    BY <1>1, <2>0, <2>1, <2>3 DEF StagesLeft
<1>3. ASSUME NEW d \in Calls, Start(d)
      PROVE  FALSE
  BY <1>1, <1>3 DEF Start, StartRefused, StartEnable, StartDisable, StartCheckpoint,
                    StartRollback, IsFirst
<1>4. CASE UNCHANGED <<calls, running>>
  BY <1>4 DEF StagesLeft
<1>5. CASE Crash \/ CrashHalfway
  <2>1. calls[c].stage # "new"
    BY DEF Busy, Active, Reads, Writes, Checks
  <2>2. Dies
    BY <1>5 DEF Crash, CrashHalfway
  <2> QED
    BY <1>1, <2>1, <2>2 DEF Dies, Done, Shortens, Ended
<1> QED
  BY <1>2, <1>3, <1>4, <1>5, TurnShortens, RepliedShortens
     DEF Next, LateReply, HelperServes, UserChanges, ToggleRestore, SetTerminating, process, vars

\* A start ends the call at once, or its operation runs.
LEMMA StartRuns ==
    ASSUME ManagerInvariant, NEW c \in Calls, Start(c)
    PROVE  /\ calls[c].stage = "queued"
           /\ \/ running' = 0 /\ calls'[c].stage \in Ended
              \/ running' = c /\ calls'[c].stage \in Active
<1> DEFINE Runs == \/ running' = 0 /\ calls'[c].stage \in Ended
                   \/ running' = c /\ calls'[c].stage \in Active
<1> SUFFICES Runs
  BY FirstFacts DEF Start, StartRefused, StartEnable, StartDisable, StartCheckpoint, StartRollback
<1>1. IsFirst(c) /\ calls \in [Calls -> Call]
  BY DEF Start, StartRefused, StartEnable, StartDisable, StartCheckpoint, StartRollback,
         ManagerInvariant, Types
<1>2. calls[c] \in Call /\ generation \in Nat /\ defaults \in Defaults
  BY <1>1, FirstFacts
<1>3. Finish(c, "failed") => Runs
  BY <1>1 DEF Finish, Done, Ended
<1>4. ASSUME NEW new, new.stage \in Active, calls' = [calls EXCEPT ![c] = new], running' = c
      PROVE  Runs
  BY <1>1, <1>4
<1>5. ASSUME NEW new, new.stage \in Active, NEW value,
             Ask(c, new) \/ Write(c, new, value)
      PROVE  Runs
  BY <1>3, <1>4, <1>5 DEF Ask, Write, Send, NoHelper
<1>6. ASSUME NEW stage \in Active
      PROVE  Transition(c, stage).stage \in Active /\ At(c, stage).stage \in Active
  BY <1>2, <1>6, TransitionFits, AtFits DEF Active
<1>7. CASE StartEnable(c)
  <2>1. Prepared(calls[c].kind) \in Active /\ "capturing" \in Active
    BY DEF Prepared, Active, Checks, Reads
  <2> QED
    BY <1>4, <1>5, <1>6, <1>7, <2>1 DEF StartEnable
<1>8. CASE StartDisable(c)
  <2>1. "restoring" \in Active /\ "disabling" \in Active
    BY DEF Active, Writes
  <2> QED
    BY <1>5, <1>6, <1>8, <2>1 DEF StartDisable
<1>9. CASE StartCheckpoint(c)
  <2> DEFINE new == [At(c, "checkpointing") EXCEPT
                        !.cp = [NoCheckpoint EXCEPT !.saved = defaults.saved,
                                                    !.valid = defaults.valid]]
  <2>1. new.stage = At(c, "checkpointing").stage
    BY <1>2 DEF At, Call
  <2>2. "checkpointing" \in Active
    BY DEF Active, Reads
  <2>3. new.stage \in Active
    BY <1>6, <2>1, <2>2
  <2>4. Ask(c, new)
    BY <1>9 DEF StartCheckpoint
  <2> HIDE DEF new
  <2> QED
    BY <1>5, <2>3, <2>4
<1>10. CASE StartRollback(c)
  <2>1. "reverting" \in Active
    BY DEF Active, Writes
  <2> QED
    BY <1>5, <1>6, <1>10, <2>1 DEF StartRollback
<1> QED
  BY <1>3, <1>7, <1>8, <1>9, <1>10 DEF Start, StartRefused

\* While no operation runs, only a start makes one run.
LEMMA OnlyStarts ==
    ASSUME ManagerInvariant, running = 0
    PROVE  /\ [Next]_vars => running' = 0 \/ \E c \in Calls : Start(c)
           /\ QueueGoesOn => \E c \in Calls : Start(c)
<1>1. ASSUME NEW c \in Calls, Turn(c) \/ Replied(c)
      PROVE  FALSE
  BY <1>1, TurnShortens, RepliedShortens, ManagerAssumption
<1>2. [Next]_vars => running' = 0 \/ \E c \in Calls : Start(c)
  BY <1>1 DEF Next, Submit, LateReply, HelperServes, UserChanges, ToggleRestore,
              SetTerminating, Crash, CrashHalfway, Dies, process, vars
<1>3. QueueGoesOn => \E c \in Calls : Start(c)
  BY <1>1 DEF QueueGoesOn
<1> QED
  BY <1>2, <1>3

LEMMA BusyStays ==
    ASSUME ManagerInvariant, Busy, [Next]_vars
    PROVE  Busy'
<1> SUFFICES ASSUME NEW c \in Calls, running' = c
             PROVE  calls'[c].stage \in Active
  BY DEF Busy
<1>1. c # 0
  BY ManagerAssumption
<1>2. CASE running = 0
  BY <1>1, <1>2, OnlyStarts, StartRuns
<1>3. CASE running # 0
  <2>1. PICK d \in Calls : running = d
    BY <1>3 DEF ManagerInvariant, Types
  <2>2. Shortens(d) \/ (running' = d /\ StagesLeft(d)' = StagesLeft(d))
    BY <2>1, StepShortens
  <2>3. d = c
    BY <1>1, <2>2 DEF Shortens
  <2>4. StagesLeft(c) # 0
    BY <2>1, <2>3, StageLeftFacts DEF Busy, StagesLeft
  <2>5. StagesLeft(c)' = StageLeft(calls'[c].stage)
    BY DEF StagesLeft
  <2> QED
    BY <1>1, <2>2, <2>3, <2>4, <2>5, StageLeftFacts DEF Shortens
<1> QED
  BY <1>2, <1>3

LEMMA BusyCorrect == Spec => []Busy
<1>1. Init => Busy
  BY ManagerAssumption DEF Init, Busy
<1> QED
  BY <1>1, BusyStays, ManagerCorrect, PTL DEF Spec

LEMMA GoesOnShortens ==
    ASSUME ManagerInvariant, NEW c \in Calls, running = c, QueueGoesOn
    PROVE  Shortens(c)
<1>1. c # 0
  BY ManagerAssumption
<1>2. ASSUME NEW d \in Calls, Start(d)
      PROVE  FALSE
  BY <1>1, <1>2 DEF Start, StartRefused, StartEnable, StartDisable, StartCheckpoint,
                    StartRollback, IsFirst
<1> QED
  BY <1>2, TurnShortens DEF QueueGoesOn

Within(c, n) == running = c /\ StagesLeft(c) <= n

Descent(c, n, m) == Within(c, n) ~> Within(c, m) \/ running = 0

LEMMA DescendsAt ==
    ASSUME NEW c \in Calls, NEW n \in 0..5, NEW m \in -1..4, n = m + 1
    PROVE  FairSpec /\ []NeverStuck => Descent(c, n, m)
<1> DEFINE Goal == Within(c, m) \/ running = 0
<1>0. StagesLeft(c) \in 0..5 /\ StagesLeft(c)' \in 0..5
  BY StageLeftFacts DEF StagesLeft
<1>1. ManagerInvariant /\ Busy /\ Within(c, n) /\ [Next]_vars => Within(c, n)' \/ Goal'
  BY <1>0, StepShortens DEF Within, Shortens
<1>2. ManagerInvariant /\ Within(c, n) /\ <<QueueGoesOn>>_vars => Goal'
  BY <1>0, GoesOnShortens DEF Within, Shortens
<1>3. NeverStuck /\ Within(c, n) => ENABLED <<QueueGoesOn>>_vars
  <2>1. Within(c, n) => ~Idle
    BY ManagerAssumption DEF Within, Idle
  <2> QED
    BY <2>1 DEF NeverStuck
<1> HIDE DEF Goal
<1>4. FairSpec /\ []NeverStuck => (Within(c, n) ~> Goal)
  BY <1>1, <1>2, <1>3, ManagerCorrect, BusyCorrect, PTL DEF FairSpec, Spec
<1> QED
  BY <1>4 DEF Goal, Descent

\* What the queue runs, it gives up.
AllEnd == \A c \in Calls : (running = c => <>(running = 0))

LEMMA RunningEnds == AllEnd /\ running \in Calls => <>(running = 0)
BY DEF AllEnd

LEMMA EachEnds ==
    ASSUME NEW c \in Calls
    PROVE  FairSpec /\ []NeverStuck => [](running = c => <>(running = 0))
<1> DEFINE D(n, m) == FairSpec /\ []NeverStuck => Descent(c, n, m)
<1>1. D(5, 4) /\ D(4, 3) /\ D(3, 2) /\ D(2, 1) /\ D(1, 0) /\ D(0, -1)
  BY DescendsAt
<1>2. running = c => Within(c, 5)
  BY StageLeftFacts DEF Within, StagesLeft
<1>3. ~Within(c, -1)
  BY StageLeftFacts DEF Within, StagesLeft
<1> QED
  BY <1>1, <1>2, <1>3, PTL DEF Descent

\* If the queue goes on and timeouts fire, every operation makes room for the next
\* one, over crashes and also if the helper never answers.
LEMMA QueueFreed == FairSpec /\ []NeverStuck => []<>(running = 0)
<1>1. FairSpec /\ []NeverStuck => \A c \in Calls : [](running = c => <>(running = 0))
  BY EachEnds
<1>2. (\A c \in Calls : [](running = c => <>(running = 0))) => []AllEnd
  BY DEF AllEnd
<1>3. TypeOK => running \in Calls \/ running = 0
  BY DEF TypeOK, Types
<1>4. FairSpec => []TypeOK
  BY TypeCorrect, PTL DEF FairSpec
<1> QED
  BY <1>1, <1>2, <1>3, <1>4, RunningEnds, PTL

\* What runs makes room only by ending.
LEMMA EndsFreeing ==
    ASSUME ManagerInvariant, Busy, running # 0, [Next]_vars, running' = 0
    PROVE  <<\E c \in Calls : Ends(c)>>_vars
<1>1. PICK c \in Calls : running = c
  BY DEF ManagerInvariant, Types
<1>2. calls'[c].stage \in Ended
  BY <1>1, StepShortens, ManagerAssumption DEF Shortens
<1>3. calls[c].stage \notin Ended
  BY <1>1 DEF Busy, Active, Reads, Writes, Checks, Ended
<1>4. \E d \in Calls : Ends(d)
  BY <1>2, <1>3 DEF Ends
<1>5. vars' # vars
  BY DEF vars, process
<1> QED
  BY Zenon, <1>4, <1>5

\* What is started runs, or has ended.
LEMMA GoesOnFree ==
    ASSUME ManagerInvariant, running = 0, <<QueueGoesOn>>_vars
    PROVE  running' # 0 \/ <<\E c \in Calls : Ends(c)>>_vars
<1>1. PICK c \in Calls : Start(c)
  BY OnlyStarts
<1>2. calls[c].stage \notin Ended
  BY <1>1, StartRuns DEF Ended
<1>3. running' = c \/ Ends(c)
  BY <1>1, <1>2, StartRuns DEF Ends
<1>4. running' # 0 \/ \E d \in Calls : Ends(d)
  BY <1>3, ManagerAssumption
<1> QED
  BY Zenon, <1>4

\* The steps of a call change no other one.
LEMMA StepIsOfOne ==
    ASSUME NEW d \in Calls, Submit(d) \/ Start(d) \/ Turn(d) \/ Replied(d)
    PROVE  \E new : calls' = [calls EXCEPT ![d] = new]
<1> DEFINE One == \E new : calls' = [calls EXCEPT ![d] = new]
<1>1. \A result : Finish(d, result) => One
  BY DEF Finish
<1>2. \A call, value : Ask(d, call) \/ Write(d, call, value) \/ Send(d, call, value) => One
  BY <1>1 DEF Ask, Write, Send, NoHelper
<1>3. Submit(d) => One
  BY DEF Submit
<1>4. Start(d) => One
  BY <1>1, <1>2 DEF Start, StartRefused, StartEnable, StartDisable, StartCheckpoint, StartRollback
<1>5. Turn(d) => One
  BY <1>1, <1>2 DEF Turn, Displace, InvokeEnable, StageFails, NoHelper
<1>6. ASSUME NEW r,
             \/ Captured(d, r) \/ Displaced(d, r) \/ Switched(d, r) \/ Restored(d, r)
             \/ Verified(d, r) \/ CheckpointRead(d, r) \/ Reverted(d, r)
             \/ RollbackConfirmed(d, r)
      PROVE  One
  BY <1>1, <1>2, <1>6 DEF Captured, Displaced, Switched, Restored, Verified, CheckpointRead,
                          Reverted, RollbackConfirmed, ReadBack, NoHelper
<1> QED
  BY <1>3, <1>4, <1>5, <1>6 DEF Replied

\* A call that has ended stays so, also over a crash: it ends only once, and calls
\* do not end for ever.
THEOREM EndsOnce ==
    Spec => [][\A c \in Calls : calls[c].stage \in Ended => calls[c].stage' \in Ended]_vars
<1>1. ASSUME ManagerInvariant, Busy, [Next]_vars, NEW c \in Calls, calls[c].stage \in Ended
      PROVE  calls'[c].stage \in Ended
  <2>1. calls \in [Calls -> Call]
    BY <1>1 DEF ManagerInvariant, Types
  <2>2. ASSUME NEW d \in Calls, Submit(d) \/ Start(d) \/ Turn(d) \/ Replied(d)
        PROVE  calls[d].stage \notin Ended
    <3>1. running = d => calls[d].stage \notin Ended
      BY <1>1 DEF Busy, Active, Reads, Writes, Checks, Ended
    <3>2. Submit(d) => calls[d].stage \notin Ended
      BY DEF Submit, Ended
    <3>3. Start(d) => calls[d].stage \notin Ended
      BY <1>1, StartRuns DEF Ended
    <3> QED
      BY <1>1, <2>2, <3>1, <3>2, <3>3, TurnShortens, RepliedShortens
  <2>3. CASE \E d \in Calls : Submit(d) \/ Start(d) \/ Turn(d) \/ Replied(d)
    <3>1. PICK d \in Calls : Submit(d) \/ Start(d) \/ Turn(d) \/ Replied(d)
      BY <2>3
    <3>2. d # c
      BY <1>1, <2>2, <3>1
    <3>3. PICK new : calls' = [calls EXCEPT ![d] = new]
      BY <3>1, StepIsOfOne
    <3> QED
      BY <1>1, <2>1, <3>2, <3>3
  <2>4. CASE Crash \/ CrashHalfway
    <3>1. Dies
      BY <2>4 DEF Crash, CrashHalfway
    <3> QED
      BY <1>1, <3>1 DEF Dies, Done, Ended
  <2>5. CASE UNCHANGED calls
    BY <1>1, <2>5
  <2> QED
    BY <1>1, <2>3, <2>4, <2>5
       DEF Next, LateReply, HelperServes, UserChanges, ToggleRestore, SetTerminating, vars
<1>2. ManagerInvariant /\ Busy /\ [Next]_vars
          => \A c \in Calls : calls[c].stage \in Ended => calls[c].stage' \in Ended
  BY <1>1
<1> QED
  BY <1>2, ManagerCorrect, BusyCorrect, PTL DEF Spec

\* CallsEnd, for any number of calls, over crashes and whatever the helper does, if
\* the queue goes on and timeouts fire.  That it can always go on is NeverStuck.
THEOREM CallsEndCorrect == FairSpec /\ []NeverStuck => CallsEnd
<1> DEFINE SomeEnds == \E c \in Calls : Ends(c)
<1>1. /\ ManagerInvariant /\ Busy /\ ~(running = 0) /\ [Next]_vars
             => ~(running = 0)' \/ <<SomeEnds>>_vars
      /\ ManagerInvariant /\ running = 0 /\ <<QueueGoesOn>>_vars
             => ~(running = 0)' \/ <<SomeEnds>>_vars
  BY EndsFreeing, GoesOnFree
<1>2. NeverStuck /\ ~Idle => ENABLED <<QueueGoesOn>>_vars
  BY DEF NeverStuck
<1> HIDE DEF SomeEnds
<1>3. FairSpec /\ []NeverStuck => []<>Idle \/ []<><<SomeEnds>>_vars
  BY <1>1, <1>2, QueueFreed, ManagerCorrect, BusyCorrect, PTL DEF FairSpec, Spec
<1> QED
  BY <1>3, PTL DEF CallsEnd, SomeEnds
=============================================================================
