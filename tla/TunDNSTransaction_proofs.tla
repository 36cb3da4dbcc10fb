----------------------- MODULE TunDNSTransaction_proofs -----------------------
(***************************************************************************)
(* Proofs about TunDNSTransaction, for any number of calls, any settings    *)
(* and any bound on the lineage.                                            *)
(*                                                                         *)
(* The argument: the journal changes only by a job that is first in its     *)
(* queue, and while there is one the helper holds no request to apply.  So  *)
(* whatever an apply was sent with is still the journal when the helper     *)
(* serves it, however late, and whatever is written undoes what is in force *)
(* by then.  A restore may be served after newer applies.  Once one of them *)
(* has written, the helper rejects it, and until then what it brings back   *)
(* is still the user's.  Operations end because each stage can time out and *)
(* no step leads back to an earlier one.                                    *)
(***************************************************************************)
EXTENDS TunDNSTransaction, SequenceTheorems, FiniteSetTheorems, TLAPS

\* A journal that could bring the resolvers back
WellFormed(s) ==
    /\ s \in Snapshot /\ s.original.addr \in Addresses
    /\ Fits(s.previous) /\ s.id \notin s.previous

\* The jobs that change the journal, and the stages around them
Writes == Saves \cup {"clearing"}
OnDisk == Loads \cup Writes
Alone  == {"loading", "saving", "comparing", "pruning", "rechecking", "clearing"}
Undone == {"rechecking", "clearing", "refreshing"}

TypeInv ==
    /\ live \in Setting /\ own \in Setting
    /\ journal \in Snapshot \cup {None}
    /\ calls \in [Calls -> Call]
    /\ running \in Calls \cup {0} /\ answer \in Answer \cup {None}
    /\ io \in Seq(Job) /\ requests \in Seq(Request) /\ asked \subseteq Request
    /\ helper \in Helper

\* The tunnel's resolvers are in force only over a journal that undoes them, and
\* otherwise the user's are.
CanAccept(s) == helper.write = None \/ helper.write = s.id \/ helper.write \in s.previous

SettingsInv ==
    /\ own.addr \in Addresses
    /\ journal # None => WellFormed(journal)
    /\ live.addr = Tun =>
          /\ journal # None /\ journal.original.addr = own.addr
          /\ live.domains = own.domains /\ CanAccept(journal)
    /\ live.addr # Tun => live = own

\* The kinds of the operations that have this stage
KindsOf(stage) ==
    IF stage \in {"fetching", "restoring"} \cup Undone THEN Restores ELSE {"apply"}

\* Restores that have been given up are all that the helper's queue holds.
OnlyLate ==
    \A i \in DOMAIN requests : requests[i].stage = "restoring" /\ requests[i].call # running

\* What a call runs, and the stages it can be in
StageInv ==
    /\ running # 0 => Stage(running) \in Waiting
    /\ \A c \in Calls : c # running => Stage(c) \notin Waiting
    /\ running # 0 => calls[running].kind \in KindsOf(Stage(running))
    /\ answer # None => running # 0
    /\ answer # None /\ Stage(running) \in OnDisk => io = <<>>
    /\ answer # None /\ answer.ok /\ Stage(running) \in Asks => OnlyLate
    /\ running # 0 /\ Stage(running) \in Alone => OnlyLate

\* What waits in the two queues
IoInv ==
    \A i \in DOMAIN io :
        /\ io[i].call = running => i = Len(io) /\ io[i].stage = Stage(running) /\ answer = None
        /\ io[i].call # running => Stage(io[i].call) \in Ended
        /\ io[i].stage \in Writes => i = 1
        /\ io[i].begun => io[i].stage = "clearing"

RequestsInv ==
    \A i \in DOMAIN requests :
        /\ requests[i].call = running =>
              /\ requests[i].stage = Stage(running) /\ answer = None
              /\ requests[i].snap = calls[running].snap
              /\ \A j \in DOMAIN requests :
                    j > i => requests[j].stage = "restoring" /\ requests[j].call # running
        /\ requests[i].call # running => Stage(requests[i].call) \in Ended
        /\ requests[i].stage = "applying" =>
              /\ requests[i].snap # None /\ requests[i].snap = journal
              /\ \A j \in DOMAIN io : io[j].stage \notin Writes
              /\ running # 0 => Stage(running) # "refreshing"

AskedInv ==
    \A q \in asked :
        /\ q.stage = "restoring"
        /\ q.call = running =>
              /\ Stage(running) = "restoring" /\ answer = None /\ q.snap = calls[running].snap
              /\ \A i \in DOMAIN requests : requests[i].call # running
        /\ q.call # running => Stage(q.call) \in Ended

\* A restore on its way to the helper, before its version is known or after.  What
\* was the journal still is, or a later call has replaced it.  As long as the helper
\* would accept it, it brings back what is the user's.
OnTheWay(q) == q \in asked \/ \E i \in DOMAIN requests : requests[i] = q

Sound(c, s) ==
    /\ s # None /\ WellFormed(s) /\ s.id < c /\ \A p \in s.previous : p < c
    /\ journal # None => journal = s \/ journal.id > c
    /\ \A i \in DOMAIN io : io[i].stage \in Saves => io[i].snap.id > c
    /\ \A d \in Calls : Stage(d) \in {"new", "queued"} => c < d
    /\ running # 0 => c <= running
    /\ live.addr = Tun /\ CanAccept(s) => s.original.addr = own.addr

LateInv == \A q \in Request : q.stage = "restoring" /\ OnTheWay(q) => Sound(q.call, q.snap)

\* A write of the journal that is still to come
SaveInv ==
    \A i \in DOMAIN io : io[i].stage \in Saves =>
        /\ io[i].snap # None /\ WellFormed(io[i].snap)
        /\ live.addr = Tun => io[i].snap.original.addr = own.addr /\ CanAccept(io[i].snap)
        /\ io[i].call = running /\ io[i].stage = "saving" => io[i].snap = calls[running].snap

ClearInv ==
    \A i \in DOMAIN io : io[i].stage = "clearing" =>
        /\ live.addr # Tun
        /\ Stage(io[i].call) \in {"clearing", "unsettled"}
        /\ Stage(io[i].call) = "unsettled" => io[i].begun
        /\ journal # None => journal.id < io[i].call

\* What a running operation knows
Capture(c, s) ==
    /\ s # None /\ s \in Snapshot /\ s.id = c
    /\ live.addr = Tun => s.original.addr = Tun
    /\ s.original.addr = Tun => journal # None /\ \A i \in DOMAIN io : io[i].stage # "clearing"

KnowsInv ==
    running # 0 =>
      LET c == running
          s == calls[running].snap
          ok == answer # None /\ answer.ok
      IN /\ Stage(c) = "capturing" /\ ok => Capture(c, answer.snap)
         /\ Stage(c) = "loading" => Capture(c, s)
         /\ Stage(c) \in {"saving", "applying", "comparing", "pruning"} =>
               s # None /\ WellFormed(s) /\ s.id = c
         /\ Stage(c) = "saving" /\ ok => journal = s
         /\ Stage(c) = "comparing" \/ (Stage(c) = "applying" /\ ok) =>
               helper.write \in {None, c}
         /\ Stage(c) \in Loads /\ ok => answer.snap = journal
         /\ Stage(c) \in Undone \/ (Stage(c) = "restoring" /\ ok) => live.addr # Tun

OrderInv ==
    \A d \in Calls :
        /\ Stage(d) \in {"new", "queued"} => running < d
        /\ Stage(d) \in {"new", "queued"} \/ d = running => \A e \in Calls : Stage(e) = "ok" => e < d
        /\ Stage(d) = "new" => calls[d].kind = "none" /\ \A e \in Calls : Stage(e) = "queued" => e < d
        /\ Stage(d) = "queued" => calls[d].kind \in {"apply"} \cup Restores
        /\ Stage(d) \in {"new", "queued"} \/ (d = running /\ calls[d].kind \in Restores) =>
              /\ journal # None => journal.id < d /\ \A p \in journal.previous : p < d
              /\ \A i \in DOMAIN io : io[i].stage \in Saves =>
                    io[i].snap.id < d /\ \A p \in io[i].snap.previous : p < d

HistoryInv ==
    \A c \in Calls : calls[c].kind \in Restores /\ Holds(c) =>
        \A i \in DOMAIN requests : requests[i].stage = "applying" => requests[i].snap.id > c

IInv == /\ TypeInv /\ SettingsInv /\ StageInv /\ IoInv /\ RequestsInv /\ AskedInv /\ LateInv
        /\ SaveInv /\ ClearInv /\ KnowsInv /\ OrderInv /\ HistoryInv
-----------------------------------------------------------------------------

(* Sequences.                                                               *)

LEMMA Appended ==
    ASSUME NEW S, NEW s \in Seq(S), NEW x \in S
    PROVE  /\ Append(s, x) \in Seq(S) /\ Len(Append(s, x)) = Len(s) + 1
           /\ DOMAIN Append(s, x) = DOMAIN s \cup {Len(s) + 1} /\ Len(s) + 1 \notin DOMAIN s
           /\ Append(s, x)[Len(s) + 1] = x
           /\ \A i \in DOMAIN s : Append(s, x)[i] = s[i] /\ s[i] \in S /\ i # Len(s) + 1
OBVIOUS

LEMMA Popped ==
    ASSUME NEW S, NEW s \in Seq(S), s # <<>>
    PROVE  /\ 1 \in DOMAIN s /\ Head(s) = s[1] /\ Head(s) \in S
           /\ Tail(s) \in Seq(S) /\ Len(s) \in Nat /\ Len(s) >= 1 /\ Len(Tail(s)) = Len(s) - 1
           /\ \A i \in DOMAIN Tail(s) : i \in Nat /\ i >= 1 /\ i + 1 \in DOMAIN s /\ Tail(s)[i] = s[i + 1]
           /\ \A i \in DOMAIN s : s[i] \in S
OBVIOUS

LEMMA Single ==
    ASSUME NEW S, NEW s \in Seq(S), s # <<>>, Len(s) = 1
    PROVE  Tail(s) = <<>>
<1>1. Tail(s) \in Seq(S) /\ Len(Tail(s)) = 0
  OBVIOUS
<1> QED
  BY <1>1, EmptySeq

LEMMA Entries ==
    ASSUME NEW S, NEW s \in Seq(S), NEW i \in DOMAIN s
    PROVE  s[i] \in S /\ s # <<>>
OBVIOUS

LEMMA First ==
    ASSUME NEW S, NEW s \in Seq(S), NEW i \in DOMAIN s, i = 1
    PROVE  /\ SubSeq(s, 1, i - 1) \o SubSeq(s, i + 1, Len(s)) = Tail(s)
<1>1. s # <<>> /\ Len(s) \in Nat /\ Len(s) >= 1
  OBVIOUS
<1>2. SubSeq(s, 1, 0) = <<>> /\ SubSeq(s, 2, Len(s)) = Tail(s)
  BY <1>1
<1>3. Tail(s) \in Seq(S)
  BY <1>1
<1> QED
  BY <1>2, <1>3
-----------------------------------------------------------------------------
(* What the operations have in common.                                      *)

\* What types say of the constants and of the members of the state
LEMMA TypeParts ==
    ASSUME TypeInv
    PROVE  /\ MaxCalls \in Nat /\ MaxPredecessors \in Nat /\ None \notin Nat /\ None \notin Snapshot
           /\ Calls \subseteq Nat /\ Calls \subseteq Ids /\ 0 \in Ids /\ Ids \subseteq Nat /\ 0 \notin Calls
           /\ \A c \in Calls : calls[c] \in Call /\ c \in Nat /\ c > 0
           /\ \A i \in DOMAIN io : io[i] \in Job /\ io # <<>>
           /\ \A i \in DOMAIN requests : requests[i] \in Request /\ requests # <<>>
           /\ \A q \in Request : q.call \in Calls /\ q.snap \in Snapshot \cup {None}
           /\ asked \subseteq Request
           /\ Tun \notin Addresses
           /\ \A s \in Snapshot : s.id \in Ids /\ s.previous \subseteq Ids /\ s.original \in Setting
<1>1. TunDNSAssumption /\ NoneAssumption
  BY TunDNSAssumption, NoneAssumption
<1>2. io \in Seq(Job) /\ requests \in Seq(Request)
  BY DEF TypeInv
<1>3. /\ \A i \in DOMAIN io : io[i] \in Job /\ io # <<>>
      /\ \A i \in DOMAIN requests : requests[i] \in Request /\ requests # <<>>
  BY <1>2, Entries
<1>4. Tun \notin Addresses
  BY <1>1 DEF TunDNSAssumption, Addresses
<1>5. \A s \in Snapshot : s.id \in Ids /\ s.previous \subseteq Ids /\ s.original \in Setting
  BY DEF Snapshot
<1>6. /\ Calls \subseteq Nat /\ Calls \subseteq Ids /\ 0 \in Ids /\ Ids \subseteq Nat /\ 0 \notin Calls
      /\ \A c \in Calls : c \in Nat /\ c > 0
  BY <1>1 DEF Calls, Ids, TunDNSAssumption
<1>7. \A c \in Calls : calls[c] \in Call
  BY DEF TypeInv
<1>8. \A q \in Request : q.call \in Calls /\ q.snap \in Snapshot \cup {None}
  BY DEF Request
<1>9. asked \subseteq Request
  BY DEF TypeInv
<1> QED
  BY <1>1, <1>3, <1>4, <1>5, <1>6, <1>7, <1>8, <1>9 DEF TunDNSAssumption, NoneAssumption

\* The operation of c is running, or is the one to start.
Turning(c) == running = c \/ (running = 0 /\ IsFirst(c))

\* What every end of an operation does: of the journal's jobs some may go, and
\* a clear of its own stays only if it is under way.
Leaves(c, result) ==
    /\ calls' = [calls EXCEPT ![c] = Done(@.kind, result)]
    /\ running' = 0 /\ answer' = None /\ UNCHANGED <<requests, asked, outside>>
    /\ io' \in Seq(Job)
    /\ \A i \in DOMAIN io' :
          /\ \E j \in DOMAIN io : io'[i] = io[j]
          /\ io'[i].stage \in Writes => i = 1
          /\ io'[i].stage = "clearing" /\ io'[i].call = c => result = "unsettled" /\ io'[i].begun

\* An operation ends: by success, failure, a timeout, or a clear left unsettled.
LEMMA FinishKeeps ==
    ASSUME IInv, NEW c \in Calls, Turning(c), NEW result \in Ended, result # "nothing", Leaves(c, result),
           calls[c].kind \in Restores /\ result = "ok" =>
              \A i \in DOMAIN requests : requests[i].stage # "applying"
    PROVE  IInv'
<1> USE TypeParts, c \in Calls DEF IInv, Leaves
<1>1. /\ calls'[c] = Done(calls[c].kind, result) /\ calls'[c] \in Call
      /\ \A d \in Calls : d # c => calls'[d] = calls[d]
      /\ calls' \in [Calls -> Call] /\ Stage(c)' = result
  <2>1. Done(calls[c].kind, result) \in Call /\ Done(calls[c].kind, result).stage = result
    BY DEF Done, Call
  <2> QED
    BY <2>1 DEF TypeInv, Stage
<1>2. TypeInv'
  BY <1>1 DEF TypeInv, outside
<1>3. SettingsInv'
  BY DEF SettingsInv, outside, CanAccept, WellFormed
<1>4. StageInv'
  BY <1>1 DEF StageInv, Stage, Ended, Waiting, Loads, Saves, Asks, Turning
<1>5. IoInv'
  BY <1>1 DEF IoInv, Stage, Turning, Job
<1>6. RequestsInv'
  BY <1>1 DEF RequestsInv, Stage, Turning, outside, Request
<1>7. SaveInv'
  BY <1>1 DEF SaveInv, outside, WellFormed, CanAccept, Job
<1>8. ClearInv'
  BY <1>1 DEF ClearInv, outside, Stage
<1>9. KnowsInv'
  BY DEF KnowsInv
<1>10. OrderInv'
  BY <1>1 DEF OrderInv, Stage, Turning, IsFirst, Ended, outside
<1>11. HistoryInv'
  <2>1. calls'[c].kind \in Restores => calls[c].kind \in Restores
    BY <1>1 DEF Done, Restores
  <2>2. \A d \in Calls : d # c => (Holds(d)' <=> Holds(d)) /\ calls'[d].kind = calls[d].kind
    BY <1>1 DEF Holds, Stage
  <2>3. Holds(c)' => result = "ok"
    BY <1>1 DEF Holds
  <2>4. requests' = requests
    OBVIOUS
  <2> SUFFICES ASSUME NEW d \in Calls, calls'[d].kind \in Restores, Holds(d)',
                      NEW i \in DOMAIN requests, requests[i].stage = "applying"
               PROVE  requests[i].snap.id > d
    BY <2>4 DEF HistoryInv
  <2>5. CASE d = c
    BY <2>1, <2>3, <2>5
  <2>6. CASE d # c
    BY <2>2, <2>6 DEF HistoryInv
  <2> QED
    BY <2>5, <2>6
<1>12. AskedInv'
  BY <1>1 DEF AskedInv, Stage, Turning
<1>13. LateInv'
  <2> SUFFICES ASSUME NEW q \in Request, q.stage = "restoring", OnTheWay(q)'
               PROVE  Sound(q.call, q.snap)'
    BY DEF LateInv
  <2>1. OnTheWay(q)
    BY DEF OnTheWay
  <2>2. Sound(q.call, q.snap)
    BY <2>1 DEF LateInv
  <2>3. \A d \in Calls : Stage(d)' \in {"new", "queued"} => Stage(d) \in {"new", "queued"}
    BY <1>1 DEF Stage, Ended
  <2> QED
    BY <2>2, <2>3 DEF Sound, outside, WellFormed, CanAccept
<1> QED
  BY <1>2, <1>3, <1>4, <1>5, <1>6, <1>7, <1>8, <1>9, <1>10, <1>11, <1>12, <1>13

\* The operation of c may hand something to a queue: nothing of it is in one.
Ready(c) == (running = c /\ answer # None) \/ (running = 0 /\ IsFirst(c))

\* What a next stage changes, and what was in the queues before it
LEMMA Moves ==
    ASSUME IInv, NEW c \in Calls, Ready(c), NEW stage \in Waiting, NEW snap \in Snapshot \cup {None},
           calls' = At(c, stage, snap), running' = c
    PROVE  /\ calls' \in [Calls -> Call]
           /\ calls'[c].kind = calls[c].kind /\ calls'[c].snap = snap /\ Stage(c)' = stage
           /\ \A d \in Calls : d # c => calls'[d] = calls[d] /\ Stage(d)' = Stage(d)
           /\ \A i \in DOMAIN io : io[i].call # c /\ Stage(io[i].call) \in Ended
           /\ \A i \in DOMAIN requests : requests[i].call # c /\ Stage(requests[i].call) \in Ended
           /\ \A p \in asked : p.call # c /\ Stage(p.call) \in Ended
           /\ \A d \in Calls : d # c => Stage(d) \notin Waiting
           /\ \A d \in Calls : Stage(d) = "ok" => d < c
           /\ \A d \in Calls : d # c /\ Stage(d) \in {"new", "queued"} => c < d
           /\ Stage(c) # "new" /\ (Stage(c) = "queued" => running = 0)
           /\ Stage(c) = "queued" \/ running = c
<1> USE TypeParts, c \in Calls DEF IInv
<1>1. /\ calls' \in [Calls -> Call]
      /\ calls'[c].kind = calls[c].kind /\ calls'[c].snap = snap /\ Stage(c)' = stage
      /\ \A d \in Calls : d # c => calls'[d] = calls[d] /\ Stage(d)' = Stage(d)
  <2>1. [[calls[c] EXCEPT !.stage = stage] EXCEPT !.snap = snap] \in Call
    BY DEF Call
  <2>2. calls' = [calls EXCEPT ![c] = [[calls[c] EXCEPT !.stage = stage] EXCEPT !.snap = snap]]
    BY DEF TypeInv, At
  <2> QED
    BY <2>1, <2>2 DEF TypeInv, Stage, Call
<1>2. Stage(c) \notin Ended
  BY DEF Ready, IsFirst, StageInv, Waiting, Ended, Loads, Saves, Asks
<1>3. /\ \A i \in DOMAIN io : io[i].call # c /\ Stage(io[i].call) \in Ended
      /\ \A i \in DOMAIN requests : requests[i].call # c /\ Stage(requests[i].call) \in Ended
  <2>1. /\ \A i \in DOMAIN io : io[i].call \in Calls
        /\ \A i \in DOMAIN requests : requests[i].call \in Calls
    BY DEF Job, Request
  <2> QED
    BY <1>2, <2>1 DEF Ready, IoInv, RequestsInv
<1>4. \A d \in Calls : d # c => Stage(d) \notin Waiting
  BY DEF Ready, StageInv
<1>5. \A d \in Calls : d # c /\ Stage(d) \in {"new", "queued"} => c < d
  BY DEF Ready, OrderInv, IsFirst
<1>6. Stage(c) # "new" /\ (Stage(c) = "queued" => running = 0)
  BY DEF Ready, StageInv, IsFirst, Waiting, Loads, Saves, Asks
<1>7. Stage(c) = "queued" \/ running = c
  BY DEF Ready, IsFirst
<1>8. \A p \in asked : p.call # c /\ Stage(p.call) \in Ended
  BY <1>2 DEF Ready, AskedInv
<1>9. \A d \in Calls : Stage(d) = "ok" => d < c
  BY <1>7 DEF OrderInv
<1> QED
  BY <1>1, <1>3, <1>4, <1>5, <1>6, <1>7, <1>8, <1>9

\* A request of the helper keeps the invariant if what it carries is the journal.
LEMMA AskKeeps ==
    ASSUME IInv, NEW c \in Calls, Ready(c), NEW stage \in Asks \ {"restoring"}, NEW snap \in Snapshot \cup {None},
           Ask(c, stage, snap), UNCHANGED outside, calls[c].kind \in KindsOf(stage),
           stage = "applying" => /\ snap # None /\ snap = journal /\ WellFormed(snap) /\ snap.id = c
                                 /\ \A j \in DOMAIN io : io[j].stage \notin Writes
                                 /\ \A d \in Calls : calls[d].kind \in Restores /\ Holds(d) => d < c,
           stage = "refreshing" => live.addr # Tun /\ OnlyLate
    PROVE  IInv'
<1> USE TypeParts, c \in Calls DEF IInv
<1> DEFINE q == [call |-> c, stage |-> stage, snap |-> snap]
<1>1. /\ calls' = At(c, stage, snap) /\ running' = c /\ answer' = None /\ io' = io /\ asked' = asked
      /\ requests' = Append(requests, q)
      /\ live' = live /\ journal' = journal /\ helper' = helper /\ own' = own
  BY DEF Ask, outside
<1>2. stage \in Waiting
  BY DEF Waiting
<1>3. /\ calls' \in [Calls -> Call]
      /\ calls'[c].kind = calls[c].kind /\ calls'[c].snap = snap /\ Stage(c)' = stage
      /\ \A d \in Calls : d # c => calls'[d] = calls[d] /\ Stage(d)' = Stage(d)
      /\ \A i \in DOMAIN io : io[i].call # c /\ Stage(io[i].call) \in Ended
      /\ \A i \in DOMAIN requests : requests[i].call # c /\ Stage(requests[i].call) \in Ended
      /\ \A p \in asked : p.call # c /\ Stage(p.call) \in Ended
      /\ \A d \in Calls : Stage(d) = "ok" => d < c
      /\ \A d \in Calls : d # c => Stage(d) \notin Waiting
      /\ \A d \in Calls : d # c /\ Stage(d) \in {"new", "queued"} => c < d
      /\ Stage(c) # "new" /\ (Stage(c) = "queued" => running = 0)
      /\ Stage(c) = "queued" \/ running = c
  BY <1>1, <1>2, Moves
<1>4. q \in Request /\ q.call = c /\ q.stage = stage /\ q.snap = snap
  BY DEF Request
<1> HIDE DEF q
<1>5. /\ requests' \in Seq(Request) /\ Len(requests') = Len(requests) + 1
      /\ DOMAIN requests' = DOMAIN requests \cup {Len(requests) + 1} /\ Len(requests) + 1 \notin DOMAIN requests
      /\ requests'[Len(requests) + 1] = q
      /\ \A i \in DOMAIN requests : requests'[i] = requests[i] /\ i # Len(requests) + 1
  BY <1>1, <1>4, Appended DEF TypeInv
<1>6. \A i \in DOMAIN io : io[i].call \in Calls
  BY DEF Job
<1>7. \A i \in DOMAIN requests : requests[i].call \in Calls
  BY DEF Request
<1>10. TypeInv'
  BY <1>1, <1>3, <1>5 DEF TypeInv
<1>11. SettingsInv'
  BY <1>1 DEF SettingsInv, CanAccept, WellFormed
<1>12. StageInv'
  BY <1>1, <1>2, <1>3 DEF StageInv, KindsOf, Alone, Asks
<1>13. IoInv'
  BY <1>1, <1>3, <1>6 DEF IoInv
<1>14. RequestsInv'
  <2>1. stage = "refreshing" => \A i \in DOMAIN requests : requests[i].stage # "applying"
    BY DEF OnlyLate
  <2> QED
    BY <2>1, <1>1, <1>3, <1>4, <1>5, <1>7 DEF RequestsInv
<1>15. SaveInv'
  BY <1>1, <1>3 DEF SaveInv, WellFormed, CanAccept
<1>16. ClearInv'
  BY <1>1, <1>3, <1>6 DEF ClearInv
<1>17. KnowsInv'
  BY <1>1, <1>2, <1>3 DEF KnowsInv, Asks, Undone, Loads, WellFormed
<1>18. OrderInv'
  BY <1>1, <1>2, <1>3 DEF OrderInv, Waiting, Asks
<1>19. HistoryInv'
  <2>1. ~Holds(c)'
    BY <1>3 DEF Holds, Asks
  <2>2. \A d \in Calls : d # c => Holds(d)' = Holds(d)
    BY <1>3 DEF Holds
  <2> QED
    BY <2>1, <2>2, <1>1, <1>3, <1>4, <1>5 DEF HistoryInv, Snapshot
<1>20. AskedInv'
  BY <1>1, <1>3 DEF AskedInv
<1>21. LateInv'
  <2> SUFFICES ASSUME NEW p \in Request, p.stage = "restoring", OnTheWay(p)'
               PROVE  Sound(p.call, p.snap)'
    BY DEF LateInv
  <2>1. OnTheWay(p)
    BY <1>1, <1>4, <1>5 DEF OnTheWay
  <2>2. Sound(p.call, p.snap)
    BY <2>1 DEF LateInv
  <2>3. \A d \in Calls : Stage(d)' \in {"new", "queued"} => Stage(d) \in {"new", "queued"}
    BY <1>2, <1>3 DEF Waiting, Loads, Saves, Asks
  <2>4. p.call <= c
    BY <2>2, <1>3 DEF Sound
  <2> QED
    BY <2>2, <2>3, <2>4, <1>1 DEF Sound, WellFormed, CanAccept
<1> QED
  BY <1>20, <1>21, <1>10, <1>11, <1>12, <1>13, <1>14, <1>15, <1>16, <1>17, <1>18, <1>19

\* So does a job of the journal's queue if what it writes undoes what is in force.
LEMMA EnqueueKeeps ==
    ASSUME IInv, NEW c \in Calls, Ready(c), NEW stage \in OnDisk, NEW snap \in Snapshot \cup {None},
           NEW written \in Snapshot \cup {None},
           Enqueue(c, stage, snap, written), UNCHANGED outside, calls[c].kind \in KindsOf(stage),
           stage \in Writes => io = <<>>,
           stage \in Alone => OnlyLate,
           stage = "loading" => Capture(c, snap),
           stage \in {"saving", "comparing", "pruning"} => snap # None /\ WellFormed(snap) /\ snap.id = c,
           stage = "comparing" => helper.write \in {None, c},
           stage \in Undone => live.addr # Tun,
           stage \in Saves =>
              /\ written # None /\ WellFormed(written) /\ written.id = c
              /\ live.addr = Tun => written.original.addr = own.addr /\ CanAccept(written)
              /\ stage = "saving" => written = snap
              /\ \A d \in Calls : Stage(d) \in {"new", "queued"} => \A p \in written.previous : p < d,
           stage = "clearing" /\ journal # None => journal.id < c
    PROVE  IInv'
<1> USE TypeParts, c \in Calls DEF IInv
<1> DEFINE j == [call |-> c, stage |-> stage, snap |-> written, begun |-> FALSE]
<1>1. /\ calls' = At(c, stage, snap) /\ running' = c /\ answer' = None /\ requests' = requests /\ asked' = asked
      /\ io' = Append(io, j)
      /\ live' = live /\ journal' = journal /\ helper' = helper /\ own' = own
  BY DEF Enqueue, outside
<1>2. stage \in Waiting
  BY DEF Waiting, OnDisk, Writes
<1>3. /\ calls' \in [Calls -> Call]
      /\ calls'[c].kind = calls[c].kind /\ calls'[c].snap = snap /\ Stage(c)' = stage
      /\ \A d \in Calls : d # c => calls'[d] = calls[d] /\ Stage(d)' = Stage(d)
      /\ \A i \in DOMAIN io : io[i].call # c /\ Stage(io[i].call) \in Ended
      /\ \A i \in DOMAIN requests : requests[i].call # c /\ Stage(requests[i].call) \in Ended
      /\ \A p \in asked : p.call # c /\ Stage(p.call) \in Ended
      /\ \A d \in Calls : Stage(d) = "ok" => d < c
      /\ \A d \in Calls : d # c => Stage(d) \notin Waiting
      /\ \A d \in Calls : d # c /\ Stage(d) \in {"new", "queued"} => c < d
      /\ Stage(c) # "new" /\ (Stage(c) = "queued" => running = 0)
      /\ Stage(c) = "queued" \/ running = c
  BY <1>1, <1>2, Moves
<1>4. j \in Job /\ j.call = c /\ j.stage = stage /\ j.snap = written /\ j.begun = FALSE
  BY DEF Job, OnDisk, Writes
<1> HIDE DEF j
<1>5. /\ io' \in Seq(Job) /\ Len(io') = Len(io) + 1
      /\ DOMAIN io' = DOMAIN io \cup {Len(io) + 1} /\ Len(io) + 1 \notin DOMAIN io
      /\ io'[Len(io) + 1] = j
      /\ \A i \in DOMAIN io : io'[i] = io[i] /\ i # Len(io) + 1
  BY <1>1, <1>4, Appended DEF TypeInv
<1>6. \A i \in DOMAIN io : io[i].call \in Calls
  BY DEF Job
<1>7. \A i \in DOMAIN requests : requests[i].call \in Calls
  BY DEF Request
<1>8. io = <<>> => Len(io) = 0
  OBVIOUS
<1>9. stage \in Alone => OnlyLate'
  BY <1>1, <1>3 DEF OnlyLate
<1>10. TypeInv'
  BY <1>1, <1>3, <1>5 DEF TypeInv
<1>11. SettingsInv'
  BY <1>1 DEF SettingsInv, CanAccept, WellFormed
<1>12. StageInv'
  BY <1>1, <1>2, <1>3, <1>9 DEF StageInv, KindsOf
<1>13. IoInv'
  BY <1>1, <1>3, <1>4, <1>5, <1>6, <1>8 DEF IoInv
<1>14. RequestsInv'
  <2>1. /\ stage \in Writes => \A i \in DOMAIN requests : requests[i].stage # "applying"
        /\ stage # "refreshing"
    BY DEF OnDisk, Loads, Writes, Saves, Alone, OnlyLate
  <2> QED
    BY <2>1, <1>1, <1>3, <1>4, <1>5, <1>7 DEF RequestsInv
<1>15. SaveInv'
  BY <1>1, <1>3, <1>4, <1>5, <1>6 DEF SaveInv, WellFormed, CanAccept
<1>16. ClearInv'
  BY <1>1, <1>3, <1>4, <1>5, <1>6 DEF ClearInv, Undone
<1>17. KnowsInv'
  <2>1. stage = "loading" => Capture(c, snap)'
    BY <1>1, <1>4, <1>5 DEF Capture
  <2>2. stage \notin Asks
    BY DEF OnDisk, Writes, Loads, Saves, Asks
  <2> QED
    BY <2>1, <2>2, <1>1, <1>2, <1>3 DEF KnowsInv, Asks, WellFormed
<1>18. OrderInv'
  <2>1. stage \in Saves => calls[c].kind \notin Restores
    BY DEF Saves, KindsOf, Undone, Restores
  <2> QED
    BY <2>1, <1>1, <1>2, <1>3, <1>4, <1>5 DEF OrderInv, Waiting, Loads, Saves, Asks
<1>19. HistoryInv'
  <2>1. ~Holds(c)'
    BY <1>2, <1>3 DEF Holds, Waiting, Loads, Saves, Asks
  <2>2. \A d \in Calls : d # c => Holds(d)' = Holds(d)
    BY <1>3 DEF Holds
  <2> QED
    BY <2>1, <2>2, <1>1, <1>3 DEF HistoryInv
<1>20. AskedInv'
  BY <1>1, <1>3 DEF AskedInv
<1>21. LateInv'
  <2> SUFFICES ASSUME NEW p \in Request, p.stage = "restoring", OnTheWay(p)'
               PROVE  Sound(p.call, p.snap)'
    BY DEF LateInv
  <2>1. OnTheWay(p)
    BY <1>1 DEF OnTheWay
  <2>2. Sound(p.call, p.snap) /\ p.call \in Calls
    BY <2>1 DEF LateInv
  <2>3. \A d \in Calls : Stage(d)' \in {"new", "queued"} => Stage(d) \in {"new", "queued"}
    BY <1>2, <1>3 DEF Waiting, Loads, Saves, Asks
  <2>4. p.call <= c
    BY <2>2, <1>3 DEF Sound
  <2>5. p.call # c
    BY <2>1, <1>3 DEF OnTheWay
  <2>6. \A i \in DOMAIN io' : io'[i].stage \in Saves => io'[i].snap.id > p.call
    <3>1. stage \in Saves => written.id > p.call
      BY <2>2, <2>4, <2>5
    <3> QED
      BY <3>1, <2>2, <1>4, <1>5 DEF Sound
  <2> QED
    BY <2>2, <2>3, <2>4, <2>6, <1>1 DEF Sound, WellFormed, CanAccept
<1> QED
  BY <1>20, <1>21, <1>10, <1>11, <1>12, <1>13, <1>14, <1>15, <1>16, <1>17, <1>18, <1>19
-----------------------------------------------------------------------------
(* The queues.                                                              *)

\* The journal's queue finishes its first job and answers.
LEMMA IoPops ==
    ASSUME IInv, io # <<>>, io' = Tail(io), NEW ok \in BOOLEAN, NEW snap \in Snapshot \cup {None},
           Deliver(Head(io), ok, snap),
           UNCHANGED <<calls, running, requests, asked, live, helper, own>>,
           \/ journal' = journal
           \/ Head(io).stage \in Saves /\ journal' = Head(io).snap
           \/ Head(io).stage = "clearing" /\ journal' = None,
           Head(io).stage \in Loads /\ ok => snap = journal',
           Head(io).stage = "saving" /\ ok => journal' = Head(io).snap
    PROVE  IInv'
<1> USE TypeParts DEF IInv
<1> DEFINE j == Head(io)
<1>1. /\ 1 \in DOMAIN io /\ j = io[1] /\ j \in Job /\ Tail(io) \in Seq(Job)
      /\ Len(io) \in Nat /\ Len(io) >= 1 /\ Len(Tail(io)) = Len(io) - 1
      /\ \A i \in DOMAIN Tail(io) :
            i \in Nat /\ i >= 1 /\ i + 1 \in DOMAIN io /\ Tail(io)[i] = io[i + 1]
  BY Popped DEF TypeInv
<1>2. j.call \in Calls /\ j.stage \in OnDisk
  BY <1>1 DEF Job, OnDisk, Writes
<1> HIDE DEF j
<1>3. /\ \A i \in DOMAIN io' : i \in Nat /\ i + 1 \in DOMAIN io /\ i + 1 # 1 /\ io'[i] = io[i + 1]
      /\ \A i \in DOMAIN io' : io'[i].stage \notin Writes
      /\ \A i \in DOMAIN io' : io'[i].call = running => i = Len(io') /\ i + 1 = Len(io) /\ Len(io) # 1
  BY <1>1 DEF IoInv
<1>4. \/ answer' = answer
      \/ /\ running = j.call /\ Stage(running) = j.stage /\ Len(io) = 1
         /\ answer' = [ok |-> ok, snap |-> snap]
  <2>1. j.call = running => Len(io) = 1
    BY <1>1 DEF IoInv
  <2> QED
    BY <2>1 DEF Deliver, j
<1>5. running = j.call => answer = None
  BY <1>1 DEF IoInv
<1>6. answer # None /\ Stage(running) \in OnDisk => FALSE
  BY DEF StageInv
<1>7. Len(io) = 1 => io' = <<>>
  BY Single DEF TypeInv
<1>8. journal' # journal => j.stage \in Writes /\ io[1].stage \in Writes
  BY <1>1 DEF Writes, j
<1>9. j.stage \in Saves => j.snap # None /\ WellFormed(j.snap)
  BY <1>1 DEF SaveInv
<1>10. journal' \in Snapshot \cup {None}
  BY <1>9 DEF TypeInv, WellFormed, j
<1>11. TypeInv'
  <2>1. [ok |-> ok, snap |-> snap] \in Answer
    BY DEF Answer
  <2> QED
    BY <2>1, <1>1, <1>4, <1>10 DEF TypeInv
<1>12. SettingsInv'
  <2>1. CASE journal' = journal
    BY <2>1 DEF SettingsInv, WellFormed, CanAccept
  <2>2. CASE j.stage \in Saves /\ journal' = j.snap
    BY <2>2, <1>1, <1>9 DEF SettingsInv, SaveInv, WellFormed, CanAccept
  <2>3. CASE j.stage = "clearing" /\ journal' = None
    BY <2>3, <1>1 DEF SettingsInv, ClearInv
  <2> QED
    BY <2>1, <2>2, <2>3 DEF j
<1>13. StageInv'
  <2>1. j.stage \notin Asks
    BY <1>2 DEF OnDisk, Writes, Loads, Saves, Asks
  <2> QED
    BY <2>1, <1>2, <1>4, <1>6, <1>7 DEF StageInv, OnlyLate, Stage
<1>14. IoInv'
  BY <1>1, <1>3, <1>4 DEF IoInv, Stage
<1>15. RequestsInv'
  <2>1. \A i \in DOMAIN requests : requests[i].stage \in Asks
    BY DEF Request
  <2>2. j.stage \notin Asks
    BY <1>2 DEF OnDisk, Writes, Loads, Saves, Asks
  <2>3. \A i \in DOMAIN requests : requests[i].stage = "applying" => journal' = journal
    BY <1>1, <1>8 DEF RequestsInv
  <2> QED
    BY <2>1, <2>2, <2>3, <1>3, <1>4, <1>5 DEF RequestsInv, Stage
<1>16. SaveInv'
  BY <1>3 DEF SaveInv, Writes, WellFormed, CanAccept
<1>17. ClearInv'
  BY <1>3 DEF ClearInv, Writes
<1>18. KnowsInv'
  <2>1. ASSUME NEW c, NEW s, Capture(c, s)
        PROVE  Capture(c, s)'
    <3>1. s.original.addr = Tun => j.stage # "clearing"
      BY <2>1, <1>1 DEF Capture
    <3>2. s.original.addr = Tun => journal' # None
      BY <3>1, <2>1, <1>9 DEF Capture, j
    <3> QED
      BY <3>2, <2>1, <1>3 DEF Capture, Writes
  <2>2. running # 0 /\ answer' # answer => answer' = [ok |-> ok, snap |-> snap] /\ Stage(running) = j.stage
    BY <1>4
  <2>3. running # 0 /\ answer' # answer => Stage(running) \in OnDisk \ Asks
    BY <2>2, <1>2 DEF OnDisk, Writes, Loads, Saves, Asks
  <2>4. running # 0 /\ answer' # answer /\ j.stage = "saving" => j.snap = calls[running].snap
    BY <1>1, <1>4 DEF SaveInv, Saves
  <2>5. Stage(running)' = Stage(running)
    BY DEF Stage
  <2>6. ASSUME running # 0, answer' # answer
        PROVE  KnowsInv'
    BY <2>1, <2>2, <2>3, <2>4, <2>5, <2>6 DEF KnowsInv, Asks, WellFormed, j
  <2>7. ASSUME running # 0, answer' = answer
        PROVE  KnowsInv'
    BY <2>1, <2>5, <2>7, <1>6 DEF KnowsInv, WellFormed, OnDisk, Writes, Loads, Saves
  <2> QED
    BY <2>6, <2>7 DEF KnowsInv
<1>19. OrderInv'
  <2>1. j.stage \in Saves => \A d \in Calls : Stage(d) \in {"new", "queued"}
                            \/ (d = running /\ calls[d].kind \in Restores) =>
                               j.snap.id < d /\ \A p \in j.snap.previous : p < d
    BY <1>1 DEF OrderInv
  <2> QED
    BY <2>1, <1>3, <1>9 DEF OrderInv, Stage, j
<1>20. HistoryInv'
  BY DEF HistoryInv, Holds, Stage
<1>21. AskedInv'
  <2>1. "restoring" \notin OnDisk
    BY DEF OnDisk, Writes, Loads, Saves
  <2> QED
    BY <2>1, <1>2, <1>4 DEF AskedInv, Stage
<1>22. LateInv'
  <2> SUFFICES ASSUME NEW q \in Request, q.stage = "restoring", OnTheWay(q)'
               PROVE  Sound(q.call, q.snap)'
    BY DEF LateInv
  <2>1. Sound(q.call, q.snap)
    BY DEF LateInv, OnTheWay
  <2>2. j.stage \in Saves => j.snap.id > q.call
    BY <2>1, <1>1 DEF Sound
  <2>3. journal' # None => journal' = q.snap \/ journal'.id > q.call
    BY <2>1, <2>2 DEF Sound, j
  <2>4. \A i \in DOMAIN io' : io'[i].stage \notin Saves
    BY <1>3 DEF Writes
  <2> QED
    BY <2>1, <2>3, <2>4 DEF Sound, Stage, WellFormed, CanAccept
<1> QED
  BY <1>21, <1>22, <1>11, <1>12, <1>13, <1>14, <1>15, <1>16, <1>17, <1>18, <1>19, <1>20

\* The helper serves its first request and answers.
LEMMA RequestsPop ==
    ASSUME IInv, requests # <<>>, requests' = Tail(requests),
           NEW ok \in BOOLEAN, NEW snap \in Snapshot \cup {None}, Deliver(Head(requests), ok, snap),
           UNCHANGED <<journal, calls, running, io, asked, own>>,
           live' \in Setting, helper' \in Helper, SettingsInv',
           Head(requests).stage # "applying" =>
              helper'.write = helper.write /\ (live'.addr = Tun => live' = live),
           Head(requests).stage \notin {"applying", "restoring"} => live' = live,
           helper'.write = Head(requests).snap.id \/ (helper'.write = helper.write /\ live'.addr # Tun)
              \/ (helper'.write = helper.write /\ live' = live),
           ok => /\ Head(requests).stage = "capturing" => Capture(Head(requests).call, snap)
                 /\ Head(requests).stage = "applying" => helper'.write \in {None, Head(requests).snap.id}
                 /\ Head(requests).stage = "restoring" => live'.addr # Tun
    PROVE  IInv'
<1> USE TypeParts DEF IInv
<1> DEFINE q == Head(requests)
<1>1. /\ 1 \in DOMAIN requests /\ q = requests[1] /\ q \in Request /\ Tail(requests) \in Seq(Request)
      /\ Len(requests) \in Nat /\ Len(requests) >= 1 /\ Len(Tail(requests)) = Len(requests) - 1
      /\ \A i \in DOMAIN Tail(requests) :
            i \in Nat /\ i >= 1 /\ i + 1 \in DOMAIN requests /\ Tail(requests)[i] = requests[i + 1]
  BY Popped DEF TypeInv
<1>2. q.call \in Calls /\ q.stage \in Asks
  BY <1>1 DEF Request
<1> HIDE DEF q
<1>3. \A i \in DOMAIN requests' : i \in Nat /\ i + 1 \in DOMAIN requests /\ requests'[i] = requests[i + 1]
  BY <1>1
<1>4. \/ answer' = answer
      \/ /\ running = q.call /\ Stage(running) = q.stage
         /\ answer' = [ok |-> ok, snap |-> snap]
  BY DEF Deliver, q
<1>5. q.call = running => answer = None /\ q.snap = calls[running].snap
  BY <1>1 DEF RequestsInv
<1>6. /\ running # 0 /\ Stage(running) \in Alone => q.stage = "restoring" /\ q.call # running
      /\ answer # None /\ answer.ok /\ Stage(running) \in Asks => q.stage = "restoring" /\ q.call # running
  BY <1>1 DEF StageInv, OnlyLate
<1>8. \A i \in DOMAIN io : io[i].stage \in OnDisk
  BY DEF Job, OnDisk, Writes
<1>9. OnDisk \cap Asks = {}
  BY DEF OnDisk, Writes, Loads, Saves, Asks
<1>10. (\E i \in DOMAIN io : io[i].stage \in Writes) =>
            (live'.addr = Tun => live' = live) /\ helper'.write = helper.write
  BY <1>1 DEF RequestsInv, q
<1>11. TypeInv'
  <2>1. [ok |-> ok, snap |-> snap] \in Answer
    BY DEF Answer
  <2> QED
    BY <2>1, <1>1, <1>4 DEF TypeInv
<1>12. running # 0 /\ OnlyLate => OnlyLate'
  BY <1>3 DEF OnlyLate
<1>13. StageInv'
  <2>1. answer' # answer => OnlyLate'
    <3> SUFFICES ASSUME answer' # answer
                 PROVE  OnlyLate'
      OBVIOUS
    <3>1. running = q.call /\ requests[1].call = running
      BY <1>1, <1>4
    <3>2. \A k \in DOMAIN requests : k > 1 => requests[k].stage = "restoring" /\ requests[k].call # running
      BY <3>1, <1>1 DEF RequestsInv
    <3>3. \A k \in DOMAIN requests' : k + 1 \in DOMAIN requests /\ k + 1 > 1 /\ requests'[k] = requests[k + 1]
      BY <1>1
    <3> QED
      BY <3>2, <3>3 DEF OnlyLate
  <2>2. answer' = answer /\ running # 0 => StageInv'
    BY <2>1, <1>12 DEF StageInv, Stage
  <2>3. answer' # answer => StageInv'
    BY <2>1, <1>2, <1>4, <1>9, <1>12 DEF StageInv, Stage
  <2>4. running = 0 => answer' = answer
    BY <1>2, <1>4
  <2>5. running = 0 => StageInv'
    BY <2>4 DEF StageInv, Stage
  <2> QED
    BY <2>2, <2>3, <2>5
<1>14. IoInv'
  BY <1>2, <1>4, <1>8, <1>9 DEF IoInv, Stage
<1>15. RequestsInv'
  <2>1. ASSUME NEW i \in DOMAIN requests', requests'[i].call = running
        PROVE  q.call # running
    <3>1. i + 1 \in DOMAIN requests /\ i + 1 > 1 /\ requests[i + 1].call = running
      BY <1>3, <1>1, <2>1
    <3> QED
      BY <3>1, <1>1 DEF RequestsInv
  <2>2. ASSUME NEW i \in DOMAIN requests', requests'[i].call = running
        PROVE  /\ requests'[i].stage = Stage(running) /\ answer' = None
               /\ requests'[i].snap = calls[running].snap
               /\ \A k \in DOMAIN requests' :
                     k > i => requests'[k].stage = "restoring" /\ requests'[k].call # running
    <3>1. i + 1 \in DOMAIN requests /\ requests[i + 1] = requests'[i]
      BY <1>3
    <3>2. \A k \in DOMAIN requests' : k \in Nat /\ k + 1 \in DOMAIN requests /\ requests'[k] = requests[k + 1]
                                     /\ (k > i => k + 1 > i + 1)
      BY <1>3
    <3> QED
      BY <3>1, <3>2, <2>1, <2>2, <1>4 DEF RequestsInv
  <2>3. Stage(running)' = Stage(running)
    BY DEF Stage
  <2> QED
    BY <2>2, <2>3, <1>3 DEF RequestsInv, Stage
<1>16. SaveInv'
  BY <1>10 DEF SaveInv, WellFormed, CanAccept, Writes
<1>17. ClearInv'
  BY <1>10 DEF ClearInv, Stage, Writes
<1>18. KnowsInv'
  <2>1. Stage(running)' = Stage(running)
    BY DEF Stage
  <2>2. ASSUME running # 0, answer' # answer
        PROVE  KnowsInv'
    <3>1. /\ answer' = [ok |-> ok, snap |-> snap] /\ Stage(running) = q.stage /\ running = q.call
          /\ q.snap = calls[running].snap
      BY <2>2, <1>4, <1>5
    <3>2. q.stage \notin Alone \cup Loads
      BY <1>2 DEF Alone, Loads, Asks
    <3>3. q.stage = "capturing" /\ ok => Capture(running, snap)'
      <4>1. q.stage = "capturing" => live' = live
        BY DEF q
      <4>2. q.stage = "capturing" /\ ok => Capture(running, snap)
        BY <3>1 DEF q
      <4> QED
        BY <4>1, <4>2 DEF Capture
    <3>4. q.stage = "refreshing" => live'.addr # Tun
      <4>1. q.stage = "refreshing" => live' = live
        BY DEF q
      <4> QED
        BY <4>1, <2>2, <3>1 DEF KnowsInv, Undone
    <3>5. q.stage = "applying" => q.snap # None /\ q.snap.id = running
      BY <2>2, <3>1 DEF KnowsInv
    <3>6. (ok /\ q.stage = "applying" => helper'.write \in {None, q.snap.id})
          /\ (ok /\ q.stage = "restoring" => live'.addr # Tun)
      BY DEF q
    <3>7. answer' # None /\ answer'.ok => ok
      BY <3>1
    <3>8. answer'.snap = snap
      BY <3>1
    <3> QED
      BY <2>1, <2>2, <3>1, <3>2, <3>3, <3>4, <3>5, <3>6, <3>7, <3>8
      DEF KnowsInv, WellFormed, Alone, Undone, Loads
  <2>3. ASSUME running # 0, answer' = answer
        PROVE  KnowsInv'
    <3>1. \/ Stage(running) \in Alone \cup {"refreshing"}
          \/ answer # None /\ answer.ok /\ Stage(running) \in Asks
          => /\ helper'.write = helper.write
             /\ live'.addr = Tun => live' = live
      <4>1. Stage(running) = "refreshing" => q.stage # "applying"
        BY <1>1, <2>3 DEF RequestsInv
      <4> QED
        BY <4>1, <1>6, <2>3 DEF q
    <3>2. ASSUME NEW s, Capture(running, s), live'.addr = Tun => live' = live
          PROVE  Capture(running, s)'
      BY <3>2 DEF Capture
    <3> QED
      BY <2>1, <2>3, <3>1, <3>2 DEF KnowsInv, WellFormed, Alone, Asks, Undone
  <2> QED
    BY <2>2, <2>3 DEF KnowsInv
<1>19. OrderInv'
  BY DEF OrderInv, Stage
<1>20. HistoryInv'
  BY <1>3 DEF HistoryInv, Holds, Stage
<1>21. AskedInv'
  <2>1. ASSUME NEW p \in asked, p.call = running
        PROVE  answer' = None /\ \A i \in DOMAIN requests' : requests'[i].call # running
    BY <2>1, <1>1, <1>3, <1>4 DEF AskedInv
  <2> QED
    BY <2>1 DEF AskedInv, Stage
<1>22. LateInv'
  <2> SUFFICES ASSUME NEW p \in Request, p.stage = "restoring", OnTheWay(p)'
               PROVE  Sound(p.call, p.snap)'
    BY DEF LateInv
  <2> DEFINE c == p.call
             s == p.snap
  <2>1. OnTheWay(p)
    BY <1>3 DEF OnTheWay
  <2>2. Sound(c, s) /\ c \in Calls /\ c \in Nat /\ s \in Snapshot \cup {None}
    BY <2>1 DEF LateInv
  <2>3. ASSUME live'.addr = Tun, CanAccept(s)'
        PROVE  s.original.addr = own'.addr
    <3>1. CASE helper'.write = helper.write /\ live' = live
      BY <2>2, <2>3, <3>1 DEF Sound, CanAccept
    <3>2. CASE q.stage = "applying" /\ helper'.write = q.snap.id
      <4>1. journal # None /\ q.snap = journal
        BY <3>2, <1>1 DEF RequestsInv
      <4>2. journal.original.addr = own.addr
        BY <2>3, <4>1 DEF SettingsInv
      <4>3. CASE journal = s
        BY <4>2, <4>3
      <4>4. CASE journal.id > c
        <5>1. journal.id \in Nat
          BY <4>1 DEF TypeInv
        <5>2. journal.id # None /\ journal.id # s.id /\ journal.id \notin s.previous
          <6>1. s # None /\ s.id \in Nat /\ s.id < c /\ \A e \in s.previous : e \in Nat /\ e < c
            BY <2>2 DEF Sound
          <6> QED
            BY <5>1, <6>1, <4>4, <2>2
        <5> QED
          BY <2>3, <5>2, <3>2, <4>1 DEF CanAccept
      <4> QED
        BY <4>1, <4>3, <4>4, <2>2 DEF Sound
    <3> QED
      BY <2>3, <3>1, <3>2 DEF q
  <2> QED
    BY <2>2, <2>3 DEF Sound, Stage, WellFormed
<1> QED
  BY <1>11, <1>12, <1>13, <1>14, <1>15, <1>16, <1>17, <1>18, <1>19, <1>20, <1>21, <1>22
-----------------------------------------------------------------------------
(* The steps of an operation.                                               *)

\* The end of an operation that leaves the journal's queue alone
LEMMA LeaveKeeps ==
    ASSUME IInv, NEW c \in Calls, Turning(c), Stage(c) # "clearing" \/ answer # None,
           NEW result \in Ended, result # "nothing", Finish(c, result), UNCHANGED outside,
           calls[c].kind \in Restores /\ result = "ok" =>
              \A i \in DOMAIN requests : requests[i].stage # "applying"
    PROVE  IInv'
<1> USE TypeParts DEF IInv
<1>1. /\ calls' = [calls EXCEPT ![c] = Done(@.kind, result)]
      /\ running' = 0 /\ answer' = None /\ io' = io /\ requests' = requests /\ asked' = asked
  BY DEF Finish
<1>2. Stage(c) # "unsettled" /\ (Stage(c) = "clearing" => running = c /\ answer # None)
  BY DEF Turning, IsFirst, StageInv, Waiting, Loads, Saves, Asks
<1>3. \A i \in DOMAIN io : io[i].stage = "clearing" => io[i].call # c
  BY <1>2 DEF ClearInv, IoInv
<1>4. \A i \in DOMAIN io : io[i].stage \in Writes => i = 1
  BY DEF IoInv
<1>5. Leaves(c, result)
  BY <1>1, <1>3, <1>4 DEF TypeInv, Leaves
<1> QED
  BY <1>5, FinishKeeps

LEMMA StartKeeps ==
    ASSUME IInv, NEW c \in Calls, Start(c)
    PROVE  IInv'
<1> USE TypeParts DEF IInv
<1>1. /\ IsFirst(c) /\ Ready(c) /\ Turning(c) /\ Stage(c) = "queued" /\ UNCHANGED outside
  BY DEF Start, IsFirst, Ready, Turning
<1>2. CASE calls[c].kind = "apply" /\ Ask(c, "capturing", None)
  BY <1>1, <1>2, AskKeeps DEF Asks, KindsOf, Undone
<1>3. CASE calls[c].kind \in Restores /\ loadJournal(c, "fetching", None)
  BY <1>1, <1>3, EnqueueKeeps DEF loadJournal, OnDisk, Loads, Writes, Saves, KindsOf, Undone, Alone
<1>4. CASE Finish(c, "failed")
  BY <1>1, <1>4, LeaveKeeps DEF Ended
<1> QED
  BY <1>2, <1>3, <1>4 DEF Start

\* What a callback finds
LEMMA AnsweredFacts ==
    ASSUME IInv, NEW c \in Calls, NEW stage \in Waiting, NEW ok \in BOOLEAN, Answered(c, stage, ok)
    PROVE  /\ running = c /\ running # 0 /\ Stage(c) = stage /\ Ready(c) /\ Turning(c)
           /\ answer # None /\ answer.ok = ok
           /\ calls[c].kind \in KindsOf(stage) /\ answer.snap \in Snapshot \cup {None}
           /\ calls[c].snap \in Snapshot \cup {None}
           /\ stage \in OnDisk => io = <<>>
           /\ stage \in Alone \/ (stage \in Asks /\ ok) => OnlyLate
<1> USE TypeParts DEF IInv
<1>1. answer \in Answer
  BY DEF Answered, TypeInv
<1>2. running = c /\ running # 0 /\ Stage(c) = stage /\ answer # None /\ answer.ok = ok
  BY DEF Answered
<1>3. answer.snap \in Snapshot \cup {None} /\ calls[c].snap \in Snapshot \cup {None}
  BY <1>1 DEF Answer, Call
<1>4. /\ calls[c].kind \in KindsOf(stage) /\ (stage \in OnDisk => io = <<>>)
      /\ (stage \in Alone \/ (stage \in Asks /\ ok) => OnlyLate)
  BY <1>2 DEF StageInv, KindsOf
<1> QED
  BY <1>2, <1>3, <1>4 DEF Ready, Turning

LEMMA CapturedKeeps ==
    ASSUME IInv, NEW c \in Calls, Captured(c)
    PROVE  IInv'
<1>1. Answered(c, "capturing", TRUE) /\ loadJournal(c, "loading", answer.snap) /\ UNCHANGED outside
  BY DEF Captured
<1>2. "capturing" \in Waiting /\ "capturing" \in Asks /\ TRUE \in BOOLEAN
  BY DEF Waiting, Asks
<1>3. /\ running = c /\ running # 0 /\ Stage(c) = "capturing" /\ Ready(c) /\ answer # None /\ answer.ok
      /\ calls[c].kind \in KindsOf("capturing") /\ answer.snap \in Snapshot \cup {None} /\ OnlyLate
  BY <1>1, <1>2, AnsweredFacts
<1>4. Capture(c, answer.snap)
  BY <1>3 DEF IInv, KnowsInv
<1> QED
  BY <1>1, <1>3, <1>4, EnqueueKeeps DEF loadJournal, OnDisk, Loads, Writes, Saves, KindsOf, Undone, Alone

\* The journal that is written before an apply undoes it.
LEMMA Merged ==
    ASSUME IInv, NEW c \in Calls, NEW captured, Capture(c, captured), io = <<>>,
           Fits(Predecessors(journal, c))
    PROVE  LET merged == Merging(captured, journal)
           IN  /\ merged # None /\ WellFormed(merged) /\ merged.id = c
               /\ live.addr = Tun => merged.original.addr = own.addr /\ CanAccept(merged)
               /\ \A d \in Calls : Stage(d) \in {"new", "queued"} => \A e \in merged.previous : e < d
<1> USE TypeParts DEF IInv
<1> DEFINE o == Original(captured, journal)
           p == Predecessors(journal, c)
           m == Merging(captured, journal)
<1>1. captured \in Snapshot /\ captured.id = c /\ captured.original \in Setting
  BY DEF Capture
<1>2. journal # None => WellFormed(journal) /\ journal \in Snapshot
  BY DEF SettingsInv, WellFormed
<1>3. captured.original.addr = Tun => journal # None
  BY DEF Capture
<1>4. o \in Setting /\ o.addr \in Addresses
  BY <1>1, <1>2, <1>3 DEF Original, WellFormed, Setting
<1>5. p \subseteq Ids /\ c \notin p /\ Fits(p)
  BY <1>2, <1>1 DEF Predecessors
<1>6. live.addr = Tun => o.addr = own.addr
  BY <1>1, <1>3 DEF Capture, Original, SettingsInv, Setting
<1>7. live.addr = Tun => helper.write = None \/ helper.write = c \/ helper.write \in p
  BY DEF SettingsInv, CanAccept, Predecessors
<1>8. m = [captured EXCEPT !.original = o, !.previous = p]
  BY <1>1 DEF Merging
<1> HIDE DEF o, p
<1>9. m \in Snapshot /\ m.id = c /\ m.original = o /\ m.previous = p
  BY <1>1, <1>4, <1>5, <1>8 DEF Snapshot
<1> HIDE DEF m
<1>10. m # None /\ WellFormed(m) /\ (live.addr = Tun => m.original.addr = own.addr /\ CanAccept(m))
  BY <1>4, <1>5, <1>6, <1>7, <1>9 DEF WellFormed, CanAccept
<1>11. \A d \in Calls : Stage(d) \in {"new", "queued"} => \A e \in p : e < d
  BY DEF Predecessors, OrderInv, p
<1> QED
  BY <1>9, <1>10, <1>11 DEF m

LEMMA LoadedKeeps ==
    ASSUME IInv, NEW c \in Calls, Loaded(c)
    PROVE  IInv'
<1> USE TypeParts DEF IInv
<1> DEFINE merged == Merging(calls[c].snap, answer.snap)
<1>1. Answered(c, "loading", TRUE) /\ UNCHANGED outside
  BY DEF Loaded
<1>2. "loading" \in Waiting /\ "loading" \in OnDisk /\ "loading" \in Alone /\ TRUE \in BOOLEAN
  BY DEF Waiting, Loads, OnDisk, Alone
<1>3. /\ running = c /\ running # 0 /\ Stage(c) = "loading" /\ Ready(c) /\ Turning(c) /\ answer # None
      /\ answer.ok /\ calls[c].kind \in KindsOf("loading") /\ OnlyLate /\ io = <<>>
  BY <1>1, <1>2, AnsweredFacts
<1>4. Capture(c, calls[c].snap) /\ answer.snap = journal
  BY <1>3 DEF KnowsInv, Loads
<1>5. CASE Fits(Predecessors(answer.snap, c)) /\ saveJournal(c, "saving", merged, merged)
  <2>1. /\ merged # None /\ WellFormed(merged) /\ merged.id = c
        /\ live.addr = Tun => merged.original.addr = own.addr /\ CanAccept(merged)
        /\ \A d \in Calls : Stage(d) \in {"new", "queued"} => \A e \in merged.previous : e < d
    BY <1>3, <1>4, <1>5, Merged
  <2>2. Enqueue(c, "saving", merged, merged) /\ merged \in Snapshot
    BY <1>5, <2>1 DEF saveJournal, WellFormed
  <2> HIDE DEF merged
  <2> QED
    BY <1>1, <1>3, <2>1, <2>2, EnqueueKeeps DEF OnDisk, Loads, Writes, Saves, KindsOf, Undone, Alone
<1>6. CASE Finish(c, "failed")
  BY <1>1, <1>3, <1>6, LeaveKeeps DEF Ended
<1> QED
  BY <1>5, <1>6 DEF Loaded

LEMMA SavedKeeps ==
    ASSUME IInv, NEW c \in Calls, Saved(c)
    PROVE  IInv'
<1> USE TypeParts DEF IInv
<1>1. Answered(c, "saving", TRUE) /\ Ask(c, "applying", calls[c].snap) /\ UNCHANGED outside
  BY DEF Saved
<1>2. "saving" \in Waiting /\ "saving" \in OnDisk /\ TRUE \in BOOLEAN
  BY DEF Waiting, Saves, OnDisk, Writes
<1>3. /\ running = c /\ running # 0 /\ Stage(c) = "saving" /\ Ready(c) /\ answer # None
      /\ answer.ok /\ calls[c].kind \in KindsOf("saving") /\ calls[c].snap \in Snapshot \cup {None}
      /\ io = <<>>
  BY <1>1, <1>2, AnsweredFacts
<1>4. calls[c].snap # None /\ WellFormed(calls[c].snap) /\ calls[c].snap.id = c /\ journal = calls[c].snap
  BY <1>3 DEF KnowsInv
<1>5. calls[c].kind = "apply"
  BY <1>3 DEF KindsOf, Undone
<1>6. ASSUME NEW d \in Calls, calls[d].kind \in Restores, Holds(d)
      PROVE  d < c
  <2>1. CASE Stage(d) = "ok"
    BY <2>1, <1>3 DEF OrderInv
  <2>2. CASE calls[d].kind = "close"
    <3>1. ~(d > c) /\ d # c
      BY <1>1, <1>5, <2>2 DEF Answered, IsCurrent
    <3> QED
      BY <3>1
  <2> QED
    BY <1>6, <2>1, <2>2 DEF Holds
<1> QED
  BY <1>1, <1>3, <1>4, <1>5, <1>6, AskKeeps DEF Asks, KindsOf, Undone

LEMMA AppliedKeeps ==
    ASSUME IInv, NEW c \in Calls, Applied(c)
    PROVE  IInv'
<1> USE TypeParts DEF IInv
<1>1. Answered(c, "applying", TRUE) /\ UNCHANGED outside
  BY DEF Applied
<1>2. "applying" \in Waiting /\ "applying" \in Asks /\ TRUE \in BOOLEAN
  BY DEF Waiting, Asks
<1>3. /\ running = c /\ running # 0 /\ Stage(c) = "applying" /\ Ready(c) /\ answer # None
      /\ answer.ok /\ calls[c].kind \in KindsOf("applying") /\ calls[c].snap \in Snapshot \cup {None}
      /\ OnlyLate
  BY <1>1, <1>2, AnsweredFacts
<1>4. /\ calls[c].snap # None /\ WellFormed(calls[c].snap) /\ calls[c].snap.id = c
      /\ helper.write \in {None, c}
  BY <1>3 DEF KnowsInv
<1>5. CASE Ask(c, "flushing", calls[c].snap)
  BY <1>1, <1>3, <1>5, AskKeeps DEF Asks, KindsOf, Undone
<1>6. CASE loadJournal(c, "comparing", calls[c].snap)
  BY <1>1, <1>3, <1>4, <1>6, EnqueueKeeps
  DEF loadJournal, OnDisk, Loads, Writes, Saves, KindsOf, Undone, Alone
<1> QED
  BY <1>5, <1>6 DEF Applied

LEMMA ComparedKeeps ==
    ASSUME IInv, NEW c \in Calls, Compared(c)
    PROVE  IInv'
<1> USE TypeParts DEF IInv
<1> DEFINE pruned == [calls[c].snap EXCEPT !.previous = {}]
<1>1. PICK ok \in BOOLEAN : Answered(c, "comparing", ok)
  BY DEF Compared
<1>2. "comparing" \in Waiting /\ "comparing" \in OnDisk /\ "comparing" \in Alone
  BY DEF Waiting, Loads, OnDisk, Alone
<1>3. /\ running = c /\ running # 0 /\ Stage(c) = "comparing" /\ Ready(c) /\ answer # None
      /\ calls[c].kind \in KindsOf("comparing") /\ calls[c].snap \in Snapshot \cup {None}
      /\ OnlyLate /\ io = <<>> /\ UNCHANGED outside
  BY <1>1, <1>2, AnsweredFacts DEF Compared
<1>4. /\ calls[c].snap # None /\ WellFormed(calls[c].snap) /\ calls[c].snap.id = c
      /\ helper.write \in {None, c} /\ (answer.ok => answer.snap = journal)
  BY <1>3 DEF KnowsInv, Loads
<1>5. CASE answer.ok /\ answer.snap = calls[c].snap /\ saveJournal(c, "pruning", calls[c].snap, pruned)
  <2>1. /\ pruned \in Snapshot /\ pruned.id = c /\ pruned.previous = {}
        /\ pruned.original = calls[c].snap.original
    BY <1>4 DEF WellFormed, Snapshot
  <2> HIDE DEF pruned
  <2>2. Fits({})
    BY FS_EmptySet DEF Fits
  <2>3. pruned # None /\ WellFormed(pruned)
    BY <1>4, <2>1, <2>2 DEF WellFormed
  <2>4. live.addr = Tun => pruned.original.addr = own.addr /\ CanAccept(pruned)
    BY <1>4, <1>5, <2>1 DEF SettingsInv, CanAccept
  <2>5. Enqueue(c, "pruning", calls[c].snap, pruned)
    BY <1>5 DEF saveJournal
  <2> QED
    BY <1>3, <1>4, <2>1, <2>3, <2>4, <2>5, EnqueueKeeps
    DEF OnDisk, Loads, Writes, Saves, KindsOf, Undone, Alone
<1>6. CASE Ask(c, "flushing", calls[c].snap)
  BY <1>3, <1>6, AskKeeps DEF Asks, KindsOf, Undone
<1> QED
  BY <1>5, <1>6 DEF Compared

LEMMA PrunedKeeps ==
    ASSUME IInv, NEW c \in Calls, Pruned(c)
    PROVE  IInv'
<1>1. PICK ok \in BOOLEAN : Answered(c, "pruning", ok)
  BY DEF Pruned
<1>2. "pruning" \in Waiting
  BY DEF Waiting, Saves
<1>3. /\ Ready(c) /\ calls[c].kind \in KindsOf("pruning") /\ calls[c].snap \in Snapshot \cup {None}
      /\ Ask(c, "flushing", calls[c].snap) /\ UNCHANGED outside
  BY <1>1, <1>2, AnsweredFacts DEF Pruned
<1> QED
  BY <1>3, AskKeeps DEF Asks, KindsOf, Undone

LEMMA FlushedKeeps ==
    ASSUME IInv, NEW c \in Calls, Flushed(c)
    PROVE  IInv'
<1>1. Answered(c, "flushing", TRUE) /\ Finish(c, "ok") /\ UNCHANGED outside
  BY DEF Flushed
<1>2. "flushing" \in Waiting /\ TRUE \in BOOLEAN
  BY DEF Waiting, Asks
<1>3. Turning(c) /\ answer # None /\ calls[c].kind \in KindsOf("flushing")
  BY <1>1, <1>2, AnsweredFacts
<1> QED
  BY <1>1, <1>3, LeaveKeeps DEF Ended, KindsOf, Undone, Restores

\* A restore is asked for with what is the journal.
LEMMA AskVersionKeeps ==
    ASSUME IInv, NEW c \in Calls, running = c, answer # None, calls[c].kind \in Restores, io = <<>>,
           journal # None, AskVersion(c, journal), UNCHANGED outside
    PROVE  IInv'
<1> USE TypeParts, c \in Calls DEF IInv
<1> DEFINE q == [call |-> c, stage |-> "restoring", snap |-> journal]
<1>1. /\ calls' = At(c, "restoring", journal) /\ running' = c /\ answer' = None /\ io' = io
      /\ requests' = requests /\ asked' = asked \cup {q}
      /\ live' = live /\ journal' = journal /\ helper' = helper /\ own' = own
  BY DEF AskVersion, outside
<1>2. "restoring" \in Waiting /\ Ready(c) /\ journal \in Snapshot \cup {None} /\ WellFormed(journal)
  BY DEF Waiting, Asks, Ready, TypeInv, SettingsInv
<1>3. /\ calls' \in [Calls -> Call]
      /\ calls'[c].kind = calls[c].kind /\ calls'[c].snap = journal /\ Stage(c)' = "restoring"
      /\ \A d \in Calls : d # c => calls'[d] = calls[d] /\ Stage(d)' = Stage(d)
      /\ \A i \in DOMAIN requests : requests[i].call # c /\ Stage(requests[i].call) \in Ended
      /\ \A p \in asked : p.call # c /\ Stage(p.call) \in Ended
      /\ \A d \in Calls : Stage(d) = "ok" => d < c
      /\ \A d \in Calls : d # c => Stage(d) \notin Waiting
      /\ \A d \in Calls : d # c /\ Stage(d) \in {"new", "queued"} => c < d
  BY <1>1, <1>2, Moves
<1>4. q \in Request /\ q.call = c /\ q.stage = "restoring" /\ q.snap = journal
  BY <1>2 DEF Request, Asks
<1> HIDE DEF q
<1>5. DOMAIN io = {}
  OBVIOUS
<1>6. \A i \in DOMAIN requests : requests[i].call \in Calls
  BY DEF Request
<1>10. TypeInv'
  BY <1>1, <1>3, <1>4 DEF TypeInv
<1>11. SettingsInv'
  BY <1>1 DEF SettingsInv, CanAccept, WellFormed
<1>12. StageInv'
  BY <1>1, <1>2, <1>3 DEF StageInv, KindsOf, Alone
<1>13. IoInv' /\ SaveInv' /\ ClearInv'
  BY <1>1, <1>5 DEF IoInv, SaveInv, ClearInv
<1>14. RequestsInv'
  BY <1>1, <1>3, <1>6 DEF RequestsInv
<1>15. AskedInv'
  BY <1>1, <1>3, <1>4 DEF AskedInv
<1>16. KnowsInv'
  BY <1>1, <1>3 DEF KnowsInv, Loads, Undone
<1>17. OrderInv'
  BY <1>1, <1>3, <1>5 DEF OrderInv
<1>18. HistoryInv'
  <2>1. ~Holds(c)'
    BY <1>3 DEF Holds
  <2>2. \A d \in Calls : d # c => Holds(d)' = Holds(d)
    BY <1>3 DEF Holds
  <2> QED
    BY <2>1, <2>2, <1>1, <1>3 DEF HistoryInv
<1>19. LateInv'
  <2> SUFFICES ASSUME NEW p \in Request, p.stage = "restoring", OnTheWay(p)'
               PROVE  Sound(p.call, p.snap)'
    BY DEF LateInv
  <2>1. \A d \in Calls : Stage(d)' \in {"new", "queued"} => Stage(d) \in {"new", "queued"} /\ c < d
    BY <1>3
  <2>2. CASE p = q
    <3>1. journal.id < c /\ \A e \in journal.previous : e < c
      BY DEF OrderInv
    <3>2. live.addr = Tun => journal.original.addr = own.addr
      BY DEF SettingsInv
    <3> QED
      BY <2>1, <2>2, <3>1, <3>2, <1>1, <1>2, <1>4, <1>5 DEF Sound, WellFormed
  <2>3. CASE OnTheWay(p)
    <3>1. Sound(p.call, p.snap)
      BY <2>3 DEF LateInv
    <3> QED
      BY <3>1, <2>1, <1>1 DEF Sound, WellFormed, CanAccept
  <2> QED
    BY <2>2, <2>3, <1>1 DEF OnTheWay
<1> QED
  BY <1>10, <1>11, <1>12, <1>13, <1>14, <1>15, <1>16, <1>17, <1>18, <1>19

LEMMA FetchedKeeps ==
    ASSUME IInv, NEW c \in Calls, Fetched(c)
    PROVE  IInv' /\ (answer.snap = None => live.addr # Tun)
<1> USE TypeParts DEF IInv
<1>1. Answered(c, "fetching", TRUE) /\ UNCHANGED outside
  BY DEF Fetched
<1>2. "fetching" \in Waiting /\ "fetching" \in OnDisk /\ TRUE \in BOOLEAN
  BY DEF Waiting, Loads, OnDisk
<1>3. /\ running = c /\ running # 0 /\ Stage(c) = "fetching" /\ Ready(c) /\ Turning(c) /\ answer # None
      /\ answer.ok /\ calls[c].kind \in KindsOf("fetching") /\ answer.snap \in Snapshot \cup {None}
      /\ io = <<>>
  BY <1>1, <1>2, AnsweredFacts
<1>4. answer.snap = journal
  BY <1>3 DEF KnowsInv, Loads
<1>5. journal = None => live.addr # Tun /\ \A i \in DOMAIN requests : requests[i].stage # "applying"
  BY DEF SettingsInv, RequestsInv
<1>6. CASE answer.snap = None /\ Finish(c, "ok")
  BY <1>1, <1>3, <1>4, <1>5, <1>6, LeaveKeeps DEF Ended
<1>7. CASE answer.snap # None /\ AskVersion(c, answer.snap)
  <2>1. calls[c].kind \in Restores
    BY <1>3 DEF KindsOf
  <2> QED
    BY <2>1, <1>1, <1>3, <1>4, <1>7, AskVersionKeeps
<1> QED
  BY <1>4, <1>5, <1>6, <1>7 DEF Fetched

LEMMA RestoredKeeps ==
    ASSUME IInv, NEW c \in Calls, Restored(c)
    PROVE  IInv'
<1> USE TypeParts DEF IInv
<1>1. Answered(c, "restoring", TRUE) /\ loadJournal(c, "rechecking", calls[c].snap) /\ UNCHANGED outside
  BY DEF Restored
<1>2. "restoring" \in Waiting /\ "restoring" \in Asks /\ TRUE \in BOOLEAN
  BY DEF Waiting, Asks
<1>3. /\ running = c /\ running # 0 /\ Stage(c) = "restoring" /\ Ready(c) /\ answer # None
      /\ answer.ok /\ calls[c].kind \in KindsOf("restoring") /\ calls[c].snap \in Snapshot \cup {None}
      /\ OnlyLate
  BY <1>1, <1>2, AnsweredFacts
<1>4. live.addr # Tun
  BY <1>3 DEF KnowsInv
<1> QED
  BY <1>1, <1>3, <1>4, EnqueueKeeps DEF loadJournal, OnDisk, Loads, Writes, Saves, KindsOf, Undone, Alone

LEMMA RecheckedKeeps ==
    ASSUME IInv, NEW c \in Calls, Rechecked(c)
    PROVE  IInv'
<1> USE TypeParts DEF IInv
<1>1. Answered(c, "rechecking", TRUE) /\ UNCHANGED outside
  BY DEF Rechecked
<1>2. /\ "rechecking" \in Waiting /\ "rechecking" \in OnDisk /\ "rechecking" \in Alone
      /\ "rechecking" \in Undone /\ TRUE \in BOOLEAN
  BY DEF Waiting, Loads, OnDisk, Alone, Undone
<1>3. /\ running = c /\ running # 0 /\ Stage(c) = "rechecking" /\ Ready(c) /\ Turning(c) /\ answer # None
      /\ calls[c].kind \in KindsOf("rechecking") /\ calls[c].snap \in Snapshot \cup {None}
      /\ OnlyLate /\ io = <<>>
  BY <1>1, <1>2, AnsweredFacts
<1>4. live.addr # Tun
  BY <1>2, <1>3 DEF KnowsInv
<1>5. calls[c].kind \in Restores
  BY <1>2, <1>3 DEF KindsOf
<1>6. journal # None => journal.id < c
  BY <1>3, <1>5 DEF OrderInv
<1>7. CASE saveJournal(c, "clearing", calls[c].snap, None)
  BY <1>1, <1>3, <1>4, <1>5, <1>6, <1>7, EnqueueKeeps
  DEF saveJournal, OnDisk, Loads, Writes, Saves, KindsOf, Undone, Alone
<1>8. CASE Finish(c, "failed")
  BY <1>1, <1>3, <1>8, LeaveKeeps DEF Ended
<1> QED
  BY <1>7, <1>8 DEF Rechecked

\* Where an operation clears, its restore has been verified.
LEMMA ClearingFacts ==
    ASSUME IInv, NEW c \in Calls, running = c, Stage(c) = "clearing"
    PROVE  /\ live.addr # Tun /\ OnlyLate /\ Turning(c)
           /\ \A i \in DOMAIN requests : requests[i].stage # "applying"
           /\ calls[c].kind \in Restores
<1>1. live.addr # Tun /\ OnlyLate /\ calls[c].kind \in Restores
  BY TypeParts DEF IInv, KnowsInv, StageInv, KindsOf, Undone, Alone
<1> QED
  BY <1>1 DEF Turning, OnlyLate

LEMMA ClearedKeeps ==
    ASSUME IInv, NEW c \in Calls, Cleared(c)
    PROVE  IInv'
<1>1. UNCHANGED outside
  BY DEF Cleared
<1>2. "clearing" \in Waiting /\ TRUE \in BOOLEAN /\ FALSE \in BOOLEAN
  BY DEF Waiting
<1>3. ASSUME NEW ok \in BOOLEAN, Answered(c, "clearing", ok)
      PROVE  /\ running = c /\ Stage(c) = "clearing" /\ Ready(c) /\ Turning(c) /\ answer # None
             /\ calls[c].snap \in Snapshot \cup {None} /\ live.addr # Tun /\ OnlyLate
             /\ calls[c].kind \in Restores
  BY <1>2, <1>3, AnsweredFacts, ClearingFacts
<1>4. CASE Answered(c, "clearing", TRUE) /\ Ask(c, "refreshing", calls[c].snap)
  BY <1>1, <1>2, <1>3, <1>4, AskKeeps DEF Asks, KindsOf, Undone
<1>5. CASE Answered(c, "clearing", FALSE) /\ Finish(c, "failed")
  BY <1>1, <1>2, <1>3, <1>5, LeaveKeeps DEF Ended
<1> QED
  BY <1>4, <1>5 DEF Cleared

LEMMA ClearTimesOutKeeps ==
    ASSUME IInv, NEW c \in Calls, ClearTimesOut(c)
    PROVE  IInv'
<1> USE TypeParts DEF IInv
<1>1. /\ running = c /\ Stage(c) = "clearing" /\ UNCHANGED outside
      /\ live.addr # Tun /\ OnlyLate /\ Turning(c) /\ calls[c].kind \in Restores
  BY ClearingFacts DEF ClearTimesOut
<1>2. ASSUME NEW i \in DOMAIN io, IsClear(io[i], c),
             calls' = [calls EXCEPT ![c] = Done(@.kind, IF io[i].begun THEN "unsettled" ELSE "failed")],
             io' = IF io[i].begun THEN io ELSE Withdrawn(i),
             running' = 0, answer' = None, UNCHANGED <<requests, asked>>
      PROVE  IInv'
  <2>1. i = 1 /\ \A j \in DOMAIN io : io[j].stage \in Writes => j = 1
    BY <1>2 DEF IoInv, IsClear, Writes
  <2>2. io \in Seq(Job) /\ io # <<>>
    BY DEF TypeInv
  <2>3. CASE io[i].begun
    <3>1. /\ calls' = [calls EXCEPT ![c] = Done(@.kind, "unsettled")] /\ io' = io
      BY <1>1, <1>2, <2>3
    <3>2. \A k \in DOMAIN io' :
              /\ \E j \in DOMAIN io : io'[k] = io[j]
              /\ io'[k].stage \in Writes => k = 1
              /\ io'[k].stage = "clearing" /\ io'[k].call = c => io'[k].begun
      BY <2>1, <2>3, <3>1 DEF Writes
    <3>3. "unsettled" \in Ended /\ UNCHANGED <<requests, asked, outside>> /\ io' \in Seq(Job)
      BY <1>1, <1>2, <2>2, <3>1 DEF Ended
    <3>4. running' = 0 /\ answer' = None
      BY <1>2
    <3>5. Leaves(c, "unsettled")
      BY <3>1, <3>2, <3>3, <3>4 DEF Leaves
    <3> QED
      BY <1>1, <3>5, FinishKeeps DEF Ended
  <2>4. CASE ~io[i].begun
    <3>1. /\ calls' = [calls EXCEPT ![c] = Done(@.kind, "failed")] /\ io' = Tail(io)
      BY <1>1, <1>2, <2>1, <2>2, <2>4, First DEF Withdrawn
    <3>2. /\ io' \in Seq(Job)
          /\ \A k \in DOMAIN io' : k + 1 \in DOMAIN io /\ k + 1 # 1 /\ io'[k] = io[k + 1]
      BY <2>2, <3>1, Popped
    <3>3. \A k \in DOMAIN io' :
              /\ \E j \in DOMAIN io : io'[k] = io[j]
              /\ io'[k].stage \notin Writes /\ io'[k].stage # "clearing"
      BY <2>1, <3>2 DEF Writes
    <3>4. "failed" \in Ended /\ UNCHANGED <<requests, asked, outside>> /\ running' = 0 /\ answer' = None
      BY <1>1, <1>2 DEF Ended
    <3>5. Leaves(c, "failed")
      BY <3>1, <3>2, <3>3, <3>4 DEF Leaves
    <3> QED
      BY <1>1, <3>5, FinishKeeps DEF Ended
  <2> QED
    BY <2>3, <2>4
<1>3. CASE answer # None /\ Finish(c, IF answer.ok THEN "ok" ELSE "failed")
  <2>1. \A i \in DOMAIN requests : requests[i].stage # "applying"
    BY <1>1 DEF OnlyLate
  <2>2. PICK result \in {"ok", "failed"} : Finish(c, result)
    BY <1>3
  <2> QED
    BY <1>1, <1>3, <2>1, <2>2, LeaveKeeps DEF Ended
<1> QED
  BY <1>2, <1>3 DEF ClearTimesOut

LEMMA RefreshedKeeps ==
    ASSUME IInv, NEW c \in Calls, Refreshed(c)
    PROVE  IInv' /\ live.addr # Tun
<1> USE TypeParts DEF IInv
<1>1. running = c /\ running # 0 /\ Stage(c) = "refreshing" /\ Finish(c, "ok") /\ UNCHANGED outside
  BY DEF Refreshed
<1>2. live.addr # Tun /\ Turning(c)
  BY <1>1 DEF KnowsInv, Undone, Turning
<1>3. \A i \in DOMAIN requests : requests[i].stage # "applying"
  BY <1>1 DEF RequestsInv
<1> QED
  BY <1>1, <1>2, <1>3, LeaveKeeps DEF Ended

LEMMA FailsKeeps ==
    ASSUME IInv, NEW c \in Calls, Fails(c)
    PROVE  IInv'
BY LeaveKeeps DEF Fails, Ended, Turning

LEMMA TurnKeeps ==
    ASSUME IInv, NEW c \in Calls, Turn(c)
    PROVE  IInv'
BY CapturedKeeps, LoadedKeeps, SavedKeeps, AppliedKeeps, ComparedKeeps, PrunedKeeps, FlushedKeeps,
   FetchedKeeps, RestoredKeeps, RecheckedKeeps, ClearedKeeps, ClearTimesOutKeeps, RefreshedKeeps,
   FailsKeeps DEF Turn

LEMMA SubmitKeeps ==
    ASSUME IInv, NEW c \in Calls, Submit(c)
    PROVE  IInv'
<1> USE TypeParts, c \in Calls DEF IInv
<1>1. PICK k \in {"apply"} \cup Restores, stage \in {"queued", "failed"} :
          calls' = [calls EXCEPT ![c] =
                       IF k \in Restores /\ journal = None THEN Done(k, "nothing")
                       ELSE [Done(k, stage) EXCEPT !.kind = IF stage = "queued" \/ k = "close" THEN k ELSE @]]
  BY DEF Submit
<1> DEFINE r == calls'[c]
<1>2. /\ Stage(c) = "new" /\ \A d \in Calls : d < c => Stage(d) # "new"
      /\ running' = running /\ answer' = answer /\ io' = io /\ requests' = requests /\ asked' = asked
      /\ live' = live /\ journal' = journal /\ helper' = helper /\ own' = own
  BY DEF Submit, outside
<1>3. /\ r \in Call /\ r.stage \in {"queued", "nothing", "failed"}
      /\ r.stage = "nothing" => journal = None
      /\ r.stage = "queued" => r.kind \in {"apply"} \cup Restores
      /\ calls' \in [Calls -> Call] /\ \A d \in Calls : d # c => calls'[d] = calls[d]
  <2>1. /\ Done(k, "nothing") \in Call /\ Done(k, "nothing").stage = "nothing"
        /\ Done(k, stage) \in Call /\ Done(k, stage).stage = stage
    BY DEF Done, Call, Ended, Restores
  <2>2. [Done(k, stage) EXCEPT !.kind = IF stage = "queued" \/ k = "close" THEN k ELSE @] \in Call
    BY DEF Done, Call, Ended, Restores
  <2>3. /\ [Done(k, stage) EXCEPT !.kind = IF stage = "queued" \/ k = "close" THEN k ELSE @].stage = stage
        /\ stage = "queued" => [Done(k, stage) EXCEPT !.kind = IF stage = "queued" \/ k = "close" THEN k ELSE @].kind = k
    BY DEF Done
  <2> QED
    BY <1>1, <2>1, <2>2, <2>3 DEF TypeInv
<1> HIDE DEF r
<1>4. /\ running # c /\ Stage(c)' = r.stage /\ Stage(c)' \notin Waiting /\ r = calls'[c]
      /\ \A d \in Calls : d # c => Stage(d)' = Stage(d)
  BY <1>2, <1>3 DEF Stage, StageInv, Waiting, Loads, Saves, Asks, r
<1>5. /\ \A i \in DOMAIN io : io[i].call \in Calls /\ io[i].call # c
      /\ \A i \in DOMAIN requests : requests[i].call \in Calls /\ requests[i].call # c
      /\ \A p \in asked : p.call \in Calls /\ p.call # c
  BY <1>2, <1>4 DEF Job, Request, IoInv, RequestsInv, AskedInv, Ended
<1>6. running # 0 => running \in Calls /\ running # c /\ Stage(running)' = Stage(running) /\ calls'[running] = calls[running]
  BY <1>2, <1>3, <1>4 DEF TypeInv, Stage
<1>10. TypeInv'
  BY <1>2, <1>3 DEF TypeInv
<1>11. SettingsInv'
  BY <1>2 DEF SettingsInv, CanAccept, WellFormed
<1>12. StageInv'
  BY <1>2, <1>4, <1>6 DEF StageInv, OnlyLate
<1>13. IoInv'
  BY <1>2, <1>4, <1>5, <1>6 DEF IoInv
<1>14. RequestsInv'
  BY <1>2, <1>4, <1>5, <1>6 DEF RequestsInv
<1>15. SaveInv'
  BY <1>2, <1>5, <1>3 DEF SaveInv, WellFormed, CanAccept
<1>16. ClearInv'
  BY <1>2, <1>4, <1>5 DEF ClearInv
<1>17. KnowsInv'
  BY <1>2, <1>6 DEF KnowsInv, WellFormed, Capture
<1>18. OrderInv'
  BY <1>2, <1>3, <1>4 DEF OrderInv
<1>19. HistoryInv'
  <2>1. Holds(c)' => \A i \in DOMAIN requests : requests[i].stage # "applying"
    BY <1>2, <1>3, <1>4 DEF Holds, RequestsInv
  <2>2. \A d \in Calls : d # c => Holds(d)' = Holds(d)
    BY <1>3, <1>4 DEF Holds
  <2> QED
    BY <2>1, <2>2, <1>2, <1>3 DEF HistoryInv
<1>20. AskedInv'
  BY <1>2, <1>4, <1>5, <1>6 DEF AskedInv
<1>21. LateInv'
  <2> SUFFICES ASSUME NEW p \in Request, p.stage = "restoring", OnTheWay(p)'
               PROVE  Sound(p.call, p.snap)'
    BY DEF LateInv
  <2>1. Sound(p.call, p.snap)
    BY <1>2 DEF LateInv, OnTheWay
  <2>2. \A d \in Calls : Stage(d)' \in {"new", "queued"} => Stage(d) \in {"new", "queued"}
    BY <1>2, <1>4
  <2> QED
    BY <2>1, <2>2, <1>2 DEF Sound, WellFormed, CanAccept
<1> QED
  BY <1>10, <1>11, <1>12, <1>13, <1>14, <1>15, <1>16, <1>17, <1>18, <1>19, <1>20, <1>21
-----------------------------------------------------------------------------
(* The queues, the user, and the lives of the processes.                    *)

LEMMA JournalQueueKeeps ==
    ASSUME IInv, JournalQueue
    PROVE  IInv'
<1> USE TypeParts DEF IInv
<1>1. io \in Seq(Job) /\ journal \in Snapshot \cup {None}
  BY DEF TypeInv
<1>2. CASE JournalLoads
  <2>1. PICK ok \in BOOLEAN : Deliver(Head(io), ok, IF ok THEN journal ELSE None)
    BY <1>2 DEF JournalLoads
  <2> DEFINE snap == IF ok THEN journal ELSE None
  <2>2. snap \in Snapshot \cup {None} /\ (ok => snap = journal)
    BY <1>1
  <2>3. Deliver(Head(io), ok, snap)
    BY <2>1
  <2> HIDE DEF snap
  <2>4. Head(io).stage # "saving"
    BY <1>2 DEF JournalLoads, Loads
  <2> QED
    BY <1>2, <2>2, <2>3, <2>4, IoPops DEF JournalLoads
<1>3. CASE JournalSaves
  <2>1. PICK ok \in BOOLEAN : /\ Deliver(Head(io), ok, None)
                              /\ \/ journal' = Head(io).snap
                                 \/ ~ok /\ UNCHANGED journal
    BY <1>3 DEF JournalSaves
  <2>2. io # <<>> /\ Head(io).stage \in Saves /\ Head(io).stage \notin Loads
    BY <1>3 DEF JournalSaves, Saves, Loads
  <2> QED
    BY <1>3, <2>1, <2>2, IoPops DEF JournalSaves
<1>4. CASE ClearEnds
  <2>1. PICK ok \in BOOLEAN : /\ Deliver(Head(io), ok, None)
                              /\ journal' = IF ok THEN None ELSE journal
    BY <1>4 DEF ClearEnds
  <2>2. io # <<>> /\ Head(io).stage = "clearing"
    <3>1. io # <<>> /\ Head(io).begun /\ 1 \in DOMAIN io /\ Head(io) = io[1]
      BY <1>1, <1>4, Popped DEF ClearEnds
    <3> QED
      BY <3>1 DEF IoInv
  <2>3. "clearing" \notin Loads /\ "clearing" # "saving"
    BY DEF Loads
  <2> QED
    BY <1>4, <2>1, <2>2, <2>3, IoPops DEF ClearEnds
<1>5. CASE ClearBegins
  <2>1. io # <<>> /\ Head(io).stage = "clearing" /\ io' = [io EXCEPT ![1].begun = TRUE]
    BY <1>5 DEF ClearBegins
  <2>2. 1 \in DOMAIN io /\ Head(io) = io[1] /\ io[1] \in Job
    BY <1>1, <2>1, Popped
  <2> DEFINE j == [io[1] EXCEPT !.begun = TRUE]
  <2>3. /\ j \in Job /\ j.begun /\ j.call = io[1].call /\ j.stage = "clearing" /\ j.snap = io[1].snap
    BY <2>1, <2>2 DEF Job
  <2>4. io' = [io EXCEPT ![1] = j]
    BY <2>1
  <2> HIDE DEF j
  <2>5. /\ io' \in Seq(Job) /\ Len(io') = Len(io) /\ DOMAIN io' = DOMAIN io /\ io'[1] = j
        /\ \A i \in DOMAIN io : i # 1 => io'[i] = io[i]
    BY <1>1, <2>2, <2>3, <2>4
  <2>6. /\ \A i \in DOMAIN io : /\ io'[i].call = io[i].call /\ io'[i].stage = io[i].stage
                                /\ io'[i].snap = io[i].snap
                                /\ io[i].begun => io'[i].begun
                                /\ io'[i].begun => io'[i].stage = "clearing"
    BY <2>1, <2>2, <2>3, <2>5 DEF IoInv
  <2>7. UNCHANGED <<journal, calls, running, answer, requests, asked, live, helper, own>> /\ io' # <<>>
    BY <1>5, <2>2, <2>5 DEF ClearBegins
  <2>10. TypeInv'
    BY <2>5, <2>7 DEF TypeInv
  <2>11. SettingsInv'
    BY <2>7 DEF SettingsInv, CanAccept, WellFormed
  <2>12. StageInv'
    BY <2>1, <2>7 DEF StageInv, OnlyLate, Stage
  <2>13. IoInv'
    BY <2>5, <2>6, <2>7 DEF IoInv, Stage
  <2>14. RequestsInv'
    BY <2>5, <2>6, <2>7 DEF RequestsInv, Stage
  <2>15. SaveInv'
    BY <2>5, <2>6, <2>7 DEF SaveInv, WellFormed, CanAccept
  <2>16. ClearInv'
    BY <2>5, <2>6, <2>7 DEF ClearInv, Stage
  <2>17. KnowsInv'
    BY <2>5, <2>6, <2>7 DEF KnowsInv, Stage, Capture, WellFormed
  <2>18. OrderInv'
    BY <2>5, <2>6, <2>7 DEF OrderInv, Stage
  <2>19. HistoryInv'
    BY <2>7 DEF HistoryInv, Holds, Stage
  <2>20. AskedInv'
    BY <2>7 DEF AskedInv, Stage
  <2>21. LateInv'
    BY <2>5, <2>6, <2>7 DEF LateInv, OnTheWay, Sound, Stage, WellFormed, CanAccept
  <2> QED
    BY <2>20, <2>21, <2>10, <2>11, <2>12, <2>13, <2>14, <2>15, <2>16, <2>17, <2>18, <2>19
<1> QED
  BY <1>2, <1>3, <1>4, <1>5 DEF JournalQueue

\* The request the helper serves
LEMMA ServesFacts ==
    ASSUME IInv, NEW stage, IsNext(stage)
    PROVE  /\ requests # <<>> /\ Head(requests) \in Request /\ Head(requests).stage = stage
           /\ Head(requests).call \in Calls
           /\ stage \in {"applying", "restoring"} =>
                 LET snap == Head(requests).snap
                 IN  /\ snap # None /\ WellFormed(snap)
                     /\ snap.original \in Setting /\ snap.original.addr # Tun /\ snap.id \in Ids
           /\ stage = "applying" => Head(requests).snap = journal
           /\ stage = "restoring" => Sound(Head(requests).call, Head(requests).snap)
<1> USE TypeParts DEF IInv
<1>1. /\ requests # <<>> /\ Head(requests).stage = stage /\ requests \in Seq(Request)
  BY DEF IsNext, TypeInv
<1>2. 1 \in DOMAIN requests /\ Head(requests) = requests[1] /\ Head(requests) \in Request
  BY <1>1, Popped
<1>3. stage = "applying" => Head(requests).snap # None /\ Head(requests).snap = journal
  BY <1>1, <1>2 DEF RequestsInv
<1>4. stage = "restoring" => Sound(Head(requests).call, Head(requests).snap)
  BY <1>1, <1>2 DEF LateInv, OnTheWay
<1>5. stage \in {"applying", "restoring"} => Head(requests).snap # None /\ WellFormed(Head(requests).snap)
  BY <1>3, <1>4 DEF SettingsInv, Sound
<1>6. \A t : WellFormed(t) => t.original \in Setting /\ t.original.addr # Tun /\ t.id \in Ids
  BY DEF WellFormed
<1> QED
  BY <1>1, <1>2, <1>3, <1>4, <1>5, <1>6

LEMMA HelperCapturesKeeps ==
    ASSUME IInv, HelperCaptures
    PROVE  IInv'
<1> USE TypeParts DEF IInv
<1>1. IsNext("capturing")
  BY DEF HelperCaptures, Serves
<1>2. requests # <<>> /\ Head(requests).stage = "capturing" /\ Head(requests).call \in Calls
  BY <1>1, ServesFacts
<1>3. "capturing" # "applying" /\ "capturing" # "restoring"
  OBVIOUS
<1>4. live \in Setting /\ helper \in Helper
  BY DEF TypeInv
<1> DEFINE c == Head(requests).call
           snap == [id |-> c, original |-> live, previous |-> {}]
<1>5. CASE Serves("capturing", TRUE, snap) /\ helper' = [helper EXCEPT !.capture = c] /\ live' = live
  <2>1. snap \in Snapshot /\ snap.id = c /\ snap.original = live
    BY <1>2, <1>4 DEF Snapshot
  <2>2. live.addr = Tun => journal # None /\ \A i \in DOMAIN io : io[i].stage # "clearing"
    BY DEF SettingsInv, ClearInv
  <2> HIDE DEF snap
  <2>3. Capture(c, snap)
    BY <2>1, <2>2 DEF Capture
  <2>4. helper' \in Helper /\ helper'.write = helper.write
    BY <1>2, <1>4, <1>5 DEF Helper
  <2>5. SettingsInv'
    BY <1>5, <2>4 DEF SettingsInv, Serves, CanAccept, WellFormed
  <2>6. /\ requests' = Tail(requests) /\ Deliver(Head(requests), TRUE, snap)
        /\ UNCHANGED <<journal, calls, running, io, asked, own>> /\ live' \in Setting
    BY <1>4, <1>5 DEF Serves
  <2> QED
    BY <1>2, <1>3, <1>5, <2>1, <2>3, <2>4, <2>5, <2>6, RequestsPop
<1>6. CASE Serves("capturing", FALSE, None) /\ UNCHANGED <<live, helper>>
  <2>5. SettingsInv'
    BY <1>6 DEF SettingsInv, Serves, CanAccept, WellFormed
  <2>6. /\ requests' = Tail(requests) /\ Deliver(Head(requests), FALSE, None)
        /\ UNCHANGED <<journal, calls, running, io, asked, own>> /\ live' \in Setting /\ helper' \in Helper
    BY <1>4, <1>6 DEF Serves
  <2> QED
    BY <1>2, <1>6, <2>5, <2>6, RequestsPop
<1> QED
  BY <1>5, <1>6 DEF HelperCaptures

LEMMA HelperFlushesKeeps ==
    ASSUME IInv, HelperFlushes
    PROVE  IInv'
<1> USE TypeParts DEF IInv
<1>1. PICK s \in {"flushing", "refreshing"}, ok \in BOOLEAN : Serves(s, ok, None)
  BY DEF HelperFlushes
<1>2. UNCHANGED <<live, helper>> /\ live \in Setting /\ helper \in Helper
  BY DEF HelperFlushes, TypeInv
<1>3. /\ requests # <<>> /\ requests' = Tail(requests) /\ Deliver(Head(requests), ok, None)
      /\ UNCHANGED <<journal, calls, running, io, asked, own>> /\ Head(requests).stage = s
  BY <1>1 DEF Serves, IsNext
<1>4. SettingsInv'
  BY <1>2, <1>3 DEF SettingsInv, CanAccept, WellFormed
<1>5. s # "capturing" /\ s # "applying" /\ s # "restoring"
  OBVIOUS
<1> QED
  BY <1>2, <1>3, <1>4, <1>5, RequestsPop

\* What the user has under the tunnel's resolvers is what a matching snapshot says.
LEMMA MatchingIsOwn ==
    ASSUME IInv, journal # None, Matches(journal)
    PROVE  journal.original = own
<1> USE TypeParts DEF IInv
<1>1. journal \in Snapshot /\ journal.original \in Setting /\ own \in Setting /\ live \in Setting
  BY DEF TypeInv
<1>2. journal.original.addr # Tun
  BY DEF SettingsInv, WellFormed
<1>3. Override(journal.original).addr = Tun /\ Override(journal.original).domains = journal.original.domains
  BY <1>1 DEF Override, Setting
<1>4. CASE live.addr # Tun
  BY <1>3, <1>4 DEF Matches, SettingsInv
<1>5. CASE live.addr = Tun
  <2>1. live = Override(journal.original)
    BY <1>2, <1>5 DEF Matches
  <2>2. journal.original.addr = own.addr /\ journal.original.domains = own.domains
    BY <1>3, <1>5, <2>1 DEF SettingsInv
  <2> QED
    BY <1>1, <2>2 DEF Setting
<1> QED
  BY <1>4, <1>5

LEMMA HelperAppliesKeeps ==
    ASSUME IInv, HelperApplies
    PROVE  IInv'
<1> USE TypeParts DEF IInv
<1> DEFINE snap == Head(requests).snap
           tried == [helper EXCEPT !.write = snap.id, !.restored = FALSE]
<1>1. /\ requests # <<>> /\ Head(requests).stage = "applying"
      /\ snap # None /\ snap = journal /\ WellFormed(snap) /\ snap.original \in Setting
      /\ snap.original.addr # Tun /\ snap.id \in Ids
  BY ServesFacts DEF HelperApplies
<1>2. tried \in Helper /\ tried.write = snap.id /\ helper \in Helper
  BY <1>1 DEF TypeInv, Helper
<1>3. "applying" # "capturing" /\ "applying" # "restoring"
  OBVIOUS
<1>4. live \in Setting /\ own \in Setting
  BY DEF TypeInv
<1>5. ASSUME NEW ok \in BOOLEAN, Serves("applying", ok, None), MayApply(snap), Matches(snap),
             helper' = tried, live' = Override(snap.original)
      PROVE  IInv'
  <2>1. live' \in Setting /\ live'.addr = Tun /\ live'.domains = own.domains
    BY <1>1, <1>5, MatchingIsOwn DEF Override, Setting
  <2>2. snap.original = own
    BY <1>1, <1>5, MatchingIsOwn
  <2>3. /\ requests' = Tail(requests) /\ Deliver(Head(requests), ok, None)
        /\ UNCHANGED <<journal, calls, running, io, asked, own>>
    BY <1>5 DEF Serves
  <2>4. SettingsInv'
    BY <1>1, <1>2, <1>5, <2>1, <2>2, <2>3 DEF SettingsInv, CanAccept, WellFormed
  <2>5. helper' \in Helper /\ helper'.write = Head(requests).snap.id
    BY <1>2, <1>5
  <2> QED
    BY <1>1, <1>3, <2>1, <2>3, <2>4, <2>5, RequestsPop
<1>6. CASE Serves("applying", FALSE, None) /\ live' = live /\ helper' = IF MayApply(snap) THEN tried ELSE helper
  <2>1. helper' \in Helper /\ (helper' = helper \/ helper'.write = snap.id)
    BY <1>2, <1>6
  <2>2. /\ requests' = Tail(requests) /\ Deliver(Head(requests), FALSE, None)
        /\ UNCHANGED <<journal, calls, running, io, asked, own>>
    BY <1>6 DEF Serves
  <2>3. SettingsInv'
    BY <1>1, <1>6, <2>1, <2>2 DEF SettingsInv, CanAccept, WellFormed
  <2> QED
    BY <1>1, <1>3, <1>4, <1>6, <2>1, <2>2, <2>3, RequestsPop
<1> QED
  BY <1>5, <1>6 DEF HelperApplies

LEMMA HelperRestoresKeeps ==
    ASSUME IInv, HelperRestores
    PROVE  IInv' /\ (live.addr = Tun /\ live'.addr # Tun => live' = own')
<1> USE TypeParts DEF IInv
<1> DEFINE snap == Head(requests).snap
<1>1. /\ requests # <<>> /\ Head(requests).stage = "restoring"
      /\ snap # None /\ WellFormed(snap) /\ snap.original \in Setting
      /\ snap.original.addr # Tun /\ snap.id \in Ids /\ Sound(Head(requests).call, snap)
  BY ServesFacts DEF HelperRestores
<1>2. "restoring" # "capturing" /\ "restoring" # "applying"
  OBVIOUS
<1>3. live \in Setting /\ own \in Setting /\ helper \in Helper
  BY DEF TypeInv
<1>4. Accepts(snap) /\ IsOurs(snap.original) => snap.original = own
  <2> SUFFICES ASSUME Accepts(snap), IsOurs(snap.original)
               PROVE  snap.original = own
    OBVIOUS
  <2>1. live.addr = Tun /\ live.domains = snap.original.domains
    BY <1>1 DEF IsOurs, Override, Setting
  <2>2. CanAccept(snap)
    BY <1>1 DEF Accepts, CanAccept
  <2>3. snap.original.addr = own.addr
    BY <1>1, <2>1, <2>2 DEF Sound
  <2> QED
    BY <1>1, <1>3, <2>1, <2>3 DEF SettingsInv, Setting
<1>5. live.addr # Tun => live = own
  BY DEF SettingsInv
<1>6. PICK ok \in BOOLEAN :
        /\ Serves("restoring", ok, None)
        /\ live' = live \/ (Accepts(snap) /\ IsOurs(snap.original) /\ live' = snap.original)
        /\ helper' \in Helper /\ helper'.write = helper.write
        /\ ok => live'.addr # Tun
  <2>1. CASE /\ Accepts(snap) /\ (Settled(live, snap.original) \/ IsOurs(snap.original))
             /\ Serves("restoring", TRUE, None)
             /\ live' = IF Settled(live, snap.original) THEN live ELSE snap.original
             /\ helper' = [helper EXCEPT !.restored = TRUE]
    <3>1. helper' \in Helper /\ helper'.write = helper.write
      BY <1>3, <2>1 DEF Helper
    <3>2. /\ live' = live \/ (Accepts(snap) /\ IsOurs(snap.original) /\ live' = snap.original)
          /\ live'.addr # Tun
      BY <1>1, <2>1 DEF Settled
    <3> QED
      BY <2>1, <3>1, <3>2
  <2>2. CASE /\ Serves("restoring", FALSE, None) /\ UNCHANGED helper
             /\ \/ UNCHANGED live
                \/ Accepts(snap) /\ IsOurs(snap.original) /\ live' = snap.original
    BY <1>3, <2>2
  <2> QED
    BY <2>1, <2>2 DEF HelperRestores
<1>7. /\ requests' = Tail(requests) /\ Deliver(Head(requests), ok, None)
      /\ UNCHANGED <<journal, calls, running, io, asked, own>>
  BY <1>6 DEF Serves
<1>8. live' \in Setting /\ (live'.addr = Tun => live' = live) /\ (live'.addr # Tun => live' = own)
  BY <1>1, <1>3, <1>4, <1>5, <1>6
<1>9. SettingsInv'
  BY <1>6, <1>7, <1>8 DEF SettingsInv, CanAccept, WellFormed
<1>10. IInv'
  BY <1>1, <1>2, <1>6, <1>7, <1>8, <1>9, RequestsPop
<1> QED
  BY <1>7, <1>8, <1>10

\* A version arrives, and a restore joins the queue of the helper or is given up.
LEMMA VersionArrivesKeeps ==
    ASSUME IInv, VersionArrives
    PROVE  IInv'
<1> USE TypeParts DEF IInv
<1>1. PICK q \in asked :
          /\ asked' = asked \ {q}
          /\ \/ requests' = Append(requests, q) /\ UNCHANGED answer
             \/ Deliver(q, FALSE, None) /\ UNCHANGED requests
  BY DEF VersionArrives
<1>2. UNCHANGED <<journal, calls, running, io, live, helper, own>>
  BY DEF VersionArrives
<1>3. /\ q \in Request /\ q.stage = "restoring" /\ q.call \in Calls
      /\ q.call = running => /\ Stage(running) = "restoring" /\ answer = None /\ q.snap = calls[running].snap
                             /\ \A i \in DOMAIN requests : requests[i].call # running
      /\ q.call # running => Stage(q.call) \in Ended
  BY DEF AskedInv
<1>4. \A p \in asked' : p \in asked /\ (p.call = running => q.call # running)
  <2>1. ASSUME NEW p \in asked, p.call = running, q.call = running
        PROVE  p = q
    <3>1. p.stage = q.stage /\ p.call = q.call /\ p.snap = q.snap /\ p \in Request
      BY <2>1, <1>3 DEF AskedInv
    <3> QED
      BY <3>1, <1>3 DEF Request
  <2> QED
    BY <2>1, <1>1
<1>5. "restoring" \notin OnDisk \cup Alone
  BY DEF OnDisk, Alone, Writes, Loads, Saves
<1>6. \A c \in Calls : Stage(c)' = Stage(c) /\ Holds(c)' = Holds(c)
  BY <1>2 DEF Stage, Holds
<1>7. SettingsInv' /\ SaveInv' /\ ClearInv' /\ OrderInv'
  BY <1>2 DEF SettingsInv, SaveInv, ClearInv, OrderInv, WellFormed, CanAccept, Stage
<1>8. CASE requests' = Append(requests, q) /\ answer' = answer
  <2>1. /\ requests' \in Seq(Request) /\ Len(requests') = Len(requests) + 1
        /\ DOMAIN requests' = DOMAIN requests \cup {Len(requests) + 1} /\ Len(requests) + 1 \notin DOMAIN requests
        /\ requests'[Len(requests) + 1] = q
        /\ \A i \in DOMAIN requests : requests'[i] = requests[i] /\ i # Len(requests) + 1
    BY <1>3, <1>8, Appended DEF TypeInv
  <2>2. \A i \in DOMAIN requests : i \in Nat /\ i < Len(requests) + 1
    BY DEF TypeInv
  <2>3. TypeInv'
    BY <1>2, <1>4, <1>8, <2>1 DEF TypeInv
  <2>4. OnlyLate /\ q.call # running => OnlyLate'
    BY <1>2, <1>3, <2>1 DEF OnlyLate
  <2>5. StageInv'
    BY <1>2, <1>3, <1>5, <1>6, <1>8, <2>4 DEF StageInv, Stage
  <2>6. IoInv' /\ KnowsInv'
    BY <1>2, <1>8 DEF IoInv, KnowsInv, Capture, WellFormed, Stage
  <2>7. RequestsInv'
    BY <1>2, <1>3, <1>8, <2>1, <2>2 DEF RequestsInv, Stage
  <2>8. AskedInv'
    BY <1>2, <1>4, <1>6, <1>8, <2>1 DEF AskedInv, Stage
  <2>9. LateInv'
    <3>1. \A p \in Request : OnTheWay(p)' => OnTheWay(p)
      BY <1>4, <2>1 DEF OnTheWay
    <3> QED
      BY <3>1, <1>2 DEF LateInv, Sound, WellFormed, CanAccept, Stage
  <2>10. HistoryInv'
    BY <1>2, <1>3, <1>6, <2>1 DEF HistoryInv
  <2> QED
    BY <1>7, <2>3, <2>5, <2>6, <2>7, <2>8, <2>9, <2>10
<1>9. CASE Deliver(q, FALSE, None) /\ requests' = requests
  <2> DEFINE no == [ok |-> FALSE, snap |-> None]
  <2>1. answer' = answer \/ (running = q.call /\ answer' = no)
    BY <1>9 DEF Deliver
  <2>2. no \in Answer /\ ~no.ok
    BY DEF Answer
  <2> HIDE DEF no
  <2>3. TypeInv'
    BY <1>2, <1>4, <1>9, <2>1, <2>2 DEF TypeInv
  <2>4. StageInv'
    <3>1. OnlyLate' <=> OnlyLate
      BY <1>2, <1>9 DEF OnlyLate
    <3>2. answer' = answer => StageInv'
      BY <3>1, <1>2, <1>6 DEF StageInv, Stage
    <3>3. running = q.call /\ answer' = no => StageInv'
      BY <3>1, <1>2, <1>3, <1>5, <1>6, <2>2 DEF StageInv, Stage
    <3> QED
      BY <2>1, <3>2, <3>3
  <2>5. IoInv'
    <3>1. \A i \in DOMAIN io : io[i].stage \in OnDisk
      BY DEF Job, OnDisk, Writes
    <3> QED
      BY <3>1, <1>2, <1>3, <1>5, <1>6, <2>1 DEF IoInv, Stage
  <2>6. KnowsInv'
    <3>1. answer' = answer => KnowsInv'
      BY <1>2 DEF KnowsInv, Capture, WellFormed, Stage
    <3>2. running = q.call /\ answer' = no => KnowsInv'
      BY <1>2, <1>3, <1>5, <1>6, <2>2 DEF KnowsInv, Stage, Undone, Loads
    <3> QED
      BY <2>1, <3>1, <3>2
  <2>7. RequestsInv'
    BY <1>2, <1>3, <1>9, <2>1 DEF RequestsInv, Stage
  <2>8. AskedInv'
    BY <1>2, <1>4, <1>6, <1>9, <2>1 DEF AskedInv, Stage
  <2>9. LateInv'
    <3>1. \A p \in Request : OnTheWay(p)' => OnTheWay(p)
      BY <1>4, <1>9 DEF OnTheWay
    <3> QED
      BY <3>1, <1>2 DEF LateInv, Sound, WellFormed, CanAccept, Stage
  <2>10. HistoryInv'
    BY <1>2, <1>6, <1>9 DEF HistoryInv
  <2> QED
    BY <1>7, <2>3, <2>4, <2>5, <2>6, <2>7, <2>8, <2>9, <2>10
<1> QED
  BY <1>1, <1>8, <1>9

\* The user never sets the tunnel's resolver.
LEMMA UserChangesFacts ==
    ASSUME IInv, UserChanges
    PROVE  /\ live' \in Setting /\ own' \in Setting /\ own'.addr \in Addresses
           /\ live'.addr = Tun => live.addr = Tun /\ own'.addr = own.addr /\ live'.domains = own'.domains
           /\ live'.addr # Tun => live' = own'
<1> USE TypeParts DEF IInv
<1>1. live \in Setting /\ own \in Setting /\ own.addr \in Addresses
  BY DEF TypeInv, SettingsInv
<1>2. PICK s \in Profiles \cup (IF live.addr = Tun THEN {[live EXCEPT !.domains = d] : d \in Domains}
                                ELSE {}) :
        /\ live' = s
        /\ own' = IF s.addr = Tun THEN [own EXCEPT !.domains = s.domains] ELSE s
  BY DEF UserChanges
<1>3. CASE s \in Profiles
  <2>1. /\ s = [addr |-> s.addr, domains |-> s.domains] /\ s.addr # Tun
        /\ s.addr \in Addresses /\ s.domains \in Domains
    BY <1>3, TunDNSAssumption DEF TunDNSAssumption, Addresses, Domains
  <2>2. s \in Setting
    BY <2>1 DEF Setting
  <2> QED
    BY <1>2, <2>1, <2>2
<1>4. CASE live.addr = Tun /\ \E d \in Domains : s = [live EXCEPT !.domains = d]
  <2>1. s \in Setting /\ s.addr = Tun /\ s.domains \in Domains
    BY <1>1, <1>4 DEF Setting
  <2>2. /\ [own EXCEPT !.domains = s.domains] \in Setting
        /\ [own EXCEPT !.domains = s.domains].addr = own.addr
        /\ [own EXCEPT !.domains = s.domains].domains = s.domains
    BY <1>1, <2>1 DEF Setting
  <2> QED
    BY <1>1, <1>2, <1>4, <2>1, <2>2
<1> QED
  BY <1>2, <1>3, <1>4

LEMMA UserChangesKeeps ==
    ASSUME IInv, UserChanges
    PROVE  IInv'
<1> USE TypeParts DEF IInv
<1>1. UNCHANGED <<journal, calls, running, answer, io, requests, asked, helper>>
  BY DEF UserChanges
<1>2. /\ live' \in Setting /\ own' \in Setting /\ own'.addr \in Addresses
      /\ live'.addr = Tun => live.addr = Tun /\ own'.addr = own.addr /\ live'.domains = own'.domains
      /\ live'.addr # Tun => live' = own'
  BY UserChangesFacts
<1>10. TypeInv'
  BY <1>1, <1>2 DEF TypeInv
<1>11. SettingsInv'
  BY <1>1, <1>2 DEF SettingsInv, CanAccept, WellFormed
<1>12. StageInv'
  BY <1>1 DEF StageInv, OnlyLate, Stage
<1>13. IoInv'
  BY <1>1 DEF IoInv, Stage
<1>14. RequestsInv'
  BY <1>1 DEF RequestsInv, Stage
<1>15. SaveInv'
  BY <1>1, <1>2 DEF SaveInv, WellFormed, CanAccept
<1>16. ClearInv'
  BY <1>1, <1>2 DEF ClearInv, Stage
<1>17. KnowsInv'
  BY <1>1, <1>2 DEF KnowsInv, Stage, Capture, WellFormed
<1>18. OrderInv'
  BY <1>1 DEF OrderInv, Stage
<1>19. HistoryInv'
  BY <1>1 DEF HistoryInv, Holds, Stage
<1>20. AskedInv'
  BY <1>1 DEF AskedInv, Stage
<1>21. LateInv'
  BY <1>1, <1>2 DEF LateInv, OnTheWay, Sound, Stage, WellFormed, CanAccept
<1> QED
  BY <1>20, <1>21, <1>10, <1>11, <1>12, <1>13, <1>14, <1>15, <1>16, <1>17, <1>18, <1>19

LEMMA CrashKeeps ==
    ASSUME IInv, Crash
    PROVE  IInv'
<1> USE TypeParts DEF IInv
<1>1. /\ running' = 0 /\ answer' = None /\ io' = <<>> /\ asked' = {} /\ (requests' = requests \/ requests' = <<>>)
      /\ live' = live /\ journal' = journal /\ helper' = helper /\ own' = own
  BY DEF Crash, outside
<1>2. \A c \in Calls : calls'[c] \in Call /\ (calls'[c] = calls[c] \/ calls'[c].stage = "failed")
                       /\ (Stage(c) = "new" => calls'[c] = calls[c])
                       /\ (Stage(c) # "new" => calls'[c].stage = "failed")
  <2> SUFFICES ASSUME NEW c \in Calls
               PROVE  /\ calls'[c] \in Call /\ (calls'[c] = calls[c] \/ calls'[c].stage = "failed")
                      /\ (Stage(c) = "new" => calls'[c] = calls[c])
                      /\ (Stage(c) # "new" => calls'[c].stage = "failed")
    OBVIOUS
  <2>1. Done("none", "failed") \in Call /\ Done("none", "failed").stage = "failed"
    BY DEF Done, Call, Ended
  <2> QED
    BY <2>1 DEF Crash
<1>3. calls' \in [Calls -> Call]
  BY <1>2 DEF Crash
<1>4. /\ \A c \in Calls : Stage(c)' \in {"new", "failed"} /\ (Stage(c)' = "new" <=> Stage(c) = "new")
      /\ \A c \in Calls : Stage(c)' \notin Waiting /\ Stage(c)' \notin {"ok", "nothing"} /\ Stage(c)' # "queued"
  BY <1>2 DEF Stage, Waiting, Loads, Saves, Asks
<1>5. \A i \in DOMAIN requests : requests[i].call \in Calls /\ calls'[requests[i].call].stage = "failed"
  <2>1. \A i \in DOMAIN requests : requests[i].call \in Calls
    BY DEF Request
  <2>2. \A i \in DOMAIN requests : Stage(requests[i].call) # "new"
    BY <2>1 DEF RequestsInv, StageInv, Ended, Waiting, Loads, Saves, Asks
  <2> QED
    BY <2>1, <2>2, <1>2 DEF Stage
<1>6. DOMAIN io' = {} /\ io' \in Seq(Job)
  BY <1>1
<1>7. requests' \in Seq(Request) /\ (requests' = requests \/ DOMAIN requests' = {})
  <2>1. CASE requests' = requests
    BY <2>1 DEF TypeInv
  <2>2. CASE requests' = <<>>
    BY <2>2
  <2> QED
    BY <1>1, <2>1, <2>2
<1>10. TypeInv'
  BY <1>1, <1>3, <1>6, <1>7 DEF TypeInv
<1>11. SettingsInv'
  BY <1>1 DEF SettingsInv, CanAccept, WellFormed
<1>12. StageInv'
  BY <1>1, <1>4 DEF StageInv
<1>13. IoInv'
  BY <1>6 DEF IoInv
<1>14. RequestsInv'
  BY <1>1, <1>5, <1>6, <1>7 DEF RequestsInv, Ended, Stage
<1>15. SaveInv'
  BY <1>6 DEF SaveInv
<1>16. ClearInv'
  BY <1>6 DEF ClearInv
<1>17. KnowsInv'
  BY <1>1 DEF KnowsInv
<1>18. OrderInv'
  BY <1>1, <1>2, <1>4, <1>6 DEF OrderInv, Stage
<1>19. HistoryInv'
  BY <1>4 DEF HistoryInv, Holds
<1>20. AskedInv'
  BY <1>1 DEF AskedInv
<1>21. LateInv'
  <2> SUFFICES ASSUME NEW p \in Request, p.stage = "restoring", OnTheWay(p)'
               PROVE  Sound(p.call, p.snap)'
    BY DEF LateInv
  <2>1. Sound(p.call, p.snap)
    BY <1>1, <1>7 DEF LateInv, OnTheWay
  <2> QED
    BY <2>1, <1>1, <1>4, <1>6 DEF Sound, WellFormed, CanAccept
<1> QED
  BY <1>20, <1>21, <1>10, <1>11, <1>12, <1>13, <1>14, <1>15, <1>16, <1>17, <1>18, <1>19

LEMMA HelperRestartsKeeps ==
    ASSUME IInv, HelperRestarts
    PROVE  IInv'
<1> USE TypeParts DEF IInv
<1>1. UNCHANGED <<live, journal, calls, running, answer, io, own>>
  BY DEF HelperRestarts
<1>2. /\ requests' = <<>> /\ requests' \in Seq(Request) /\ DOMAIN requests' = {} /\ asked' = {}
      /\ helper' \in Helper /\ helper'.write = None
  BY DEF HelperRestarts, FreshHelper, Helper
<1>10. TypeInv'
  BY <1>1, <1>2 DEF TypeInv
<1>11. SettingsInv'
  BY <1>1, <1>2 DEF SettingsInv, CanAccept, WellFormed
<1>12. StageInv'
  BY <1>1, <1>2 DEF StageInv, OnlyLate, Stage
<1>13. IoInv'
  BY <1>1 DEF IoInv, Stage
<1>14. RequestsInv'
  BY <1>2 DEF RequestsInv
<1>15. SaveInv'
  BY <1>1, <1>2 DEF SaveInv, WellFormed, CanAccept
<1>16. ClearInv'
  BY <1>1 DEF ClearInv, Stage
<1>17. KnowsInv'
  BY <1>1, <1>2 DEF KnowsInv, Stage, Capture, WellFormed
<1>18. OrderInv'
  BY <1>1 DEF OrderInv, Stage
<1>19. HistoryInv'
  BY <1>2 DEF HistoryInv
<1>20. AskedInv' /\ LateInv'
  BY <1>2 DEF AskedInv, LateInv, OnTheWay
<1> QED
  BY <1>20, <1>10, <1>11, <1>12, <1>13, <1>14, <1>15, <1>16, <1>17, <1>18, <1>19
-----------------------------------------------------------------------------
(* Every reachable state.                                                   *)

\* The invariant holds initially, after a clean end and after an interrupted session.
LEMMA InitInv == Init => IInv
<1> SUFFICES ASSUME Init PROVE IInv
  OBVIOUS
<1>1. /\ own \in Profiles /\ running = 0 /\ answer = None /\ io = <<>> /\ requests = <<>> /\ asked = {}
      /\ calls = [c \in Calls |-> Done("none", "new")]
  BY DEF Init
<1>2. /\ own = [addr |-> own.addr, domains |-> own.domains] /\ own.addr # Tun
      /\ own.addr \in Addresses /\ own.domains \in Domains
  BY <1>1, TunDNSAssumption DEF TunDNSAssumption, Addresses, Domains
<1>3. own \in Setting
  BY <1>2 DEF Setting
<1>4. [own EXCEPT !.addr = Tun] \in Setting /\ [own EXCEPT !.addr = Tun].addr = Tun
      /\ [own EXCEPT !.addr = Tun].domains = own.domains
  BY <1>3 DEF Setting
<1>5. /\ MaxCalls \in Nat /\ MaxPredecessors \in Nat /\ None \notin Nat /\ None \notin Snapshot
      /\ 0 \in Ids /\ \A c \in Calls : c \in Nat /\ c > 0
  BY TunDNSAssumption, NoneAssumption DEF TunDNSAssumption, NoneAssumption, Ids, Calls
<1>6. Done("none", "new") \in Call /\ Done("none", "new").stage = "new" /\ Done("none", "new").kind = "none"
  BY DEF Done, Call
<1>7. io \in Seq(Job) /\ requests \in Seq(Request) /\ DOMAIN io = {} /\ DOMAIN requests = {}
  BY <1>1
<1>8. FreshHelper \in Helper
  BY DEF FreshHelper, Helper
<1> DEFINE first == [id |-> 0, original |-> own, previous |-> {}]
           wrote == [capture |-> 0, write |-> 0, restored |-> FALSE]
<1>9. first \in Snapshot /\ WellFormed(first) /\ first.original = own /\ first.id = 0 /\ first.previous = {}
  <2>1. first \in Snapshot
    BY <1>3, <1>5 DEF Snapshot
  <2>2. Fits({})
    BY <1>5, FS_EmptySet DEF Fits
  <2> QED
    BY <1>2, <2>1, <2>2 DEF WellFormed
<1>10. wrote \in Helper /\ wrote.write = 0
  BY <1>5 DEF Helper
<1> HIDE DEF first, wrote
<1>11. \/ live = own /\ journal = None /\ helper = FreshHelper
       \/ live = [own EXCEPT !.addr = Tun] /\ journal = first /\ helper = wrote
  BY DEF Init, first, wrote
<1>12. TypeInv
  BY <1>1, <1>3, <1>4, <1>6, <1>7, <1>8, <1>9, <1>10, <1>11 DEF TypeInv
<1>13. SettingsInv
  BY <1>2, <1>4, <1>5, <1>9, <1>10, <1>11 DEF SettingsInv, CanAccept
<1>14. \A c \in Calls : Stage(c) = "new" /\ calls[c].kind = "none"
  BY <1>1, <1>6 DEF Stage
<1>15. StageInv
  BY <1>1, <1>14 DEF StageInv, Waiting, Loads, Saves, Asks
<1>16. IoInv /\ RequestsInv /\ SaveInv /\ ClearInv
  BY <1>7 DEF IoInv, RequestsInv, SaveInv, ClearInv
<1>17. KnowsInv
  BY <1>1 DEF KnowsInv
<1>18. OrderInv
  BY <1>1, <1>5, <1>7, <1>9, <1>11, <1>14 DEF OrderInv
<1>19. HistoryInv
  BY <1>14 DEF HistoryInv, Holds
<1>20. AskedInv /\ LateInv
  BY <1>1, <1>7 DEF AskedInv, LateInv, OnTheWay
<1> QED
  BY <1>20, <1>12, <1>13, <1>15, <1>16, <1>17, <1>18, <1>19 DEF IInv

LEMMA StutterInv ==
    ASSUME IInv, UNCHANGED vars
    PROVE  IInv'
BY DEF IInv, TypeInv, SettingsInv, StageInv, IoInv, RequestsInv, SaveInv, ClearInv, KnowsInv,
       OrderInv, HistoryInv, AskedInv, LateInv, OnlyLate, OnTheWay, Sound, Holds, Stage, Capture,
       WellFormed, CanAccept, vars

\* Every step keeps the invariant.
LEMMA NextInv ==
    ASSUME IInv, [Next]_vars
    PROVE  IInv'
<1>1. CASE \E c \in Calls : Submit(c) \/ Start(c) \/ Turn(c)
  BY <1>1, SubmitKeeps, StartKeeps, TurnKeeps
<1>2. CASE JournalQueue
  BY <1>2, JournalQueueKeeps
<1>3. CASE HelperQueue
  BY <1>3, HelperCapturesKeeps, HelperAppliesKeeps, HelperRestoresKeeps, HelperFlushesKeeps,
     VersionArrivesKeeps DEF HelperQueue
<1>4. CASE UserChanges
  BY <1>4, UserChangesKeeps
<1>5. CASE Crash
  BY <1>5, CrashKeeps
<1>6. CASE HelperRestarts
  BY <1>6, HelperRestartsKeeps
<1>7. CASE UNCHANGED vars
  BY <1>7, StutterInv
<1> QED
  BY <1>1, <1>2, <1>3, <1>4, <1>5, <1>6, <1>7 DEF Next

\* The inductive invariant holds of the controller, the helper and the journal in
\* every reachable state, over timeouts, late writes, crashes and helper restarts.
THEOREM TransactionCorrect == Spec => []IInv
BY InitInv, NextInv, PTL DEF Spec

\* Types; the lineage of the journal stays within maximumPredecessorTransactionIDs.
THEOREM TypeCorrect == Spec => []TypeOK
<1>1. IInv => TypeOK
  <2> SUFFICES ASSUME IInv PROVE TypeOK
    OBVIOUS
  <2>1. journal # None => Cardinality(journal.previous) <= MaxPredecessors /\ journal.id \notin journal.previous
    BY DEF IInv, SettingsInv, WellFormed, Fits
  <2> QED
    BY <2>1 DEF IInv, TypeInv, StageInv, TypeOK
<1> QED
  BY <1>1, TransactionCorrect, PTL

\* Whenever the resolvers are the tunnel's, the journal on disk is there and the
\* helper would accept it for a restore.
THEOREM StillRestorableCorrect == Spec => []StillRestorable
<1>1. IInv => StillRestorable
  BY DEF IInv, SettingsInv, StillRestorable, CanAccept, Accepts, WellFormed
<1> QED
  BY <1>1, TransactionCorrect, PTL
-----------------------------------------------------------------------------
(* What a step may do.                                                      *)

\* Only the journal, only the resolvers, or both by the user
LEMMA OneThingChanges ==
    ASSUME Next
    PROVE  UNCHANGED <<live, own>> \/ UNCHANGED <<journal, own>> \/ UserChanges
<1>1. CASE \E c \in Calls : Submit(c) \/ Start(c) \/ Turn(c)
  BY <1>1 DEF Submit, Start, Turn, outside, Captured, Loaded, Saved, Applied, Compared, Pruned, Flushed,
              Fetched, Restored, Rechecked, Cleared, ClearTimesOut, Refreshed, Fails
<1>2. CASE JournalQueue
  BY <1>2 DEF JournalQueue, JournalLoads, JournalSaves, ClearBegins, ClearEnds
<1>3. CASE HelperQueue
  BY <1>3 DEF HelperQueue, HelperCaptures, HelperApplies, HelperRestores, HelperFlushes, VersionArrives, Serves
<1>4. CASE Crash \/ HelperRestarts
  BY <1>4 DEF Crash, HelperRestarts, outside
<1> QED
  BY <1>1, <1>2, <1>3, <1>4 DEF Next

\* Each step that takes the tunnel's resolvers away leaves exactly what the user
\* would have by now, and none takes anything else away under them.
THEOREM RestoresExactlyCorrect == Spec => RestoresExactly
<1>1. ASSUME IInv, IInv'
      PROVE  /\ live'.addr = Tun => live'.domains = own'.domains
             /\ live.addr = Tun /\ live'.addr # Tun => live' = own'
  BY <1>1 DEF IInv, SettingsInv
<1>2. ASSUME IInv, IInv', [Next]_vars
      PROVE  [/\ live'.addr = Tun => live'.domains = own'.domains
              /\ live.addr = Tun /\ live'.addr # Tun => live' = own']_vars
  BY <1>1, <1>2
<1> QED
  BY <1>2, TransactionCorrect, PTL DEF Spec, RestoresExactly

\* A step changes the journal or the resolvers; the invariant before and after it
\* says which step of the promise that is.
LEMMA StepKeepsPromise ==
    ASSUME IInv, IInv', Next
    PROVE  [Promise!Next]_(Promise!vars)
<1> DEFINE over == live.addr = Tun
           evid == IF journal = None THEN None ELSE journal.original.addr
<1>1. /\ own.addr \in Addresses /\ own'.addr \in Addresses
      /\ live.addr = Tun => journal # None /\ journal.original.addr = own.addr
      /\ live'.addr = Tun => journal' # None /\ journal'.original.addr = own'.addr
      /\ journal' # None => journal'.original.addr \in Addresses
  BY DEF IInv, SettingsInv, WellFormed
<1>2. CASE UNCHANGED <<live, own>> /\ journal' = None
  <2>1. Promise!Forget
    BY <1>1, <1>2 DEF Promise!Forget
  <2> QED
    BY <2>1 DEF Promise!Next
<1>3. CASE UNCHANGED <<live, own>> /\ journal' # None
  <2>1. Promise!Record
    BY <1>1, <1>3 DEF Promise!Record
  <2> QED
    BY <2>1 DEF Promise!Next
<1>4. CASE UNCHANGED <<journal, own>> /\ live'.addr = Tun
  <2>1. Promise!Override
    BY <1>1, <1>4 DEF Promise!Override
  <2> QED
    BY <2>1 DEF Promise!Next
<1>5. CASE UNCHANGED <<journal, own>> /\ live'.addr # Tun
  <2>1. Promise!Restore
    BY <1>1, <1>5 DEF Promise!Restore
  <2> QED
    BY <2>1 DEF Promise!Next
<1>6. CASE UserChanges
  <2>1. journal' = journal
    BY <1>6 DEF UserChanges
  <2>2. live'.addr = Tun => live.addr = Tun /\ own'.addr = own.addr
    BY <1>6, UserChangesFacts
  <2>3. CASE live'.addr = Tun
    BY <2>1, <2>2, <2>3 DEF Promise!vars
  <2>4. CASE live'.addr # Tun
    <3>1. Promise!OwnerSets
      BY <1>1, <2>1, <2>4 DEF Promise!OwnerSets
    <3> QED
      BY <3>1 DEF Promise!Next
  <2> QED
    BY <2>3, <2>4
<1> QED
  BY <1>2, <1>3, <1>4, <1>5, <1>6, OneThingChanges

\* The transaction implements the promise of a write-ahead journal: each of its
\* steps is a step of RecoverableOverride or leaves its variables alone.
THEOREM PromiseImplemented == Spec => KeepsPromise
<1>1. Init => Promise!Init
  <2> SUFFICES ASSUME Init PROVE Promise!Init
    OBVIOUS
  <2>1. IInv
    BY InitInv
  <2>2. own.addr \in Addresses /\ (live.addr = Tun => journal # None /\ journal.original.addr = own.addr)
    BY <2>1 DEF IInv, SettingsInv
  <2>3. live.addr # Tun => journal = None
    <3>1. own \in Setting
      BY <2>1 DEF IInv, TypeInv
    <3> QED
      BY <3>1 DEF Init, Setting
  <2> QED
    BY <2>2, <2>3 DEF Promise!Init
<1>2. ASSUME IInv, IInv', [Next]_vars
      PROVE  [Promise!Next]_(Promise!vars)
  <2>1. CASE UNCHANGED vars
    BY <2>1 DEF vars, Promise!vars
  <2> QED
    BY <1>2, <2>1, StepKeepsPromise
<1> QED
  BY <1>1, <1>2, TransactionCorrect, PTL DEF Spec, KeepsPromise, Promise!Spec

\* The promise itself keeps every override recoverable: the value on record is the
\* owner's while the override is in force.
THEOREM PromiseKept == Promise!Spec => []Promise!Recoverable
<1>1. Promise!Init => Promise!Recoverable
  BY DEF Promise!Init, Promise!Recoverable
<1>2. Promise!Recoverable /\ [Promise!Next]_(Promise!vars) => Promise!Recoverable'
  <2> SUFFICES ASSUME Promise!Recoverable, [Promise!Next]_(Promise!vars)
               PROVE  Promise!Recoverable'
    OBVIOUS
  <2>1. CASE Promise!Record
    BY <2>1 DEF Promise!Record, Promise!Recoverable
  <2>2. CASE Promise!Forget
    BY <2>2 DEF Promise!Forget, Promise!Recoverable
  <2>3. CASE Promise!Override
    BY <2>3 DEF Promise!Override, Promise!Recoverable
  <2>4. CASE Promise!Restore
    BY <2>4 DEF Promise!Restore, Promise!Recoverable
  <2>5. CASE Promise!OwnerSets
    BY <2>5 DEF Promise!OwnerSets, Promise!Recoverable
  <2>6. CASE UNCHANGED Promise!vars
    BY <2>6 DEF Promise!vars, Promise!Recoverable
  <2> QED
    BY <2>1, <2>2, <2>3, <2>4, <2>5, <2>6 DEF Promise!Next
<1> QED
  BY <1>1, <1>2, PTL DEF Promise!Spec

\* So whenever the tunnel's resolvers are in force, the addresses on record are
\* those of the user.
THEOREM UserRecoverable == Spec => []Promise!Recoverable
BY PromiseImplemented, PromiseKept, PTL DEF KeepsPromise

\* Only the end of a clear leaves no journal.
LEMMA ClearsStep ==
    ASSUME IInv, Next, journal # None, journal' = None
    PROVE  Stage(Head(io).call) \in {"clearing", "unsettled"} /\ journal.id < Head(io).call
<1> USE TypeParts DEF IInv
<1>1. JournalSaves \/ ClearEnds
  <2>1. CASE \E c \in Calls : Submit(c) \/ Start(c) \/ Turn(c)
    BY <2>1 DEF Submit, Start, Turn, outside, Captured, Loaded, Saved, Applied, Compared, Pruned, Flushed,
                Fetched, Restored, Rechecked, Cleared, ClearTimesOut, Refreshed, Fails
  <2>2. CASE HelperQueue
    BY <2>2 DEF HelperQueue, HelperCaptures, HelperApplies, HelperRestores, HelperFlushes, VersionArrives, Serves
  <2>3. CASE Crash \/ HelperRestarts \/ UserChanges
    BY <2>3 DEF Crash, HelperRestarts, UserChanges, outside
  <2>4. CASE JournalQueue
    BY <2>4 DEF JournalQueue, JournalLoads, ClearBegins
  <2> QED
    BY <2>1, <2>2, <2>3, <2>4 DEF Next
<1>2. io # <<>> /\ 1 \in DOMAIN io /\ Head(io) = io[1]
  <2>1. io # <<>> /\ io \in Seq(Job)
    BY <1>1 DEF JournalSaves, ClearEnds, TypeInv
  <2> QED
    BY <2>1, Popped
<1>3. ~JournalSaves
  BY <1>2 DEF JournalSaves, SaveInv
<1>4. io[1].stage = "clearing"
  BY <1>1, <1>2, <1>3 DEF ClearEnds, IoInv
<1> QED
  BY <1>2, <1>4 DEF ClearInv

\* The journal is cleared only by a restore that asked for it after the transaction
\* the journal is of, and that has not reported that it is not cleared.
THEOREM ClearsAsReportedCorrect == Spec => ClearsAsReported
<1>1. ASSUME IInv, [Next]_vars
      PROVE  [journal # None /\ journal' = None =>
                /\ Stage(Head(io).call) \in {"clearing", "unsettled"}
                /\ journal.id < Head(io).call]_vars
  BY <1>1, ClearsStep
<1> QED
  BY <1>1, TransactionCorrect, PTL DEF Spec, ClearsAsReported

\* A restore that is over was successful only over resolvers that are the user's.
LEMMA ReportsRestored ==
    ASSUME IInv, Next, NEW c \in Calls, calls'[c].kind \in Restores, Stage(c)' \in Succeeded,
           Stage(c) \notin Succeeded
    PROVE  live.addr # Tun
<1> USE TypeParts DEF IInv, Succeeded
<1>1. calls[c] # calls'[c] /\ calls'[c].stage \in Succeeded /\ calls \in [Calls -> Call]
  BY DEF Stage, TypeInv
<1>2. ASSUME NEW d \in Calls, NEW stage \in Waiting, NEW snap, calls' = At(d, stage, snap)
      PROVE  FALSE
  <2>1. calls'[d].stage = stage /\ \A e \in Calls : e # d => calls'[e] = calls[e]
    BY <1>1, <1>2 DEF At, Call
  <2> QED
    BY <1>1, <2>1 DEF Waiting, Loads, Saves, Asks
<1>3. ASSUME NEW d \in Calls, NEW stage \in Asks, NEW snap, Ask(d, stage, snap)
      PROVE  FALSE
  BY <1>2, <1>3 DEF Ask, Waiting
<1>4. ASSUME NEW d \in Calls, NEW stage \in OnDisk, NEW snap, NEW written, Enqueue(d, stage, snap, written)
      PROVE  FALSE
  BY <1>2, <1>4 DEF Enqueue, Waiting, OnDisk, Writes
<1>5. ASSUME NEW d \in Calls, NEW kind, NEW result, calls' = [calls EXCEPT ![d] = Done(kind, result)]
      PROVE  c = d /\ result \in Succeeded /\ kind \in Restores
  <2>1. calls'[d] = Done(kind, result) /\ \A e \in Calls : e # d => calls'[e] = calls[e]
    BY <1>1, <1>5
  <2> QED
    BY <1>1, <2>1 DEF Done, Restores
<1>6. ASSUME NEW d \in Calls, NEW result, Finish(d, result)
      PROVE  c = d /\ result \in Succeeded /\ calls[c].kind \in Restores
  BY <1>5, <1>6 DEF Finish
<1>7. ASSUME NEW d \in Calls, Submit(d)
      PROVE  live.addr # Tun
  <2>1. PICK k \in {"apply"} \cup Restores, stage \in {"queued", "failed"} :
            calls' = [calls EXCEPT ![d] =
                         IF k \in Restores /\ journal = None THEN Done(k, "nothing")
                         ELSE [Done(k, stage) EXCEPT !.kind = IF stage = "queued" \/ k = "close" THEN k ELSE @]]
    BY <1>7 DEF Submit
  <2>2. c = d
    BY <1>1, <2>1
  <2>3. CASE k \in Restores /\ journal = None
    BY <2>3 DEF SettingsInv
  <2>4. CASE ~(k \in Restores /\ journal = None)
    <3>1. calls'[c] = [Done(k, stage) EXCEPT !.kind = IF stage = "queued" \/ k = "close" THEN k ELSE @]
      BY <1>1, <2>1, <2>2, <2>4
    <3>2. calls'[c].stage = stage
      <4>1. [Done(k, stage) EXCEPT !.kind = IF stage = "queued" \/ k = "close" THEN k ELSE @].stage = stage
        BY DEF Done
      <4> QED
        BY <3>1, <4>1
    <3> QED
      BY <1>1, <3>2
  <2> QED
    BY <2>3, <2>4
<1>8. ASSUME NEW d \in Calls, Start(d)
      PROVE  FALSE
  BY <1>3, <1>4, <1>6, <1>8 DEF Start, loadJournal, Asks, OnDisk, Loads
<1>9. ASSUME NEW d \in Calls, Turn(d)
      PROVE  live.addr # Tun
  <2>1. CASE Fetched(d)
    <3>1. \A snap : AskVersion(d, snap) => FALSE
      BY <1>2 DEF AskVersion, Waiting, Asks
    <3> QED
      BY <2>1, <3>1, FetchedKeeps DEF Fetched
  <2>2. CASE Refreshed(d)
    BY <2>2, RefreshedKeeps
  <2>3. CASE ClearTimesOut(d)
    BY <2>3, ClearingFacts DEF ClearTimesOut
  <2>4. CASE Captured(d) \/ Restored(d)
    BY <2>4, <1>4 DEF Captured, Restored, loadJournal, OnDisk, Loads
  <2>5. CASE Loaded(d)
    <3>1. Finish(d, "failed") => FALSE
      BY <1>6
    <3>2. "saving" \in OnDisk
      BY DEF OnDisk, Writes, Saves
    <3>3. \A m : saveJournal(d, "saving", m, m) => FALSE
      BY <3>2, <1>4 DEF saveJournal
    <3> QED
      BY <2>5, <3>1, <3>3 DEF Loaded
  <2>6. CASE Saved(d) \/ Pruned(d)
    BY <2>6, <1>3 DEF Saved, Pruned, Asks
  <2>7. CASE Applied(d)
    BY <2>7, <1>3, <1>4 DEF Applied, loadJournal, Asks, OnDisk, Loads
  <2>8. CASE Compared(d)
    BY <2>8, <1>3, <1>4 DEF Compared, saveJournal, Asks, OnDisk, Writes, Saves
  <2>9. CASE Flushed(d)
    <3>1. "flushing" \in Waiting /\ TRUE \in BOOLEAN
      BY DEF Waiting, Asks
    <3>2. calls[d].kind \in KindsOf("flushing") /\ calls[d].kind \in Restores
      BY <2>9, <3>1, <1>6, AnsweredFacts DEF Flushed
    <3> QED
      BY <3>2 DEF KindsOf, Undone, Restores
  <2>10. CASE Rechecked(d)
    <3>1. Finish(d, "failed") => FALSE
      BY <1>6
    <3>2. "clearing" \in OnDisk
      BY DEF OnDisk, Writes
    <3> QED
      BY <2>10, <3>1, <3>2, <1>4 DEF Rechecked, saveJournal
  <2>11. CASE Cleared(d)
    <3>1. Finish(d, "failed") => FALSE
      BY <1>6
    <3>2. "refreshing" \in Asks
      BY DEF Asks
    <3> QED
      BY <2>11, <3>1, <3>2, <1>3 DEF Cleared
  <2>12. CASE Fails(d)
    BY <2>12, <1>6 DEF Fails
  <2> QED
    BY <1>9, <2>1, <2>2, <2>3, <2>4, <2>5, <2>6, <2>7, <2>8, <2>9, <2>10, <2>11, <2>12 DEF Turn
<1>10. CASE Crash
  BY <1>1, <1>10 DEF Crash, Done
<1>11. CASE JournalQueue \/ HelperQueue \/ UserChanges \/ HelperRestarts
  BY <1>1, <1>11 DEF JournalQueue, JournalLoads, JournalSaves, ClearBegins, ClearEnds, HelperQueue,
       HelperCaptures, HelperApplies, HelperRestores, HelperFlushes, VersionArrives, Serves, UserChanges, HelperRestarts
<1> QED
  BY <1>7, <1>8, <1>9, <1>10, <1>11 DEF Next

\* Only an apply brings the tunnel's resolvers back, and it was called after any
\* restore that has succeeded.
LEMMA RestoresStay ==
    ASSUME IInv, Next, NEW c \in Calls, calls'[c].kind \in Restores, Holds(c),
           live.addr # Tun, live'.addr = Tun
    PROVE  helper'.write > c
<1> USE TypeParts DEF IInv
<1>1. HelperApplies
  <2>1. CASE \E d \in Calls : Submit(d) \/ Start(d) \/ Turn(d)
    BY <2>1 DEF Submit, Start, Turn, outside, Captured, Loaded, Saved, Applied, Compared, Pruned, Flushed,
                Fetched, Restored, Rechecked, Cleared, ClearTimesOut, Refreshed, Fails
  <2>2. CASE HelperRestores
    <3> DEFINE snap == Head(requests).snap
    <3>1. snap.original.addr # Tun
      BY <2>2, ServesFacts DEF HelperRestores
    <3>2. live' = live \/ live' = snap.original
      BY <2>2 DEF HelperRestores
    <3> QED
      BY <3>1, <3>2
  <2>3. CASE HelperCaptures \/ HelperFlushes \/ VersionArrives \/ Crash \/ HelperRestarts
    BY <2>3 DEF HelperCaptures, HelperFlushes, VersionArrives, Crash, HelperRestarts, outside
  <2>4. CASE JournalQueue
    BY <2>4 DEF JournalQueue, JournalLoads, JournalSaves, ClearBegins, ClearEnds
  <2>5. CASE UserChanges
    BY <2>5, UserChangesFacts
  <2> QED
    BY <2>1, <2>2, <2>3, <2>4, <2>5 DEF Next, HelperQueue
<1> DEFINE snap == Head(requests).snap
<1>2. /\ helper' = [helper EXCEPT !.write = snap.id, !.restored = FALSE]
      /\ IsNext("applying") /\ helper \in Helper
  BY <1>1 DEF HelperApplies, TypeInv
<1>3. helper'.write = snap.id
  BY <1>2 DEF Helper
<1>4. 1 \in DOMAIN requests /\ Head(requests) = requests[1] /\ requests[1].stage = "applying"
  BY <1>2, Popped DEF IsNext, TypeInv
<1>5. calls' = calls
  BY <1>1 DEF HelperApplies, Serves
<1>6. snap.id > c
  BY <1>4, <1>5 DEF HistoryInv
<1> QED
  BY <1>3, <1>6

\* A restore reports a success only over the user's resolvers.  If it ran, or had
\* nothing to do and its caller had superseded the applies before it, only an apply
\* that was called later brings the tunnel's back.
THEOREM RestoresHoldCorrect == Spec => RestoresHold
<1> DEFINE Kept(c) == calls'[c].kind \in Restores =>
          /\ Stage(c) \notin Succeeded /\ Stage(c)' \in Succeeded => live.addr # Tun
          /\ Holds(c) /\ live.addr # Tun /\ live'.addr = Tun => helper'.write > c
<1>1. ASSUME IInv, Next, NEW c \in Calls
      PROVE  Kept(c)
  BY <1>1, ReportsRestored, RestoresStay
<1>2. ASSUME IInv, [Next]_vars
      PROVE  [\A c \in Calls : Kept(c)]_vars
  BY <1>1, <1>2
<1> QED
  BY <1>2, TransactionCorrect, PTL DEF Spec, RestoresHold
-----------------------------------------------------------------------------
(* An operation ends.  Every turn of its own brings it nearer to its end,   *)
(* and nothing else takes it back.                                          *)

StageLeft(stage) ==
    CASE stage = "capturing"  -> 7
      [] stage = "loading"    -> 6
      [] stage = "saving"     -> 5
      [] stage = "applying"   -> 4
      [] stage = "comparing"  -> 3
      [] stage = "pruning"    -> 2
      [] stage = "flushing"   -> 1
      [] stage = "fetching"   -> 5
      [] stage = "restoring"  -> 4
      [] stage = "rechecking" -> 3
      [] stage = "clearing"   -> 2
      [] stage = "refreshing" -> 1
      [] OTHER -> 0

StagesLeft(c) == StageLeft(Stage(c))

\* The step ends the operation of c, or brings it nearer to its end.
Shortens(c) ==
    \/ running' = 0 /\ Stage(c)' \in Ended
    \/ running' = c /\ StagesLeft(c)' < StagesLeft(c)

LEMMA StageLeftFacts == \A s : StageLeft(s) \in 0..7
BY DEF StageLeft

LEMMA FinishShortens ==
    ASSUME IInv, NEW c \in Calls, NEW result \in Ended, Finish(c, result)
    PROVE  Shortens(c)
BY DEF IInv, TypeInv, Finish, Done, Shortens, Stage

LEMMA LaterShortens ==
    ASSUME IInv, NEW c \in Calls, NEW stage, NEW snap,
           StageLeft(stage) < StageLeft(Stage(c)),
           calls' = At(c, stage, snap), running' = c
    PROVE  Shortens(c)
<1>1. calls'[c].stage = stage
  BY DEF IInv, TypeInv, At, Call
<1> QED
  BY <1>1 DEF Shortens, StagesLeft, Stage

LEMMA AskShortens ==
    ASSUME IInv, NEW c \in Calls, NEW stage, NEW snap,
           StageLeft(stage) < StageLeft(Stage(c)), Ask(c, stage, snap)
    PROVE  Shortens(c)
BY LaterShortens DEF Ask

LEMMA EnqueueShortens ==
    ASSUME IInv, NEW c \in Calls, NEW stage, NEW snap, NEW written,
           StageLeft(stage) < StageLeft(Stage(c)), Enqueue(c, stage, snap, written)
    PROVE  Shortens(c)
BY LaterShortens DEF Enqueue

LEMMA ApplyShortens ==
    ASSUME IInv, NEW c \in Calls,
           \/ Captured(c) \/ Loaded(c) \/ Saved(c) \/ Applied(c) \/ Compared(c) \/ Pruned(c)
           \/ Flushed(c)
    PROVE  Shortens(c) /\ running = c
<1> SUFFICES Shortens(c)
  BY DEF Captured, Loaded, Saved, Applied, Compared, Pruned, Flushed, Answered
<1>1. CASE Captured(c)
  <2>1. StageLeft("loading") < StageLeft(Stage(c))
    BY <1>1 DEF Captured, Answered, StageLeft
  <2> QED
    BY <1>1, <2>1, EnqueueShortens DEF Captured, loadJournal
<1>2. CASE Loaded(c)
  <2>1. StageLeft("saving") < StageLeft(Stage(c))
    BY <1>2 DEF Loaded, Answered, StageLeft
  <2> QED
    BY <1>2, <2>1, EnqueueShortens, FinishShortens DEF Loaded, saveJournal, Ended
<1>3. CASE Saved(c)
  <2>1. StageLeft("applying") < StageLeft(Stage(c))
    BY <1>3 DEF Saved, Answered, StageLeft
  <2> QED
    BY <1>3, <2>1, AskShortens DEF Saved
<1>4. CASE Applied(c)
  <2>1. /\ StageLeft("flushing") < StageLeft(Stage(c))
        /\ StageLeft("comparing") < StageLeft(Stage(c))
    BY <1>4 DEF Applied, Answered, StageLeft
  <2> QED
    BY <1>4, <2>1, AskShortens, EnqueueShortens DEF Applied, loadJournal
<1>5. CASE Compared(c)
  <2>1. /\ StageLeft("flushing") < StageLeft(Stage(c))
        /\ StageLeft("pruning") < StageLeft(Stage(c))
    BY <1>5 DEF Compared, Answered, StageLeft
  <2> QED
    BY <1>5, <2>1, AskShortens, EnqueueShortens DEF Compared, saveJournal
<1>6. CASE Pruned(c)
  <2>1. StageLeft("flushing") < StageLeft(Stage(c))
    BY <1>6 DEF Pruned, Answered, StageLeft
  <2> QED
    BY <1>6, <2>1, AskShortens DEF Pruned
<1> QED
  BY <1>1, <1>2, <1>3, <1>4, <1>5, <1>6, FinishShortens DEF Flushed, Ended

LEMMA RestoreShortens ==
    ASSUME IInv, NEW c \in Calls,
           \/ Fetched(c) \/ Restored(c) \/ Rechecked(c) \/ Cleared(c)
           \/ ClearTimesOut(c) \/ Refreshed(c)
    PROVE  Shortens(c) /\ running = c
<1> SUFFICES Shortens(c)
  BY DEF Fetched, Restored, Rechecked, Cleared, ClearTimesOut, Refreshed, Answered
<1>1. CASE Fetched(c)
  <2>1. StageLeft("restoring") < StageLeft(Stage(c))
    BY <1>1 DEF Fetched, Answered, StageLeft
  <2>2. \A snap : AskVersion(c, snap) => Shortens(c)
    BY <2>1, LaterShortens DEF AskVersion
  <2> QED
    BY <1>1, <2>2, FinishShortens DEF Fetched, Ended
<1>2. CASE Restored(c)
  <2>1. StageLeft("rechecking") < StageLeft(Stage(c))
    BY <1>2 DEF Restored, Answered, StageLeft
  <2> QED
    BY <1>2, <2>1, EnqueueShortens DEF Restored, loadJournal
<1>3. CASE Rechecked(c)
  <2>1. StageLeft("clearing") < StageLeft(Stage(c))
    BY <1>3 DEF Rechecked, Answered, StageLeft
  <2> QED
    BY <1>3, <2>1, EnqueueShortens, FinishShortens DEF Rechecked, saveJournal, Ended
<1>4. CASE Cleared(c)
  <2>1. StageLeft("refreshing") < StageLeft(Stage(c))
    BY <1>4 DEF Cleared, Answered, StageLeft
  <2> QED
    BY <1>4, <2>1, AskShortens, FinishShortens DEF Cleared, Ended
<1>5. CASE ClearTimesOut(c)
  <2>1. CASE \E i \in DOMAIN io :
                 calls' = [calls EXCEPT ![c] = Done(@.kind, IF io[i].begun THEN "unsettled" ELSE "failed")]
                 /\ running' = 0
    BY <2>1 DEF IInv, TypeInv, Done, Shortens, Stage, Ended
  <2> QED
    BY <1>5, <2>1, FinishShortens DEF ClearTimesOut, Ended
<1> QED
  BY <1>1, <1>2, <1>3, <1>4, <1>5, FinishShortens DEF Refreshed, Ended

LEMMA TurnShortens ==
    ASSUME IInv, NEW c \in Calls, Turn(c)
    PROVE  Shortens(c) /\ running = c
BY ApplyShortens, RestoreShortens, FinishShortens DEF Turn, Fails, Ended

LEMMA NotStarting ==
    ASSUME NEW c \in Calls, running = c, NEW d \in Calls, Start(d)
    PROVE  FALSE
BY TunDNSAssumption DEF Start, IsFirst, Calls

\* No step takes a running operation back.
LEMMA StepShortens ==
    ASSUME IInv, [Next]_vars, NEW c \in Calls, running = c
    PROVE  Shortens(c) \/ (running' = c /\ StagesLeft(c)' = StagesLeft(c))
<1>1. ASSUME NEW d \in Calls, Submit(d)
      PROVE  running' = c /\ calls'[c] = calls[c]
  <2>1. Stage(d) = "new" /\ running' = running
    BY <1>1 DEF Submit
  <2>2. Stage(c) # "new"
    BY TunDNSAssumption DEF IInv, StageInv, Waiting, Loads, Saves, Asks, Calls
  <2>3. \E new : calls' = [calls EXCEPT ![d] = new]
    BY <1>1 DEF Submit
  <2> QED
    BY <2>1, <2>2, <2>3 DEF IInv, TypeInv
<1>2. CASE UNCHANGED <<calls, running>>
  BY <1>2 DEF StagesLeft, Stage
<1>3. CASE Crash
  <2>1. Stage(c) # "new"
    BY TunDNSAssumption DEF IInv, StageInv, Waiting, Loads, Saves, Asks, Calls
  <2> QED
    BY <1>3, <2>1 DEF Crash, Done, Shortens, Stage, Ended
<1>4. JournalQueue \/ HelperQueue \/ UserChanges \/ HelperRestarts \/ UNCHANGED vars
          => UNCHANGED <<calls, running>>
  BY DEF JournalQueue, JournalLoads, JournalSaves, ClearBegins, ClearEnds, HelperQueue,
         HelperCaptures, HelperApplies, HelperRestores, HelperFlushes, VersionArrives, Serves, UserChanges,
         HelperRestarts, vars
<1>5. ASSUME running' = c, calls'[c] = calls[c]
      PROVE  StagesLeft(c)' = StagesLeft(c)
  BY <1>5 DEF StagesLeft, Stage
<1> QED
  BY <1>1, <1>2, <1>3, <1>4, <1>5, TurnShortens, NotStarting DEF Next

LEMMA GoesOnShortens ==
    ASSUME IInv, NEW c \in Calls, running = c, QueueGoesOn
    PROVE  Shortens(c)
BY TurnShortens, NotStarting DEF QueueGoesOn

Within(c, n) == running = c /\ StagesLeft(c) <= n

Descent(c, n, m) == Within(c, n) ~> Within(c, m) \/ running = 0

LEMMA DescendsAt ==
    ASSUME NEW c \in Calls, NEW n \in 0..7, NEW m \in -1..6, n = m + 1
    PROVE  FairSpec /\ []NeverStuck => Descent(c, n, m)
<1> DEFINE Goal == Within(c, m) \/ running = 0
<1>0. StagesLeft(c) \in 0..7 /\ StagesLeft(c)' \in 0..7
  BY StageLeftFacts DEF StagesLeft
<1>1. IInv /\ Within(c, n) /\ [Next]_vars => Within(c, n)' \/ Goal'
  BY <1>0, StepShortens DEF Within, Shortens
<1>2. IInv /\ Within(c, n) /\ <<QueueGoesOn>>_vars => Goal'
  BY <1>0, GoesOnShortens DEF Within, Shortens
<1>3. NeverStuck /\ Within(c, n) => ENABLED <<QueueGoesOn>>_vars
  <2>1. Within(c, n) => ~Idle
    BY TunDNSAssumption DEF Within, Calls, Idle
  <2> QED
    BY <2>1 DEF NeverStuck
<1> HIDE DEF Goal
<1>4. FairSpec /\ []NeverStuck => (Within(c, n) ~> Goal)
  BY <1>1, <1>2, <1>3, TransactionCorrect, PTL DEF FairSpec, Spec
<1> QED
  BY <1>4 DEF Goal, Descent

\* What the queue runs, it gives up.
AllEnd == \A c \in Calls : (running = c => <>(running = 0))

LEMMA RunningEnds == AllEnd /\ running \in Calls => <>(running = 0)
BY DEF AllEnd

LEMMA EachEnds ==
    ASSUME NEW c \in Calls
    PROVE  FairSpec /\ []NeverStuck => [](running = c => <>(running = 0))
<1> DEFINE D(n, m) == FairSpec /\ []NeverStuck => Descent(c, n, m)
<1>1. D(7, 6) /\ D(6, 5) /\ D(5, 4) /\ D(4, 3) /\ D(3, 2) /\ D(2, 1) /\ D(1, 0) /\ D(0, -1)
  BY DescendsAt
<1>2. running = c => Within(c, 7)
  BY StageLeftFacts DEF Within, StagesLeft
<1>3. ~Within(c, -1)
  BY StageLeftFacts DEF Within, StagesLeft
<1> QED
  BY <1>1, <1>2, <1>3, PTL DEF Descent

\* If the main queue goes on and timeouts fire, every operation makes room for the
\* next one, over crashes and also if the helper or the disk never answers.
LEMMA QueueFreed == FairSpec /\ []NeverStuck => []<>(running = 0)
<1>1. FairSpec /\ []NeverStuck => \A c \in Calls : [](running = c => <>(running = 0))
  BY EachEnds
<1>2. (\A c \in Calls : [](running = c => <>(running = 0))) => []AllEnd
  BY DEF AllEnd
<1>3. TypeOK => running \in Calls \/ running = 0
  BY DEF TypeOK
<1>4. FairSpec => []TypeOK
  BY TypeCorrect, PTL DEF FairSpec
<1> QED
  BY <1>1, <1>2, <1>3, <1>4, RunningEnds, PTL

\* A start ends the call at once, or its operation runs.
LEMMA StartRuns ==
    ASSUME IInv, NEW c \in Calls, Start(c)
    PROVE  running' = c \/ Ends(c)
<1>1. Stage(c) = "queued" /\ (running' = c \/ Finish(c, "failed"))
  BY DEF Start, IsFirst, Ask, loadJournal, Enqueue
<1>2. Finish(c, "failed") => Stage(c)' = "failed"
  BY DEF IInv, TypeInv, Finish, Done, Stage
<1> QED
  BY <1>1, <1>2 DEF Ends, Ended

\* What runs makes room only by ending.
LEMMA EndsFreeing ==
    ASSUME IInv, running # 0, [Next]_vars, running' = 0
    PROVE  <<\E c \in Calls : Ends(c)>>_vars
<1>1. PICK c \in Calls : running = c
  BY DEF IInv, TypeInv
<1>2. Stage(c)' \in Ended
  BY <1>1, StepShortens DEF Shortens
<1>3. Stage(c) \notin Ended
  BY <1>1 DEF IInv, StageInv, Waiting, Loads, Saves, Asks, Ended
<1>4. \E d \in Calls : Ends(d)
  BY <1>2, <1>3 DEF Ends
<1>5. vars' # vars
  BY DEF vars
<1> QED
  BY Zenon, <1>4, <1>5

\* What is started runs, or has ended.
LEMMA GoesOnFree ==
    ASSUME IInv, running = 0, <<QueueGoesOn>>_vars
    PROVE  running' # 0 \/ <<\E c \in Calls : Ends(c)>>_vars
<1>1. PICK c \in Calls : Start(c)
  BY TurnShortens DEF QueueGoesOn, Calls
<1>2. running' # 0 \/ \E d \in Calls : Ends(d)
  BY <1>1, StartRuns DEF Calls
<1> QED
  BY Zenon, <1>2

\* The steps of a call change no other one.
LEMMA StepIsOfOne ==
    ASSUME NEW d \in Calls, Submit(d) \/ Start(d) \/ Turn(d)
    PROVE  \E new : calls' = [calls EXCEPT ![d] = new]
<1> DEFINE One == \E new : calls' = [calls EXCEPT ![d] = new]
<1>1. \A result : Finish(d, result) => One
  BY DEF Finish
<1>2. ASSUME NEW stage, NEW snap, NEW written,
             Ask(d, stage, snap) \/ Enqueue(d, stage, snap, written) \/ AskVersion(d, snap)
      PROVE  One
  <2>1. PICK next : calls' = [calls EXCEPT ![d] = [@ EXCEPT !.stage = next, !.snap = snap]]
    BY <1>2 DEF Ask, Enqueue, AskVersion, At
  <2> QED
    BY <2>1
<1>3. Submit(d) => One
  BY DEF Submit
<1>4. Start(d) => One
  BY <1>1, <1>2 DEF Start, loadJournal
<1>5. Turn(d) => One
  BY <1>1, <1>2 DEF Turn, Captured, Loaded, Saved, Applied, Compared, Pruned, Flushed, Fetched,
                    Restored, Rechecked, Cleared, ClearTimesOut, Refreshed, Fails, loadJournal,
                    saveJournal
<1> QED
  BY <1>3, <1>4, <1>5

\* A call that has ended stays so, also over a crash: it ends only once, and calls
\* do not end for ever.
THEOREM EndsOnce == Spec => [][\A c \in Calls : Stage(c) \in Ended => Stage(c)' \in Ended]_vars
<1>1. ASSUME IInv, [Next]_vars, NEW c \in Calls, Stage(c) \in Ended
      PROVE  Stage(c)' \in Ended
  <2>1. calls \in [Calls -> Call]
    BY <1>1 DEF IInv, TypeInv
  <2>2. ASSUME NEW d \in Calls, Submit(d) \/ Start(d) \/ Turn(d)
        PROVE  Stage(d) \notin Ended
    <3>1. running = d => Stage(d) \notin Ended
      BY <1>1, TunDNSAssumption DEF IInv, StageInv, Waiting, Loads, Saves, Asks, Ended, Calls
    <3>2. Submit(d) \/ Start(d) => Stage(d) \notin Ended
      BY DEF Submit, Start, IsFirst, Ended
    <3> QED
      BY <1>1, <2>2, <3>1, <3>2, TurnShortens
  <2>3. CASE \E d \in Calls : Submit(d) \/ Start(d) \/ Turn(d)
    <3>1. PICK d \in Calls : Submit(d) \/ Start(d) \/ Turn(d)
      BY <2>3
    <3>2. d # c
      BY <1>1, <2>2, <3>1
    <3>3. PICK new : calls' = [calls EXCEPT ![d] = new]
      BY <3>1, StepIsOfOne
    <3> QED
      BY <1>1, <2>1, <3>2, <3>3 DEF Stage
  <2>4. CASE Crash
    BY <1>1, <2>4 DEF Crash, Done, Ended, Stage
  <2>5. CASE UNCHANGED calls
    BY <1>1, <2>5 DEF Stage
  <2>6. JournalQueue \/ HelperQueue \/ UserChanges \/ HelperRestarts \/ UNCHANGED vars
            => UNCHANGED calls
    BY DEF JournalQueue, JournalLoads, JournalSaves, ClearBegins, ClearEnds, HelperQueue,
           HelperCaptures, HelperApplies, HelperRestores, HelperFlushes, VersionArrives, Serves, UserChanges,
           HelperRestarts, vars
  <2> QED
    BY <1>1, <2>3, <2>4, <2>5, <2>6 DEF Next
<1>2. IInv /\ [Next]_vars => \A c \in Calls : Stage(c) \in Ended => Stage(c)' \in Ended
  BY <1>1
<1> QED
  BY <1>2, TransactionCorrect, PTL DEF Spec

\* CallsEnd, for any number of calls, over crashes and whatever the helper and the
\* disk do, if the main queue goes on and timeouts fire.  That it can always go on,
\* whatever has become of a clear, is NeverStuck.
THEOREM CallsEndCorrect == FairSpec /\ []NeverStuck => CallsEnd
<1> DEFINE SomeEnds == \E c \in Calls : Ends(c)
<1>1. /\ IInv /\ ~(running = 0) /\ [Next]_vars => ~(running = 0)' \/ <<SomeEnds>>_vars
      /\ IInv /\ running = 0 /\ <<QueueGoesOn>>_vars => ~(running = 0)' \/ <<SomeEnds>>_vars
  BY EndsFreeing, GoesOnFree
<1>2. NeverStuck /\ ~Idle => ENABLED <<QueueGoesOn>>_vars
  BY DEF NeverStuck
<1> HIDE DEF SomeEnds
<1>3. FairSpec /\ []NeverStuck => []<>Idle \/ []<><<SomeEnds>>_vars
  BY <1>1, <1>2, QueueFreed, TransactionCorrect, PTL DEF FairSpec, Spec
<1> QED
  BY <1>3, PTL DEF CallsEnd, SomeEnds
=============================================================================
