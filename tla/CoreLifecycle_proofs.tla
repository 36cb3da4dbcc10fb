------------------------- MODULE CoreLifecycle_proofs -------------------------
(***************************************************************************)
(* LifecycleInvariant is inductive, for any number of threads and calls.   *)
(* Each action of a thread p is first reduced to what it writes into       *)
(* req[p]; the conjuncts of the invariant then follow without records.     *)
(* Last, calls return if mutexes are handed over to those who wait.         *)
(***************************************************************************)
EXTENDS CoreLifecycle, TLAPS

\* What a step of thread p makes of its request.
Becomes(p, op, pc, want, entry, token, seen) ==
    /\ req'[p].op = op /\ req'[p].pc = pc
    /\ req'[p].want = want /\ req'[p].entry = entry
    /\ req'[p].token = token /\ req'[p].seen = seen
    /\ \A q \in Threads \ {p} : req'[q] = req[q]

\* A step of p that moves only its program counter.
Moves(p, pc) ==
    Becomes(p, req[p].op, pc, req[p].want, req[p].entry, req[p].token, req[p].seen)

\* A call of p that returns.
Ends(p) == 
    /\ req'[p].op = "none" /\ req'[p].pc = "idle" /\ req'[p].token = 0
    /\ \A q \in Threads \ {p} : req'[q] = req[q]

LEMMA GoMoves ==
    ASSUME TypeOK, NEW p \in Threads, NEW STATE pc, Go(p, pc), pc \in Steps
    PROVE  Moves(p, pc) /\ req' \in [Threads -> Request]
BY DEF TypeOK, Go, Moves, Becomes, Request

LEMMA ReturnEnds ==
    ASSUME TypeOK, NEW p \in Threads, Return(p)
    PROVE  Ends(p) /\ req' \in [Threads -> Request]
<1>1. Idle \in Request
  BY DEF Idle, Request, State, Ops, Steps
<1> QED
  BY <1>1 DEF TypeOK, Return, Ends, Idle

LEMMA TypeStep == TypeOK /\ [Next]_vars => TypeOK'
<1> SUFFICES ASSUME TypeOK, [Next]_vars PROVE TypeOK'
  OBVIOUS
<1>0. Idle \in Request /\ state \in State /\ epoch + 1 \in Nat /\ calls + 1 \in Nat
  BY DEF TypeOK, Idle, Request, State, Ops, Steps
<1>1. ASSUME NEW p \in Threads, Start(p) PROVE TypeOK'
  <2>1. [Idle EXCEPT !.op = "start", !.pc = "admit", !.token = epoch + 1] \in Request
    BY <1>0 DEF Request, Ops, Steps
  <2> QED
    BY <1>0, <1>1, <2>1 DEF TypeOK, Start, Call
<1>2. ASSUME NEW p \in Threads, Update(p) PROVE TypeOK'
  <2>1. [Idle EXCEPT !.op = "update", !.pc = "lock", !.token = epoch] \in Request
    BY <1>0 DEF TypeOK, Request, Ops, Steps
  <2> QED
    BY <1>0, <1>2, <2>1 DEF TypeOK, Update, Call
<1>3. ASSUME NEW p \in Threads, SetTun(p) PROVE TypeOK'
  <2>1. [Idle EXCEPT !.op = "tun", !.pc = "lock"] \in Request
    BY <1>0 DEF Request, Ops, Steps
  <2> QED
    BY <1>0, <1>3, <2>1 DEF TypeOK, SetTun, Call
<1>4. ASSUME NEW p \in Threads, Suspend(p) PROVE TypeOK'
  <2>1. [Idle EXCEPT !.op = "suspend", !.pc = "request"] \in Request
    BY <1>0 DEF Request, Ops, Steps
  <2> QED
    BY <1>0, <1>4, <2>1 DEF TypeOK, Suspend, Call
<1>5. ASSUME NEW p \in Threads, Admit(p) PROVE TypeOK'
  BY <1>0, <1>5 DEF TypeOK, Admit, Request, Steps
<1>6. ASSUME NEW p \in Threads, StartRefused(p) PROVE TypeOK'
  BY <1>6, ReturnEnds DEF TypeOK, StartRefused
<1>7. ASSUME NEW p \in Threads, StartOpens(p) PROVE TypeOK'
  BY <1>0, <1>7 DEF TypeOK, StartOpens, CacheStates, Request, Steps
<1>8. ASSUME NEW p \in Threads, Parse(p) PROVE TypeOK'
  BY <1>8, GoMoves DEF TypeOK, Parse, Steps
<1>9. ASSUME NEW p \in Threads, StartApplies(p) PROVE TypeOK'
  <2>1. req[p].token \in Nat
    BY DEF TypeOK, Request
  <2> QED
    BY <1>9, <2>1, GoMoves DEF TypeOK, StartApplies, StartListeners, Steps
<1>10. ASSUME NEW p \in Threads, Cleanup(p) PROVE TypeOK'
  BY <1>10, GoMoves DEF TypeOK, Cleanup, Steps
<1>11. ASSUME NEW p \in Threads, Fence(p) PROVE TypeOK'
  <2>1. Fenced(p) \in State
    BY <1>0 DEF Fenced, State
  <2> QED
    BY <1>11, <2>1, GoMoves DEF TypeOK, Fence, Steps
<1>12. ASSUME NEW p \in Threads, Activate(p) PROVE TypeOK'
  <2>1. [state EXCEPT !.suspended = FALSE] \in State
    BY <1>0 DEF State
  <2>2. starts + 1 \in Nat
    BY DEF TypeOK
  <2> QED
    BY <1>12, <2>1, <2>2, ReturnEnds DEF TypeOK, Activate
<1>13. ASSUME NEW p \in Threads, Close(p) PROVE TypeOK'
  BY <1>13, ReturnEnds DEF TypeOK, Close, CloseDatabase, CacheStates
<1>14. ASSUME NEW p \in Threads, LockActive(p) PROVE TypeOK'
  BY <1>14, ReturnEnds, GoMoves DEF TypeOK, LockActive, Steps
<1>15. ASSUME NEW p \in Threads, Advance(p) PROVE TypeOK'
  <2>1. CASE state.suspended
    BY <1>15, <2>1, ReturnEnds DEF TypeOK, Advance
  <2>2. CASE ~state.suspended
    <3>1. [req EXCEPT ![p].token = epoch + 1, ![p].pc = "check"] \in [Threads -> Request]
      BY <1>0 DEF TypeOK, Request, Steps
    <3> QED
      BY <1>0, <1>15, <2>2, <3>1 DEF TypeOK, Advance
  <2> QED
    BY <2>1, <2>2
<1>16. ASSUME NEW p \in Threads, Check(p) PROVE TypeOK'
  BY <1>16, ReturnEnds, GoMoves DEF TypeOK, Check, Steps
<1>17. ASSUME NEW p \in Threads, UpdateApplies(p) PROVE TypeOK'
  BY <1>17, ReturnEnds DEF TypeOK, UpdateApplies
<1>18. ASSUME NEW p \in Threads, RequestSuspend(p) PROVE TypeOK'
  <2>1. state' \in State
    BY <1>0, <1>18 DEF RequestSuspend, State
  <2>2. ASSUME NEW w \in State
        PROVE  [req EXCEPT ![p].want = w, ![p].seen = starts, ![p].pc = "invalidate"]
                   \in [Threads -> Request]
    <3> DEFINE r == [req[p] EXCEPT !.want = w, !.seen = starts, !.pc = "invalidate"]
    <3>1. req \in [Threads -> Request] /\ starts \in Nat
      BY DEF TypeOK
    <3>2. r \in Request
      BY <2>2, <3>1 DEF Request, Steps
    <3>3. [req EXCEPT ![p] = r] \in [Threads -> Request]
      <4> HIDE DEF r
      <4> QED
        BY <3>1, <3>2
    <3> QED
      BY <3>3
  <2>3. req' \in [Threads -> Request]
    BY <1>18, <2>1, <2>2 DEF RequestSuspend
  <2> QED
    BY <1>18, <2>1, <2>3 DEF TypeOK, RequestSuspend
<1>19. ASSUME NEW p \in Threads, InvalidateUpdates(p) PROVE TypeOK'
  BY <1>0, <1>19, GoMoves DEF TypeOK, InvalidateUpdates, BumpEpoch, Steps
<1>20. ASSUME NEW p \in Threads, LockSuspend(p) PROVE TypeOK'
  BY <1>20, ReturnEnds, GoMoves DEF TypeOK, LockSuspend, Steps
<1>21. ASSUME NEW p \in Threads, StopCore(p) PROVE TypeOK'
  BY <1>21, GoMoves DEF TypeOK, StopCore, Steps
<1>22. CASE CancelPending
  BY <1>0, <1>22 DEF TypeOK, CancelPending
<1>23. CASE Reopen
  BY <1>0, <1>23 DEF TypeOK, Reopen, CacheStates
<1>24. CASE UNCHANGED vars
  BY <1>24 DEF TypeOK, vars
<1> QED
  BY <1>1, <1>2, <1>3, <1>4, <1>5, <1>6, <1>7, <1>8, <1>9, <1>10, <1>11, <1>12,
     <1>13, <1>14, <1>15, <1>16, <1>17, <1>18, <1>19, <1>20, <1>21, <1>22, <1>23,
     <1>24 DEF Next, Enter, Step

\* The word, the locks and every request keep their types.
THEOREM TypeCorrect == Spec => []TypeOK
<1>1. Init => TypeOK
  <2>1. Idle \in Request /\ [gen |-> 0, suspended |-> FALSE] \in State
    BY DEF Idle, Request, State, Ops, Steps
  <2>2. Init => req \in [Threads -> Request] /\ state \in State
    BY <2>1 DEF Init
  <2>3. Init => cache \in CacheStates /\ running \in BOOLEAN
    BY Zenon DEF Init, CacheStates
  <2>4. Init => /\ mu \in Threads \cup {None} /\ stateMu \in Threads \cup {None}
                /\ epoch \in Nat /\ session \in Nat /\ starts \in Nat /\ calls \in Nat
    BY DEF Init
  <2> QED
    BY <2>2, <2>3, <2>4 DEF TypeOK
<1>2. TypeOK /\ [Next]_vars => TypeOK'
  BY TypeStep
<1> QED
  BY <1>1, <1>2, PTL DEF Spec
-----------------------------------------------------------------------------
\* A step of p outside the locks, which asks for nothing yet or gives up.
LEMMA OutsideStep ==
    ASSUME TypeOK, LifecycleInvariant, NEW p \in Threads,
           UNCHANGED <<mu, stateMu, state, cache, running, session, starts>>,
           epoch' \in Nat, epoch' >= epoch,
           ~Holds(p), ~Pending(p), req[p].pc # "invalidate",
           req'[p].pc \in StepsOf[req'[p].op],
           req'[p].pc \in {"idle", "admit", "lock", "request"},
           req'[p].op = "suspend" => req'[p].pc = "request",
           req'[p].token <= epoch',
           \A q \in Threads \ {p} : req'[q] = req[q]
    PROVE  LifecycleInvariant'
<1>4. /\ ~Holds(p)' /\ ~Pending(p)' /\ ~Starting(p)' /\ ~Requested(p)'
      /\ ~Starting(p) /\ ~Stopping(p)
  BY DEF Holds, Pending, Starting, Stopping, Requested
<1>5. \A q \in Threads \ {p} :
        /\ Holds(q)' = Holds(q) /\ Pending(q)' = Pending(q)
        /\ Starting(q)' = Starting(q) /\ Requested(q)' = Requested(q)
        /\ Stopping(q)' = Stopping(q)
  BY DEF Holds, Pending, Starting, Requested, Stopping
<1>6. LocksHeld'
  BY <1>4, <1>5 DEF LifecycleInvariant, LocksHeld
<1>7. StepsInOrder'
  BY DEF LifecycleInvariant, StepsInOrder
<1>8. EpochsBelow'
  BY DEF LifecycleInvariant, EpochsBelow, TypeOK, Request
<1>9. EntryCurrent'
  BY <1>4, <1>5 DEF LifecycleInvariant, EntryCurrent
<1>10. CacheHeld'
  BY <1>4, <1>5 DEF LifecycleInvariant, CacheHeld, Closed
<1>11. SuspensionServed'
  BY <1>4, <1>5 DEF LifecycleInvariant, SuspensionServed
<1>12. StaleRequests'
  BY <1>4, <1>5 DEF LifecycleInvariant, StaleRequests
<1>13. UpdateInOwnSession'
  BY DEF LifecycleInvariant, UpdateInOwnSession, Applying
<1> QED
  BY <1>6, <1>7, <1>8, <1>9, <1>10, <1>11, <1>12, <1>13 DEF LifecycleInvariant

LEMMA EnterSafe ==
    ASSUME TypeOK, LifecycleInvariant, NEW p \in Threads, Enter(p)
    PROVE  LifecycleInvariant'
<1>1. req \in [Threads -> Request] /\ epoch \in Nat
  BY DEF TypeOK
<1>2. \E op \in {"start", "update", "tun", "suspend"}, t \in {0, epoch, epoch'} :
         /\ req'[p].op = op /\ req'[p].token = t
         /\ req'[p].pc = CASE op = "start" -> "admit" [] op = "suspend" -> "request"
                            [] OTHER -> "lock"
         /\ \A q \in Threads \ {p} : req'[q] = req[q]
  <2>1. CASE Start(p)
    BY <1>1, <2>1 DEF Start, Call, Idle
  <2>2. CASE Update(p)
    BY <1>1, <2>2 DEF Update, Call, Idle
  <2>3. CASE SetTun(p)
    BY <1>1, <2>3 DEF SetTun, Call, Idle
  <2>4. CASE Suspend(p)
    BY <1>1, <2>4 DEF Suspend, Call, Idle
  <2> QED
    BY <2>1, <2>2, <2>3, <2>4 DEF Enter
<1>3. /\ UNCHANGED <<mu, stateMu, state, cache, running, session, starts>>
      /\ epoch' \in Nat /\ epoch' >= epoch
      /\ req[p].pc = "idle"
  BY <1>1 DEF Enter, Start, Update, SetTun, Suspend, Call
<1>4. /\ req'[p].pc \in StepsOf[req'[p].op]
      /\ req'[p].pc \in {"idle", "admit", "lock", "request"}
      /\ req'[p].op = "suspend" => req'[p].pc = "request"
      /\ req'[p].token <= epoch'
  BY <1>1, <1>2, <1>3 DEF StepsOf
<1>5. ~Holds(p) /\ ~Pending(p) /\ req[p].pc # "invalidate"
  BY <1>3 DEF Holds, Pending
<1> QED
  BY <1>2, <1>3, <1>4, <1>5, OutsideStep

LEMMA AdmitSafe ==
    ASSUME TypeOK, LifecycleInvariant, NEW p \in Threads, Admit(p)
    PROVE  LifecycleInvariant'
<1>1. req \in [Threads -> Request] /\ epoch \in Nat /\ req[p].token <= epoch
  BY DEF TypeOK, LifecycleInvariant, EpochsBelow
<1>2. /\ req'[p].op = "start" /\ req'[p].pc = "lock" /\ req'[p].token = req[p].token
      /\ \A q \in Threads \ {p} : req'[q] = req[q]
      /\ req[p].pc = "admit" /\ epoch' = epoch
      /\ UNCHANGED <<mu, stateMu, state, cache, running, session, starts>>
  BY <1>1 DEF Admit, At, Request
<1>3. ~Holds(p) /\ ~Pending(p) /\ req'[p].pc \in StepsOf[req'[p].op]
  BY <1>2 DEF Holds, Pending, StepsOf
<1> QED
  BY <1>1, <1>2, <1>3, OutsideStep

\* A call that gives up before it got mu.
LEMMA GiveUp ==
    ASSUME TypeOK, LifecycleInvariant, NEW p \in Threads,
           Return(p), req[p].pc = "lock", ~Pending(p),
           UNCHANGED <<mu, stateMu, state, epoch, cache, running, session, starts>>
    PROVE  LifecycleInvariant'
<1>1. Ends(p) /\ epoch \in Nat
  BY ReturnEnds DEF TypeOK
<1>2. ~Holds(p) /\ req'[p].pc \in StepsOf[req'[p].op]
  BY <1>1 DEF Holds, StepsOf, Ends
<1> QED
  BY <1>1, <1>2, OutsideStep DEF Ends

\* A step of the owner of mu that keeps mu and the state word.
LEMMA HolderStep ==
    ASSUME TypeOK, LifecycleInvariant, NEW p \in Threads,
           UNCHANGED <<mu, stateMu, state, cache, starts>>,
           epoch' \in Nat, epoch' >= epoch, session' <= epoch',
           Holds(p), Holds(p)', req[p].pc \notin {"close", "fence"},
           /\ req'[p].op = req[p].op /\ req'[p].want = req[p].want
           /\ req'[p].entry = req[p].entry /\ req'[p].seen = req[p].seen,
           req'[p].pc \in StepsOf[req'[p].op],
           req'[p].token <= epoch',
           \A q \in Threads \ {p} : req'[q] = req[q],
           req'[p].pc \in {"fence", "close"} => ~running',
           req'[p].pc = "stop" <=> FALSE,
           req'[p].pc = "close" => req[p].pc = "stop" /\ req[p].op = "suspend",
           req[p].pc = "stop" => req'[p].pc = "close",
           running' => running \/ req[p].op = "start",
           session' = session \/ req[p].op = "start",
           req'[p].pc = "apply" /\ req[p].op # "start" => session' <= req'[p].token
    PROVE  LifecycleInvariant'
<1>1. mu = p /\ stateMu # p /\ \A q \in Threads \ {p} : ~Holds(q)
  BY DEF LifecycleInvariant, LocksHeld, Holds
<1>2. \A q \in Threads :
        /\ Holds(q)' = Holds(q) /\ Pending(q)' = Pending(q)
        /\ Requested(q)' = Requested(q)
  BY DEF Holds, Pending, Requested
<1>3. \A q \in Threads :
        /\ Starting(q)' = Starting(q) /\ Stopping(q)' = Stopping(q)
  BY <1>2 DEF Starting, Stopping
<1>6. LocksHeld'
  BY <1>1, <1>2 DEF LifecycleInvariant, LocksHeld, Holds
<1>7. StepsInOrder'
  BY DEF LifecycleInvariant, StepsInOrder
<1>8. EpochsBelow'
  BY DEF LifecycleInvariant, EpochsBelow, TypeOK, Request
<1>9. EntryCurrent'
  BY <1>2 DEF LifecycleInvariant, EntryCurrent
<1>10. CacheHeld'
  BY <1>1, <1>2 DEF LifecycleInvariant, CacheHeld, Closed, Holds
<1>11. SuspensionServed'
  BY <1>1, <1>2, <1>3, LifecycleAssumption DEF LifecycleInvariant, SuspensionServed
<1>12. StaleRequests'
  <2>1. /\ req[p].pc # "request" /\ req'[p].pc # "request"
        /\ \A q \in Threads :
              req'[q].op = req[q].op /\ req'[q].want = req[q].want /\ req'[q].seen = req[q].seen
    BY DEF Holds
  <2>2. ASSUME NEW q \in Threads, Requested(q), req[q].seen # starts
        PROVE  running' => \E r \in Threads : Starting(r)
    BY <2>2 DEF LifecycleInvariant, StaleRequests
  <2>3. \A q \in Threads : req'[q].pc # "stop"
    BY <1>1 DEF Holds
  <2> QED
    BY <1>1, <1>2, <1>3, <2>1, <2>2, <2>3 DEF LifecycleInvariant, StaleRequests
<1>13. UpdateInOwnSession'
  BY <1>1 DEF LifecycleInvariant, UpdateInOwnSession, Applying, Holds
<1> QED
  BY <1>6, <1>7, <1>8, <1>9, <1>10, <1>11, <1>12, <1>13 DEF LifecycleInvariant

\* An update or a TUN switch that ends and releases mu.
LEMMA ReleaseStep ==
    ASSUME TypeOK, LifecycleInvariant, NEW p \in Threads,
           Holds(p), req[p].op \in {"update", "tun"},
           UNCHANGED <<stateMu, state, epoch, cache, session, starts>>,
           running' \in {running, TRUE}, mu' = None, Return(p)
    PROVE  LifecycleInvariant'
<1>0. Ends(p) /\ epoch \in Nat
  BY ReturnEnds DEF TypeOK
<1>1. mu = p /\ stateMu # p /\ \A q \in Threads \ {p} : ~Holds(q)
  BY DEF LifecycleInvariant, LocksHeld, Holds
<1>2. /\ ~Holds(p)' /\ ~Pending(p)' /\ ~Starting(p)' /\ ~Requested(p)'
      /\ ~Starting(p) /\ ~Stopping(p) /\ ~Pending(p) /\ ~Requested(p)
      /\ req[p].pc \notin {"stop", "close", "fence"}
  BY <1>0 DEF Holds, Pending, Starting, Stopping, Requested, Ends, StepsOf,
     LifecycleInvariant, StepsInOrder
<1>3. \A q \in Threads \ {p} :
        /\ Holds(q)' = Holds(q) /\ Pending(q)' = Pending(q)
        /\ Starting(q)' = Starting(q) /\ Requested(q)' = Requested(q)
        /\ Stopping(q)' = Stopping(q)
  BY <1>0 DEF Holds, Pending, Starting, Requested, Stopping, Ends
<1>4. \A q \in Threads \ {p} : ~Starting(q) /\ ~Stopping(q)
  BY <1>1 DEF Starting, Stopping, Holds
<1>5. \A q \in Threads : Requested(q) => req[q].seen = starts
  BY <1>1, <1>2 DEF LifecycleInvariant, StaleRequests
<1>6. LocksHeld'
  BY <1>0, <1>1, <1>2, <1>3, LifecycleAssumption DEF LifecycleInvariant, LocksHeld, Ends
<1>7. StepsInOrder'
  BY <1>0 DEF LifecycleInvariant, StepsInOrder, StepsOf, Ends
<1>8. EpochsBelow'
  BY <1>0 DEF LifecycleInvariant, EpochsBelow, TypeOK, Request, Ends
<1>9. EntryCurrent'
  BY <1>0, <1>1, <1>2, <1>3 DEF LifecycleInvariant, EntryCurrent, Ends
<1>10. CacheHeld'
  <2>1. ~Closed'
    BY <1>2 DEF LifecycleInvariant, CacheHeld, Closed
  <2>2. \A q \in Threads : req'[q].pc \notin {"stop", "close", "fence"}
    BY <1>0, <1>1 DEF Ends, Holds
  <2>3. \A q \in Threads : ~Holds(q)'
    BY <1>1, <1>2, <1>3
  <2> QED
    BY <2>1, <2>2, <2>3 DEF CacheHeld
<1>11. SuspensionServed'
  BY <1>1, <1>2, <1>3, <1>4, LifecycleAssumption DEF LifecycleInvariant, SuspensionServed
<1>12. StaleRequests'
  <2>1. \A q \in Threads : req'[q].pc # "stop"
    BY <1>0, <1>1 DEF Ends, Holds
  <2> QED
    BY <1>0, <1>2, <1>3, <1>5, <2>1 DEF LifecycleInvariant, StaleRequests, Ends
<1>13. UpdateInOwnSession'
  BY <1>0 DEF LifecycleInvariant, UpdateInOwnSession, Applying, Ends
<1> QED
  BY <1>6, <1>7, <1>8, <1>9, <1>10, <1>11, <1>12, <1>13 DEF LifecycleInvariant

LEMMA ParseSafe ==
    ASSUME TypeOK, LifecycleInvariant, NEW p \in Threads, Parse(p)
    PROVE  LifecycleInvariant'
<1>1. PICK pc \in {"apply", "cleanup"} : Go(p, pc)
  BY DEF Parse
<1>2. Moves(p, pc) /\ epoch \in Nat /\ session <= epoch /\ req[p].token <= epoch
  BY <1>1, GoMoves DEF Steps, TypeOK, LifecycleInvariant, EpochsBelow
<1>3. /\ req[p].op = "start" /\ req[p].pc = "parse"
      /\ UNCHANGED <<mu, stateMu, state, epoch, cache, running, session, starts>>
  BY DEF Parse, At
<1>4. Holds(p) /\ Holds(p)' /\ req'[p].pc \in StepsOf[req'[p].op]
  BY <1>2, <1>3 DEF Holds, Moves, Becomes, StepsOf
<1> QED
  BY <1>2, <1>3, <1>4, HolderStep DEF Moves, Becomes

LEMMA StartAppliesSafe ==
    ASSUME TypeOK, LifecycleInvariant, NEW p \in Threads, StartApplies(p)
    PROVE  LifecycleInvariant'
<1>1. PICK pc \in {"activate", "cleanup"} : Go(p, pc)
  BY DEF StartApplies
<1>2. Moves(p, pc) /\ epoch \in Nat /\ session <= epoch /\ req[p].token <= epoch
  BY <1>1, GoMoves DEF Steps, TypeOK, LifecycleInvariant, EpochsBelow
<1>3. /\ req[p].op = "start" /\ req[p].pc = "apply"
      /\ UNCHANGED <<mu, stateMu, state, epoch, cache, starts>>
      /\ session' \in {session, req[p].token}
  BY DEF StartApplies, StartListeners, At
<1>4. Holds(p) /\ Holds(p)' /\ req'[p].pc \in StepsOf[req'[p].op]
  BY <1>2, <1>3 DEF Holds, Moves, Becomes, StepsOf
<1> QED
  BY <1>2, <1>3, <1>4, HolderStep DEF Moves, Becomes

LEMMA CleanupSafe ==
    ASSUME TypeOK, LifecycleInvariant, NEW p \in Threads, Cleanup(p)
    PROVE  LifecycleInvariant'
<1>1. Go(p, "fence")
  BY DEF Cleanup
<1>2. Moves(p, "fence") /\ epoch \in Nat /\ session <= epoch /\ req[p].token <= epoch
  BY <1>1, GoMoves DEF Steps, TypeOK, LifecycleInvariant, EpochsBelow
<1>3. /\ req[p].op = "start" /\ req[p].pc = "cleanup"
      /\ UNCHANGED <<mu, stateMu, state, epoch, cache, session, starts>>
      /\ ~running'
  BY DEF Cleanup, At
<1>4. Holds(p) /\ Holds(p)' /\ req'[p].pc \in StepsOf[req'[p].op]
  BY <1>2, <1>3 DEF Holds, Moves, Becomes, StepsOf
<1> QED
  BY <1>2, <1>3, <1>4, HolderStep DEF Moves, Becomes

LEMMA StopCoreSafe ==
    ASSUME TypeOK, LifecycleInvariant, NEW p \in Threads, StopCore(p)
    PROVE  LifecycleInvariant'
<1>1. Go(p, "close")
  BY DEF StopCore
<1>2. Moves(p, "close") /\ epoch \in Nat /\ session <= epoch /\ req[p].token <= epoch
  BY <1>1, GoMoves DEF Steps, TypeOK, LifecycleInvariant, EpochsBelow
<1>3. /\ req[p].op = "suspend" /\ req[p].pc = "stop"
      /\ UNCHANGED <<mu, stateMu, state, epoch, cache, session, starts>>
      /\ ~running'
  BY DEF StopCore, At
<1>4. Holds(p) /\ Holds(p)' /\ req'[p].pc \in StepsOf[req'[p].op]
  BY <1>2, <1>3 DEF Holds, Moves, Becomes, StepsOf
<1> QED
  BY <1>2, <1>3, <1>4, HolderStep DEF Moves, Becomes

LEMMA AdvanceSafe ==
    ASSUME TypeOK, LifecycleInvariant, NEW p \in Threads, Advance(p)
    PROVE  LifecycleInvariant'
<1>1. /\ req[p].op = "tun" /\ req[p].pc = "advance"
      /\ UNCHANGED <<stateMu, state, cache, running, session, starts>>
      /\ Holds(p)
  BY DEF Advance, At, Holds
<1>2. CASE state.suspended
  BY <1>1, <1>2, ReleaseStep DEF Advance
<1>3. CASE ~state.suspended
  <2>1. epoch \in Nat /\ session <= epoch /\ req \in [Threads -> Request]
    BY DEF TypeOK, LifecycleInvariant, EpochsBelow
  <2>2. session \in Nat /\ epoch' = epoch + 1 /\ mu' = mu
    BY <1>3 DEF Advance, TypeOK
  <2>3. Becomes(p, "tun", "check", req[p].want, req[p].entry, epoch + 1, req[p].seen)
    BY <1>1, <1>3, <2>1 DEF Advance, Becomes, Request
  <2>4. Holds(p)' /\ req'[p].pc \in StepsOf[req'[p].op]
    BY <2>3 DEF Holds, Becomes, StepsOf
  <2> QED
    BY <1>1, <2>1, <2>2, <2>3, <2>4, HolderStep DEF Becomes
<1> QED
  BY <1>2, <1>3

LEMMA CheckSafe ==
    ASSUME TypeOK, LifecycleInvariant, NEW p \in Threads, Check(p)
    PROVE  LifecycleInvariant'
<1>1. /\ req[p].op \in {"update", "tun"} /\ req[p].pc = "check"
      /\ UNCHANGED <<stateMu, state, epoch, cache, running, session, starts>>
      /\ Holds(p) /\ req[p].op \in Ops
  BY DEF Check, Holds, LifecycleInvariant, StepsInOrder, StepsOf, TypeOK, Request, Ops
<1>2. CASE ~StillCurrent(p)
  BY <1>1, <1>2, ReleaseStep DEF Check
<1>3. CASE StillCurrent(p)
  <2>1. epoch \in Nat /\ session <= epoch /\ epoch = req[p].token /\ mu' = mu
    BY <1>3 DEF TypeOK, LifecycleInvariant, EpochsBelow, StillCurrent, Check
  <2>2. Moves(p, "apply")
    BY <1>3, GoMoves DEF Check, Steps
  <2>3. Holds(p)' /\ req'[p].pc \in StepsOf[req'[p].op]
    BY <1>1, <2>2 DEF Holds, Moves, Becomes, StepsOf
  <2> QED
    BY <1>1, <2>1, <2>2, <2>3, HolderStep DEF Moves, Becomes
<1> QED
  BY <1>2, <1>3

LEMMA UpdateAppliesSafe ==
    ASSUME TypeOK, LifecycleInvariant, NEW p \in Threads, UpdateApplies(p)
    PROVE  LifecycleInvariant'
BY ReleaseStep DEF UpdateApplies, Holds

LEMMA StartRefusedSafe ==
    ASSUME TypeOK, LifecycleInvariant, NEW p \in Threads, StartRefused(p)
    PROVE  LifecycleInvariant'
BY GiveUp DEF StartRefused, At, Pending

\* Taking mu, when it is free.
LEMMA AcquireStep ==
    ASSUME TypeOK, LifecycleInvariant, NEW p \in Threads,
           UNCHANGED <<stateMu, state, epoch, running, session, starts>>,
           mu = None, mu' = p, cache' \in {cache, "open"},
           req[p].pc = "lock", Holds(p)',
           req'[p].pc \notin {"fence", "close", "apply"},
           /\ req'[p].op = req[p].op /\ req'[p].want = req[p].want
           /\ req'[p].token = req[p].token /\ req'[p].seen = req[p].seen,
           req'[p].pc \in StepsOf[req'[p].op],
           \A q \in Threads \ {p} : req'[q] = req[q],
           req[p].op = "start" => /\ req'[p].entry = state /\ cache' = "open"
                                  /\ req[p].want.gen = state.gen,
           req[p].op \in {"update", "tun"} => ~state.suspended,
           req[p].op = "suspend" => req[p].want = state /\ req'[p].pc = "stop"
    PROVE  LifecycleInvariant'
<1>1. stateMu # p /\ \A q \in Threads : ~Holds(q)
  BY LifecycleAssumption DEF LifecycleInvariant, LocksHeld
<1>2. \A q \in Threads \ {p} :
        /\ Holds(q)' = Holds(q) /\ Pending(q)' = Pending(q)
        /\ Starting(q)' = Starting(q) /\ Stopping(q)' = Stopping(q)
  BY DEF Holds, Pending, Starting, Stopping
<1>3. \A q \in Threads : Requested(q)' = Requested(q)
  BY DEF Requested
<1>4. req[p].op \in {"start", "update", "tun", "suspend"}
  BY DEF LifecycleInvariant, StepsInOrder, StepsOf, TypeOK, Request, Ops
<1>5. /\ req[p].op = "start" => Starting(p)'
      /\ req[p].op = "suspend" => Stopping(p)'
  BY <1>1 DEF Starting, Stopping, Holds
<1>6. LocksHeld'
  BY <1>1, <1>2 DEF LifecycleInvariant, LocksHeld, Holds
<1>7. StepsInOrder'
  BY DEF LifecycleInvariant, StepsInOrder
<1>8. EpochsBelow'
  BY DEF LifecycleInvariant, EpochsBelow, TypeOK, Request
<1>9. EntryCurrent'
  BY <1>2 DEF LifecycleInvariant, EntryCurrent
<1>10. CacheHeld'
  <2>1. req[p].op \in {"update", "tun"} => ~Closed
    BY DEF LifecycleInvariant, CacheHeld
  <2>2. req[p].op = "suspend" => state.suspended
    BY <1>3 DEF LifecycleInvariant, StaleRequests, Requested
  <2>3. req'[p].pc = "stop" => req[p].op = "suspend"
    BY <1>4 DEF StepsOf
  <2>4. \A q \in Threads \ {p} : ~Holds(q)'
    BY <1>1, <1>2
  <2>5. \A q \in Threads \ {p} : req'[q].pc \notin {"stop", "close", "fence"}
    BY <1>1 DEF Holds
  <2>6. ~Closed => ~Closed'
    BY DEF Closed
  <2>7. req'[p].op # "suspend" => ~Closed' /\ (req'[p].op = "start" => cache' = "open")
    BY <1>4, <2>1, <2>6 DEF Closed
  <2>8. req'[p].pc \in {"stop", "close"} => state.suspended
    BY <2>2, <2>3
  <2>9. mu' # None
    BY LifecycleAssumption
  <2> QED
    BY <2>4, <2>5, <2>7, <2>8, <2>9 DEF CacheHeld
<1>11. SuspensionServed'
  <2>1. CASE req[p].op \in {"update", "tun"}
    BY <2>1 DEF SuspensionServed
  <2>2. CASE req[p].op \in {"start", "suspend"}
    <3>1. Stopping(p)'
      BY <1>5, <2>2 DEF Stopping
    <3> QED
      BY <3>1 DEF SuspensionServed
  <2> QED
    BY <1>4, <2>1, <2>2
<1>12. StaleRequests'
  <2>1. \A q \in Threads : Requested(q) /\ req[q].seen # starts => ~running
    BY <1>1 DEF LifecycleInvariant, StaleRequests, Starting
  <2>2. \A q \in Threads : req[q].op = "suspend" /\ req[q].pc # "request" =>
            req[q].want.suspended /\ req[q].want.gen <= state.gen
    BY DEF LifecycleInvariant, StaleRequests
  <2>3. \A q \in Threads : Holds(q)' => q = p
    BY <1>1, <1>2
  <2>4. \A q \in Threads : Requested(q) => req[p].op \in {"start", "suspend"}
    BY <1>4, <2>2 DEF Requested
  <2>5. \A q \in Threads : Requested(q)' /\ req'[q].seen # starts' =>
           /\ \A r \in Threads : Holds(r)' => Starting(r)' \/ req'[r].op = "suspend"
           /\ ~running'
    BY <1>3, <1>5, <2>1, <2>3, <2>4
  <2>6. \A q \in Threads : req'[q].pc = "stop" => q = p
    BY <1>1 DEF Holds
  <2>7. req'[p].pc = "stop" => Requested(p)
    BY <1>4 DEF Requested, StepsOf
  <2> QED
    BY <2>1, <2>2, <2>5, <2>6, <2>7 DEF StaleRequests
<1>13. UpdateInOwnSession'
  BY DEF LifecycleInvariant, UpdateInOwnSession, Applying
<1> QED
  BY <1>6, <1>7, <1>8, <1>9, <1>10, <1>11, <1>12, <1>13 DEF LifecycleInvariant

LEMMA LockActiveSafe ==
    ASSUME TypeOK, LifecycleInvariant, NEW p \in Threads, LockActive(p)
    PROVE  LifecycleInvariant'
<1>1. CASE state.suspended
  BY <1>1, GiveUp DEF LockActive, Pending
<1>2. CASE ~state.suspended
  <2>1. PICK pc \in {"advance", "check"} :
           Go(p, pc) /\ (pc = "advance" => req[p].op = "tun")
    BY <1>2 DEF LockActive
  <2>2. Moves(p, pc) /\ req[p].pc = "lock" /\ req[p].op \in {"update", "tun"}
    BY <2>1, GoMoves DEF Steps, LockActive
  <2>3. Holds(p)' /\ req'[p].pc \in StepsOf[req'[p].op]
    BY <2>1, <2>2 DEF Holds, Moves, Becomes, StepsOf
  <2>4. /\ mu = None /\ mu' = p /\ cache' = cache
        /\ UNCHANGED <<stateMu, state, epoch, running, session, starts>>
    BY <1>2 DEF LockActive, TypeOK
  <2> QED
    BY <1>2, <2>2, <2>3, <2>4, AcquireStep DEF Moves, Becomes
<1> QED
  BY <1>1, <1>2

LEMMA StartOpensSafe ==
    ASSUME TypeOK, LifecycleInvariant, NEW p \in Threads, StartOpens(p)
    PROVE  LifecycleInvariant'
<1>1. Becomes(p, "start", "parse", req[p].want, state, req[p].token, req[p].seen)
  BY DEF StartOpens, At, Becomes, TypeOK, Request
<1>2. Holds(p)' /\ req'[p].pc \in StepsOf[req'[p].op]
  BY <1>1 DEF Holds, Becomes, StepsOf
<1>3. cache' = "open"
  BY DEF StartOpens
<1>4. /\ mu = None /\ mu' = p /\ req[p].op = "start" /\ req[p].pc = "lock"
      /\ req[p].want.gen = state.gen
      /\ UNCHANGED <<stateMu, state, epoch, running, session, starts>>
  BY DEF StartOpens, At, Admitted
<1> QED
  BY <1>1, <1>2, <1>3, <1>4, AcquireStep DEF Becomes

LEMMA LockSuspendSafe ==
    ASSUME TypeOK, LifecycleInvariant, NEW p \in Threads, LockSuspend(p)
    PROVE  LifecycleInvariant'
<1>1. CASE ~StillRequested(p)
  BY <1>1, GiveUp DEF LockSuspend, At, Pending, StillRequested
<1>2. CASE StillRequested(p)
  <2>1. Moves(p, "stop") /\ req[p].pc = "lock" /\ req[p].op = "suspend"
    BY <1>2, GoMoves DEF Steps, LockSuspend, At
  <2>2. Holds(p)' /\ req'[p].pc \in StepsOf[req'[p].op]
    BY <2>1 DEF Holds, Moves, Becomes, StepsOf
  <2>3. /\ mu = None /\ mu' = p /\ cache' = cache
        /\ UNCHANGED <<stateMu, state, epoch, running, session, starts>>
        /\ req[p].want = state
    BY <1>2 DEF LockSuspend, TypeOK, StillRequested
  <2> QED
    BY <2>1, <2>2, <2>3, AcquireStep DEF Moves, Becomes
<1> QED
  BY <1>1, <1>2

LEMMA FenceSafe ==
    ASSUME TypeOK, LifecycleInvariant, NEW p \in Threads, Fence(p)
    PROVE  LifecycleInvariant'
<1>0. /\ Moves(p, "close") /\ req[p].op = "start" /\ req[p].pc = "fence"
      /\ UNCHANGED <<mu, stateMu, epoch, cache, running, session, starts>>
      /\ state' = Fenced(p)
  BY GoMoves DEF Fence, At, Steps
<1>1. mu = p /\ stateMu # p /\ \A q \in Threads \ {p} : ~Holds(q)
  BY <1>0 DEF LifecycleInvariant, LocksHeld, Holds
<1>2. \A q \in Threads : Holds(q)' = Holds(q)
  BY <1>0 DEF Holds, Moves, Becomes
<1>3. /\ state' = state \/ state = req[p].entry
      /\ state'.gen = state.gen /\ state'.suspended
  BY <1>0 DEF Fenced, LifecycleInvariant, EntryCurrent, Holds, TypeOK, State
<1>4. ~running
  BY <1>0 DEF LifecycleInvariant, CacheHeld
<1>5. Stopping(p)'
  BY <1>0 DEF Stopping, Moves, Becomes
<1>6. LocksHeld'
  BY <1>0, <1>1, <1>2 DEF LifecycleInvariant, LocksHeld, Moves, Becomes
<1>7. StepsInOrder'
  BY <1>0 DEF LifecycleInvariant, StepsInOrder, StepsOf, Moves, Becomes
<1>8. EpochsBelow'
  BY <1>0 DEF LifecycleInvariant, EpochsBelow, Moves, Becomes
<1>9. EntryCurrent'
  BY <1>0, <1>1, <1>2 DEF LifecycleInvariant, EntryCurrent, Moves, Becomes
<1>10. CacheHeld'
  BY <1>0, <1>1, <1>2, <1>3, <1>4, LifecycleAssumption
     DEF LifecycleInvariant, CacheHeld, Moves, Becomes
<1>11. SuspensionServed'
  BY <1>5 DEF SuspensionServed
<1>12. StaleRequests'
  <2>1. \A q \in Threads : req'[q].op = req[q].op /\ req'[q].want = req[q].want
    BY <1>0 DEF Moves, Becomes
  <2>2. \A q \in Threads : req[q].op = "suspend" => q # p /\ req'[q] = req[q]
    BY <1>0 DEF Moves, Becomes
  <2>3. \A q \in Threads : Holds(q)' => req'[q].pc = "close"
    BY <1>0, <1>1, <1>2 DEF Moves, Becomes
  <2> QED
    BY <1>0, <1>3, <1>4, <2>1, <2>2, <2>3 DEF LifecycleInvariant, StaleRequests
<1>13. UpdateInOwnSession'
  BY <1>0 DEF LifecycleInvariant, UpdateInOwnSession, Applying, Moves, Becomes
<1> QED
  BY <1>6, <1>7, <1>8, <1>9, <1>10, <1>11, <1>12, <1>13 DEF LifecycleInvariant

\* What giving up mu at the end of a call changes for the other threads.
LEMMA OthersIdle ==
    ASSUME TypeOK, LifecycleInvariant, NEW p \in Threads, Holds(p), Return(p)
    PROVE  /\ Ends(p) /\ mu = p /\ stateMu # p
           /\ \A q \in Threads : ~Holds(q)'
           /\ \A q \in Threads : ~Stopping(q)' /\ ~Starting(q)'
           /\ \A q \in Threads : req'[q].pc \notin {"stop", "close", "fence", "apply", "activate"}
           /\ req'[p].pc # "invalidate"
<1>1. Ends(p)
  BY ReturnEnds
<1>2. mu = p /\ stateMu # p /\ \A q \in Threads \ {p} : ~Holds(q)
  BY DEF LifecycleInvariant, LocksHeld, Holds
<1>3. \A q \in Threads : ~Holds(q)'
  BY <1>1, <1>2 DEF Ends, Holds
<1> QED
  BY <1>1, <1>2, <1>3 DEF Ends, Stopping, Starting, Holds

LEMMA ActivateSafe ==
    ASSUME TypeOK, LifecycleInvariant, NEW p \in Threads, Activate(p)
    PROVE  LifecycleInvariant'
<1>0. /\ req[p].op = "start" /\ req[p].pc = "activate" /\ Holds(p) /\ Return(p) /\ mu' = None
      /\ UNCHANGED <<stateMu, epoch, cache, running, session>>
  BY DEF Activate, At, Holds
<1>1. /\ Ends(p) /\ mu = p /\ stateMu # p
      /\ \A q \in Threads : ~Holds(q)' /\ ~Stopping(q)' /\ ~Starting(q)'
      /\ \A q \in Threads : req'[q].pc \notin {"stop", "close", "fence", "apply", "activate"}
  BY <1>0, OthersIdle
<1>2. state'.gen = state.gen
  BY DEF Activate, TypeOK, State
<1>3. LocksHeld'
  BY <1>0, <1>1, LifecycleAssumption DEF LifecycleInvariant, LocksHeld, Ends
<1>4. StepsInOrder'
  BY <1>1 DEF LifecycleInvariant, StepsInOrder, StepsOf, Ends
<1>5. EpochsBelow'
  BY <1>0, <1>1 DEF LifecycleInvariant, EpochsBelow, TypeOK, Ends
<1>6. EntryCurrent'
  BY <1>1 DEF EntryCurrent
<1>7. ~Closed' /\ cache = "open"
  BY <1>0 DEF LifecycleInvariant, CacheHeld, Closed
<1>8. CacheHeld'
  BY <1>0, <1>1, <1>7 DEF CacheHeld
<1>9. \A q \in Threads : req[q].op = "suspend" => q # p /\ req'[q] = req[q]
  BY <1>0, <1>1 DEF Ends
<1>10. CASE MayActivate(p)
  <2>1. ~state'.suspended
    BY <1>10 DEF Activate, TypeOK, State
  <2>2. SuspensionServed'
    BY <2>1 DEF SuspensionServed
  <2>3. \A q \in Threads : req'[q].op = "suspend" => q # p /\ req'[q] = req[q]
    BY <1>1 DEF Ends
  <2>4. \A q \in Threads : req'[q].op = "suspend" /\ req'[q].pc # "request" =>
            req'[q].want.suspended /\ req'[q].want.gen <= state'.gen
    BY <1>2, <2>3 DEF LifecycleInvariant, StaleRequests
  <2>5. \A q \in Threads : ~Requested(q)'
    BY <2>1, <2>4 DEF Requested
  <2>6. StaleRequests'
    BY <1>1, <2>4, <2>5 DEF StaleRequests
  <2> QED
    BY <1>1, <1>3, <1>4, <1>5, <1>6, <1>8, <2>2, <2>6
       DEF LifecycleInvariant, UpdateInOwnSession, Applying
<1>11. CASE ~MayActivate(p)
  <2>1. state' = state /\ starts' = starts /\ ~Starting(p) /\ ~Stopping(p) /\ state.suspended
    BY <1>0, <1>11 DEF Activate, MayActivate, Starting, Stopping, LifecycleInvariant, EntryCurrent
  <2>2. \A q \in Threads \ {p} : ~Starting(q) /\ ~Stopping(q)
    BY <1>1 DEF Starting, Stopping, LifecycleInvariant, LocksHeld, Holds
  <2>3. PICK q \in Threads : Pending(q)
    BY <1>1, <2>1, <2>2, LifecycleAssumption DEF LifecycleInvariant, SuspensionServed
  <2>4. Pending(q)'
    BY <1>9, <2>1, <2>3 DEF Pending
  <2>5. SuspensionServed'
    BY <2>4 DEF SuspensionServed
  <2>6. \A r \in Threads : Requested(r) => req[r].seen = starts
    BY <1>0, <2>1 DEF LifecycleInvariant, StaleRequests
  <2>7. \A r \in Threads : req'[r].op = "suspend" => r # p /\ req'[r] = req[r]
    BY <1>1 DEF Ends
  <2>8. \A r \in Threads : Requested(r)' => Requested(r) /\ req'[r].seen = req[r].seen
    BY <2>1, <2>7 DEF Requested
  <2>9. StaleRequests'
    BY <1>1, <2>1, <2>6, <2>7, <2>8 DEF LifecycleInvariant, StaleRequests
  <2> QED
    BY <1>1, <1>3, <1>4, <1>5, <1>6, <1>8, <2>5, <2>9
       DEF LifecycleInvariant, UpdateInOwnSession, Applying
<1> QED
  BY <1>10, <1>11

LEMMA CloseSafe ==
    ASSUME TypeOK, LifecycleInvariant, NEW p \in Threads, Close(p)
    PROVE  LifecycleInvariant'
<1>0. /\ req[p].pc = "close" /\ Holds(p) /\ Return(p) /\ mu' = None /\ cache' # "open"
      /\ UNCHANGED <<stateMu, state, epoch, running, session, starts>>
      /\ state.suspended /\ ~running
  BY DEF Close, CloseDatabase, Holds, LifecycleInvariant, CacheHeld
<1>1. /\ Ends(p) /\ mu = p /\ stateMu # p
      /\ \A q \in Threads : ~Holds(q)' /\ ~Stopping(q)' /\ ~Starting(q)'
      /\ \A q \in Threads : req'[q].pc \notin {"stop", "close", "fence", "apply", "activate"}
  BY <1>0, OthersIdle
<1>3. LocksHeld'
  BY <1>0, <1>1, LifecycleAssumption DEF LifecycleInvariant, LocksHeld, Ends
<1>4. StepsInOrder'
  BY <1>1 DEF LifecycleInvariant, StepsInOrder, StepsOf, Ends
<1>5. EpochsBelow'
  BY <1>0, <1>1 DEF LifecycleInvariant, EpochsBelow, TypeOK, Ends
<1>6. EntryCurrent'
  BY <1>1 DEF EntryCurrent
<1>7. CacheHeld'
  BY <1>0, <1>1 DEF CacheHeld
<1>8. SuspensionServed'
  BY <1>0 DEF SuspensionServed
<1>9. StaleRequests'
  <2>1. \A r \in Threads : req'[r].op = "suspend" => r # p /\ req'[r] = req[r]
    BY <1>1 DEF Ends
  <2> QED
    BY <1>0, <1>1, <2>1 DEF LifecycleInvariant, StaleRequests
<1> QED
  BY <1>1, <1>3, <1>4, <1>5, <1>6, <1>7, <1>8, <1>9
     DEF LifecycleInvariant, UpdateInOwnSession, Applying

LEMMA RequestSuspendSafe ==
    ASSUME TypeOK, LifecycleInvariant, NEW p \in Threads, RequestSuspend(p)
    PROVE  LifecycleInvariant'
<1>0. /\ req[p].op = "suspend" /\ req[p].pc = "request" /\ stateMu = None /\ stateMu' = p
      /\ UNCHANGED <<mu, epoch, cache, running, session, starts>>
      /\ state' = [gen |-> state.gen + 1, suspended |-> TRUE]
  BY DEF RequestSuspend, At
<1>1. Becomes(p, "suspend", "invalidate", state', req[p].entry, req[p].token, starts)
  BY <1>0 DEF RequestSuspend, Becomes, TypeOK, Request
<1>2. state.gen \in Nat /\ state'.gen = state.gen + 1 /\ state'.suspended
  BY <1>0 DEF TypeOK, State
<1>3. /\ Pending(p)' /\ ~Holds(p) /\ ~Holds(p)'
      /\ \A q \in Threads \ {p} : Holds(q)' = Holds(q)
  BY <1>0, <1>1 DEF Pending, Holds, Becomes
<1>4. LocksHeld'
  BY <1>0, <1>1, <1>3, LifecycleAssumption DEF LifecycleInvariant, LocksHeld, Becomes
<1>5. StepsInOrder'
  BY <1>1 DEF LifecycleInvariant, StepsInOrder, StepsOf, Becomes
<1>6. EpochsBelow'
  BY <1>0, <1>1 DEF LifecycleInvariant, EpochsBelow, Becomes
<1>7. EntryCurrent'
  <2>1. \A q \in Threads : req[q].entry.gen \in Nat
    BY DEF TypeOK, Request, State
  <2>2. \A q \in Threads : req'[q].op = "start" => q # p /\ req'[q] = req[q]
    BY <1>1 DEF Becomes
  <2>3. ASSUME NEW q \in Threads, req[q].op = "start", Holds(q), req[q].pc # "close"
        PROVE  state'.gen > req[q].entry.gen
    <3>1. state = req[q].entry \/ state.gen > req[q].entry.gen
      BY <2>3 DEF LifecycleInvariant, EntryCurrent
    <3>2. state.gen >= req[q].entry.gen
      BY <1>2, <2>1, <3>1
    <3> QED
      BY <1>2, <2>1, <3>2
  <2> QED
    BY <1>2, <1>3, <2>2, <2>3 DEF LifecycleInvariant, EntryCurrent
<1>8. CacheHeld'
  BY <1>0, <1>1, <1>2, <1>3 DEF LifecycleInvariant, CacheHeld, Closed, Becomes
<1>9. SuspensionServed'
  BY <1>3 DEF SuspensionServed
<1>10. StaleRequests'
  <2>1. \A q \in Threads : req[q].want.gen \in Nat
    BY DEF TypeOK, Request, State
  <2>2. \A q \in Threads \ {p} : req[q].op = "suspend" /\ req[q].pc # "request" =>
            req[q].want.suspended /\ req[q].want.gen <= state.gen
    BY DEF LifecycleInvariant, StaleRequests
  <2>3. \A q \in Threads \ {p} : req[q].op = "suspend" /\ req[q].pc # "request" =>
            req[q].want # state' /\ req[q].want.gen <= state'.gen
    BY <1>2, <2>1, <2>2
  <2>4. \A q \in Threads : Requested(q)' => q = p
    BY <1>1, <2>3 DEF Requested, Becomes
  <2>5. state'.gen <= state'.gen
    BY <1>2
  <2>6. \A q \in Threads : req'[q].pc = "stop" => q # p /\ req'[q] = req[q]
    BY <1>1 DEF Becomes
  <2>7. \A q \in Threads : req'[q].pc = "stop" /\ running => req'[q].seen = starts
    BY <2>6 DEF LifecycleInvariant, StaleRequests
  <2> QED
    BY <1>0, <1>1, <1>2, <2>2, <2>3, <2>4, <2>5, <2>7 DEF StaleRequests, Becomes
<1>11. UpdateInOwnSession'
  BY <1>0, <1>1 DEF LifecycleInvariant, UpdateInOwnSession, Applying, Becomes
<1> QED
  BY <1>4, <1>5, <1>6, <1>7, <1>8, <1>9, <1>10, <1>11 DEF LifecycleInvariant

LEMMA InvalidateUpdatesSafe ==
    ASSUME TypeOK, LifecycleInvariant, NEW p \in Threads, InvalidateUpdates(p)
    PROVE  LifecycleInvariant'
<1>0. /\ Moves(p, "lock") /\ req[p].op = "suspend" /\ req[p].pc = "invalidate"
      /\ UNCHANGED <<mu, state, cache, running, session, starts>>
      /\ stateMu' = None /\ epoch' = epoch + 1
  BY GoMoves DEF InvalidateUpdates, At, Steps, BumpEpoch
<1>1. \A q \in Threads :
        /\ Holds(q)' = Holds(q) /\ Pending(q)' = Pending(q)
        /\ Requested(q)' = Requested(q)
        /\ req'[q].op = req[q].op /\ req'[q].want = req[q].want /\ req'[q].seen = req[q].seen
        /\ req'[q].entry = req[q].entry /\ req'[q].token = req[q].token
  BY <1>0 DEF Holds, Pending, Requested, Moves, Becomes
<1>2. \A q \in Threads : Starting(q)' = Starting(q) /\ Stopping(q)' = Stopping(q)
  BY <1>0, <1>1 DEF Starting, Stopping, Moves, Becomes
<1>3. /\ \A q \in Threads \ {p} : req'[q] = req[q] /\ stateMu # q
      /\ req'[p].pc = "lock" /\ req[p].pc = "invalidate"
  BY <1>0 DEF Moves, Becomes, LifecycleInvariant, LocksHeld
<1>4. LocksHeld'
  BY <1>0, <1>1, <1>3, LifecycleAssumption DEF LifecycleInvariant, LocksHeld
<1>5. StepsInOrder'
  BY <1>0 DEF LifecycleInvariant, StepsInOrder, StepsOf, Moves, Becomes
<1>6. EpochsBelow'
  BY <1>0, <1>1 DEF LifecycleInvariant, EpochsBelow, TypeOK, Request
<1>7. EntryCurrent'
  BY <1>0, <1>1, <1>3 DEF LifecycleInvariant, EntryCurrent
<1>8. CacheHeld'
  BY <1>0, <1>1, <1>3 DEF LifecycleInvariant, CacheHeld, Closed
<1>9. SuspensionServed'
  BY <1>0, <1>1, <1>2 DEF LifecycleInvariant, SuspensionServed
<1>10. StaleRequests'
  <2>1. \A q \in Threads : req'[q].pc = req[q].pc \/ q = p
    BY <1>3
  <2>2. \A q \in Threads : ~Holds(q) \/ q # p
    BY <1>3 DEF Holds
  <2> QED
    BY <1>0, <1>1, <1>2, <1>3, <2>1, <2>2 DEF LifecycleInvariant, StaleRequests
<1>11. UpdateInOwnSession'
  BY <1>0, <1>1, <1>3 DEF LifecycleInvariant, UpdateInOwnSession, Applying
<1> QED
  BY <1>4, <1>5, <1>6, <1>7, <1>8, <1>9, <1>10, <1>11 DEF LifecycleInvariant

\* Steps outside every thread: the epoch, or the cache file, moves on its own.
LEMMA EnvironmentSafe ==
    ASSUME TypeOK, LifecycleInvariant, CancelPending \/ Reopen \/ UNCHANGED vars
    PROVE  LifecycleInvariant'
<1>1. /\ UNCHANGED <<mu, stateMu, state, running, session, req, starts>>
      /\ epoch' \in {epoch, epoch + 1}
      /\ cache' \in {cache, "reopened"} /\ (cache' = "open" <=> cache = "open")
  BY DEF CancelPending, Reopen, vars
<1>2. EpochsBelow'
  BY <1>1 DEF LifecycleInvariant, EpochsBelow, TypeOK, Request
<1>3. LocksHeld' /\ StepsInOrder' /\ EntryCurrent' /\ StaleRequests' /\ UpdateInOwnSession'
  BY <1>1 DEF LifecycleInvariant, LocksHeld, StepsInOrder, EntryCurrent, StaleRequests,
     UpdateInOwnSession, Holds, Starting, Requested, Applying
<1>4. CacheHeld'
  BY <1>1 DEF LifecycleInvariant, CacheHeld, Closed, Holds
<1>5. SuspensionServed'
  BY <1>1 DEF LifecycleInvariant, SuspensionServed, Pending, Stopping, Starting, Holds
<1> QED
  BY <1>2, <1>3, <1>4, <1>5 DEF LifecycleInvariant

LEMMA SafeStep == TypeOK /\ LifecycleInvariant /\ [Next]_vars => LifecycleInvariant'
BY EnterSafe, AdmitSafe, StartRefusedSafe, StartOpensSafe, ParseSafe, StartAppliesSafe,
   CleanupSafe, FenceSafe, ActivateSafe, CloseSafe, LockActiveSafe, AdvanceSafe, CheckSafe,
   UpdateAppliesSafe, RequestSuspendSafe, InvalidateUpdatesSafe, LockSuspendSafe,
   StopCoreSafe, EnvironmentSafe, Zenon DEF Next, Step

LEMMA SafeInit == Init => LifecycleInvariant
<1> SUFFICES ASSUME Init PROVE LifecycleInvariant
  OBVIOUS
<1>1. /\ \A p \in Threads : req[p].op = "none" /\ req[p].pc = "idle" /\ req[p].token = 0
      /\ mu = None /\ stateMu = None /\ epoch = 0 /\ session = 0
      /\ ~state.suspended
  BY DEF Init, Idle
<1>2. ~Closed /\ ~running
  BY Zenon DEF Init, Closed
<1>3. \A p \in Threads : ~Holds(p) /\ ~Requested(p) /\ p # None
  BY <1>1, LifecycleAssumption DEF Holds, Requested
<1> QED
  BY <1>1, <1>2, <1>3 DEF LifecycleInvariant, LocksHeld, StepsInOrder, StepsOf, EpochsBelow,
     EntryCurrent, CacheHeld, SuspensionServed, StaleRequests, UpdateInOwnSession, Applying

\* The inductive invariant of the two mutexes, the state word and the epoch
\* holds for any number of threads and calls.
THEOREM LifecycleCorrect == Spec => []LifecycleInvariant
<1> QED
  BY SafeInit, SafeStep, TypeCorrect, PTL DEF Spec

\* A suspended core is down and no start left its database open, or a suspend
\* that will see to it is pending.
THEOREM SuspendedMeansStoppedCorrect == Spec => []SuspendedMeansStopped
<1>1. LifecycleInvariant => SuspendedMeansStopped
  BY LifecycleAssumption DEF LifecycleInvariant, LocksHeld, SuspensionServed, SuspendedMeansStopped,
     Stopping, Starting, Holds
<1> QED
  BY <1>1, LifecycleCorrect, PTL

\* Nothing is applied once a suspend or a failed start closed the database.
THEOREM AppliesHaveCacheCorrect == Spec => []AppliesHaveCache
<1>1. LifecycleInvariant => AppliesHaveCache
  BY DEF LifecycleInvariant, StepsInOrder, StepsOf, CacheHeld, AppliesHaveCache, Applying, Holds
<1> QED
  BY <1>1, LifecycleCorrect, PTL

\* An update never reaches a core whose start was called after its epoch was taken.
THEOREM UpdateInOwnSessionCorrect == Spec => []UpdateInOwnSession
<1>1. LifecycleInvariant => UpdateInOwnSession
  BY DEF LifecycleInvariant
<1> QED
  BY <1>1, LifecycleCorrect, PTL

\* A suspend does not stop a core brought back after it was requested.
THEOREM StaleSuspendHarmlessCorrect == Spec => StaleSuspendHarmless
<1>1. ASSUME LifecycleInvariant, NEW p \in Threads, StopCore(p), running
      PROVE  req[p].seen = starts
  <2>1. req[p].op = "suspend" /\ req[p].pc = "stop" /\ mu = p
    BY <1>1 DEF StopCore, At, LifecycleInvariant, LocksHeld, Holds
  <2> QED
    BY <1>1, <2>1 DEF LifecycleInvariant, StaleRequests
<1>2. LifecycleInvariant =>
         [\A p \in Threads : StopCore(p) /\ running => req[p].seen = starts]_vars
  BY <1>1
<1> QED
  BY <1>2, LifecycleCorrect, PTL DEF StaleSuspendHarmless

\* A start admitted before a suspend request never lifts the suspension.
THEOREM SuspendFencesStartCorrect == Spec => SuspendFencesStart
<1>1. ASSUME LifecycleInvariant, state.suspended, ~state'.suspended,
             NEW p \in Threads, Activate(p)
      PROVE  req[p].want.gen = state.gen
  <2>1. MayActivate(p) /\ req[p].op = "start" /\ Holds(p)
    BY <1>1 DEF Activate, At, Holds
  <2> QED
    BY <1>1, <2>1 DEF MayActivate, LifecycleInvariant, EntryCurrent
<1>2. LifecycleInvariant =>
         [state.suspended /\ ~state'.suspended =>
             \A p \in Threads : Activate(p) => req[p].want.gen = state.gen]_vars
  BY <1>1
<1> QED
  BY <1>2, LifecycleCorrect, PTL DEF SuspendFencesStart

-----------------------------------------------------------------------------
(* Every call returns.  A call has a few steps left; a thread's own steps   *)
(* take at least one away and nobody else's step adds to them.  stateMu is  *)
(* held for one step, so it is free again and again; then every holder of   *)
(* mu goes on to its release, so mu is free again and again as well.        *)

StepsLeft(p) ==
    CASE req[p].pc \in {"admit", "request"}            -> 9
      [] req[p].pc = "invalidate"                      -> 8
      [] req[p].pc = "lock"                            -> 7
      [] req[p].pc \in {"parse", "advance"}            -> 6
      [] req[p].pc = "check"                           -> 5
      [] req[p].pc = "apply"                           -> 4
      [] req[p].pc = "cleanup"                         -> 3
      [] req[p].pc \in {"fence", "activate", "stop"}   -> 2
      [] req[p].pc = "close"                           -> 1
      [] OTHER                                         -> 0

Within(p, n) == StepsLeft(p) <= n
Returned(p) == req[p].pc = "idle"
Descent(p, n, m) == Within(p, n) ~> Within(p, m)

LEMMA StepsLeftBound ==
    ASSUME TypeOK, NEW p \in Threads
    PROVE  StepsLeft(p) \in 0..9 /\ (StepsLeft(p) = 0 <=> Returned(p))
<1>1. req[p].pc \in Steps
  BY DEF TypeOK, Request
<1> QED
  BY <1>1 DEF StepsLeft, Returned, Steps

\* A thread's own step is nearer to its return.
LEMMA StepDescends ==
    ASSUME TypeOK, NEW p \in Threads, Step(p)
    PROVE  StepsLeft(p)' < StepsLeft(p)
<1>1. req \in [Threads -> Request] /\ Idle.pc = "idle"
  BY DEF TypeOK, Idle
<1>2. ASSUME NEW pc, Go(p, pc) PROVE req'[p].pc = pc
  BY <1>1, <1>2 DEF Go, Request
<1>3. Return(p) => req'[p].pc = "idle"
  BY <1>1 DEF Return
<1>4. CASE Admit(p) \/ StartOpens(p) \/ RequestSuspend(p)
  BY <1>1, <1>4 DEF Admit, StartOpens, RequestSuspend, At, StepsLeft, Request
<1>5. CASE StartRefused(p) \/ Activate(p) \/ Close(p) \/ UpdateApplies(p)
  <2>1. req[p].pc \in {"lock", "activate", "close", "apply"} /\ req'[p].pc = "idle"
    BY <1>3, <1>5 DEF StartRefused, Activate, Close, UpdateApplies, At
  <2> QED
    BY <2>1 DEF StepsLeft
<1>6. CASE Parse(p) \/ Cleanup(p) \/ Fence(p) \/ StopCore(p) \/ InvalidateUpdates(p)
  BY <1>2, <1>6 DEF Parse, Cleanup, Fence, StopCore, InvalidateUpdates, At, StepsLeft
<1>7. CASE StartApplies(p)
  BY <1>2, <1>7 DEF StartApplies, At, StepsLeft
<1>8. CASE LockActive(p)
  BY <1>2, <1>3, <1>8 DEF LockActive, StepsLeft
<1>9. CASE Advance(p)
  BY <1>1, <1>3, <1>9 DEF Advance, At, StepsLeft, Request
<1>10. CASE Check(p) \/ LockSuspend(p)
  BY <1>2, <1>3, <1>10 DEF Check, LockSuspend, At, StepsLeft
<1> QED
  BY <1>4, <1>5, <1>6, <1>7, <1>8, <1>9, <1>10 DEF Step

\* Nobody else touches a thread inside a call.
LEMMA OthersStay ==
    ASSUME TypeOK, NEW p \in Threads, ~Returned(p), [Next]_vars
    PROVE  Step(p) \/ req'[p] = req[p]
<1>1. req \in [Threads -> Request]
  BY DEF TypeOK
<1>2. ASSUME NEW q \in Threads, Enter(q) PROVE req'[p] = req[p]
  <2>1. PICK r : req[q].pc = "idle" /\ req' = [req EXCEPT ![q] = r]
    BY <1>2 DEF Enter, Start, Update, SetTun, Suspend, Call
  <2> QED
    BY <1>1, <2>1 DEF Returned
<1>3. ASSUME NEW q \in Threads, q # p, Step(q) PROVE req'[p] = req[p]
  <2>1. \E r : req' = [req EXCEPT ![q] = r]
    BY <1>3 DEF Step, Admit, StartRefused, StartOpens, Parse, StartApplies, Cleanup, Fence,
                Activate, Close, LockActive, Advance, Check, UpdateApplies, RequestSuspend,
                InvalidateUpdates, LockSuspend, StopCore, Go, Return
  <2> QED
    BY <1>1, <1>3, <2>1
<1>4. CASE CancelPending \/ Reopen \/ UNCHANGED vars
  BY <1>4 DEF CancelPending, Reopen, vars
<1> QED
  BY <1>2, <1>3, <1>4 DEF Next

\* What the proof uses of a behaviour in which the mutexes are handed over.
LEMMA FairFacts ==
    ASSUME NEW p \in Threads
    PROVE  HandOverSpec => [][Next]_vars /\ []TypeOK /\ []LifecycleInvariant /\ HandOver(p)
<1>1. HandOverSpec => Spec /\ HandOver(p)
  BY DEF HandOverSpec
<1> QED
  BY <1>1, TypeCorrect, LifecycleCorrect, PTL DEF Spec

LEMMA StateMuKept ==
    ASSUME TypeOK, LocksHeld, LocksHeld', NEW p \in Threads, stateMu = p, [Next]_vars
    PROVE  stateMu' = p \/ stateMu' = None
<1>1. req[p].pc = "invalidate"
  BY DEF LocksHeld
<1>2. CASE Step(p)
  BY <1>1, <1>2 DEF Step, Admit, StartRefused, StartOpens, Parse, StartApplies, Cleanup, Fence,
       Activate, Close, LockActive, Advance, Check, UpdateApplies, RequestSuspend,
       InvalidateUpdates, LockSuspend, StopCore, At
<1>3. CASE req'[p] = req[p]
  BY <1>1, <1>3 DEF LocksHeld
<1> QED
  BY <1>1, <1>2, <1>3, OthersStay DEF Returned

LEMMA StateMuGiven ==
    ASSUME LocksHeld, NEW p \in Threads, stateMu = p, Step(p)
    PROVE  stateMu' = None
<1>1. req[p].pc = "invalidate"
  BY DEF LocksHeld
<1> QED
  BY <1>1 DEF Step, Admit, StartRefused, StartOpens, Parse, StartApplies, Cleanup, Fence,
       Activate, Close, LockActive, Advance, Check, UpdateApplies, RequestSuspend,
       InvalidateUpdates, LockSuspend, StopCore, At

\* The owner of stateMu gives it up in its next step.
StateMuReleased(p) == (stateMu = p) ~> (stateMu = None)

LEMMA StateMuRelease ==
    ASSUME NEW p \in Threads
    PROVE  HandOverSpec /\ []NoneStuck => StateMuReleased(p)
<1>1. TypeOK /\ LocksHeld /\ LocksHeld' /\ stateMu = p /\ [Next]_vars
        => (stateMu = p)' \/ (stateMu = None)'
  BY StateMuKept
<1>2. LocksHeld /\ stateMu = p /\ <<Step(p)>>_vars => (stateMu = None)'
  BY StateMuGiven
<1>3. LocksHeld /\ NoneStuck /\ stateMu = p => ENABLED <<Step(p)>>_vars
  BY DEF LocksHeld, NoneStuck, Waits
<1>4. LifecycleInvariant => LocksHeld
  BY DEF LifecycleInvariant
<1> QED
  BY <1>1, <1>2, <1>3, <1>4, FairFacts, PTL DEF HandOver, StateMuReleased

LEMMA MuKept ==
    ASSUME TypeOK, LocksHeld, LocksHeld', NEW p \in Threads, mu = p, [Next]_vars
    PROVE  mu' = p \/ mu' = None
<1>1. Holds(p)
  BY DEF LocksHeld
<1>2. CASE Step(p)
  BY <1>2, LifecycleAssumption DEF Step, Admit, StartRefused, StartOpens, Parse, StartApplies,
       Cleanup, Fence, Activate, Close, LockActive, Advance, Check, UpdateApplies,
       RequestSuspend, InvalidateUpdates, LockSuspend, StopCore
<1>3. CASE req'[p] = req[p]
  BY <1>1, <1>3 DEF LocksHeld, Holds
<1> QED
  BY <1>1, <1>2, <1>3, OthersStay DEF Holds, Returned

\* With its mutex free again and again, a call goes on.
LEMMA DescendsAt ==
    ASSUME NEW p \in Threads, NEW n \in 1..9, NEW m \in 0..9, n = m + 1
    PROVE  /\ n # 7 => (HandOverSpec /\ []NoneStuck /\ []<>(stateMu = None) => Descent(p, n, m))
           /\ n = 7 => (HandOverSpec /\ []NoneStuck /\ []<>(mu = None) => Descent(p, n, m))
<1> DEFINE Here == StepsLeft(p) = n
           There == Within(p, m)
<1>1. TypeOK /\ Within(p, n) => Here \/ There
  BY StepsLeftBound DEF Within
<1>2. TypeOK /\ TypeOK' /\ Here /\ [Next]_vars => Here' \/ There'
  <2>1. TypeOK' => (StepsLeft(p) \in 0..9)'
    BY StepsLeftBound, PTL
  <2>2. req'[p] = req[p] => StepsLeft(p)' = StepsLeft(p)
    BY DEF StepsLeft
  <2> QED
    BY <2>1, <2>2, StepsLeftBound, StepDescends, OthersStay DEF Within
<1>3. TypeOK /\ TypeOK' /\ Here /\ <<Step(p)>>_vars => There'
  <2>1. TypeOK' => (StepsLeft(p) \in 0..9)'
    BY StepsLeftBound, PTL
  <2> QED
    BY <2>1, StepsLeftBound, StepDescends DEF Within
<1>4. TypeOK /\ NoneStuck /\ Here /\ stateMu = None /\ n # 7 => ENABLED <<Step(p)>>_vars
  BY StepsLeftBound DEF NoneStuck, Waits, StepsLeft, Returned
<1>5. TypeOK /\ NoneStuck /\ Here /\ mu = None /\ n = 7 => ENABLED <<Step(p)>>_vars
  BY StepsLeftBound DEF NoneStuck, Waits, StepsLeft, Returned
<1> HIDE DEF Here, There
<1>6. HandOverSpec => [][Next]_vars /\ []TypeOK /\ []LifecycleInvariant /\ HandOver(p)
  BY FairFacts
<1>7. ASSUME n # 7
      PROVE  HandOverSpec /\ []NoneStuck /\ []<>(stateMu = None) => (Within(p, n) ~> There)
  <2>1. TypeOK /\ NoneStuck /\ Here /\ stateMu = None => ENABLED <<Step(p)>>_vars
    BY <1>4, <1>7
  <2> QED
    BY <1>1, <1>2, <1>3, <1>6, <2>1, PTL DEF HandOver
<1>8. ASSUME n = 7
      PROVE  HandOverSpec /\ []NoneStuck /\ []<>(mu = None) => (Within(p, n) ~> There)
  <2>1. TypeOK /\ NoneStuck /\ Here /\ mu = None => ENABLED <<Step(p)>>_vars
    BY <1>5, <1>8
  <2> QED
    BY <1>1, <1>2, <1>3, <1>6, <2>1, PTL DEF HandOver
<1> QED
  BY <1>7, <1>8 DEF There, Descent

\* The owner of mu, whom only a holder of stateMu can delay, gives it up.
MuReleased(p) == (mu = p) ~> (mu = None)

LEMMA MuRelease ==
    ASSUME NEW p \in Threads
    PROVE  HandOverSpec /\ []NoneStuck /\ []<>(stateMu = None) => MuReleased(p)
<1> DEFINE D(n, m) == HandOverSpec /\ []NoneStuck /\ []<>(stateMu = None) => Descent(p, n, m)
<1>1. D(6, 5) /\ D(5, 4) /\ D(4, 3) /\ D(3, 2) /\ D(2, 1) /\ D(1, 0)
  BY DescendsAt
<1>2. TypeOK /\ LocksHeld /\ mu = p => Within(p, 6)
  BY DEF TypeOK, LocksHeld, Holds, StepsLeft, Within
<1>3. TypeOK /\ LocksHeld /\ Within(p, 0) => ~(mu = p)
  BY StepsLeftBound DEF LocksHeld, Holds, Returned, Within
<1>4. TypeOK /\ LocksHeld /\ LocksHeld' /\ mu = p /\ [Next]_vars => (mu = p)' \/ (mu = None)'
  BY MuKept
<1>5. HandOverSpec => [][Next]_vars /\ []TypeOK /\ []LifecycleInvariant /\ HandOver(p)
  BY FairFacts
<1>6. LifecycleInvariant => LocksHeld
  BY DEF LifecycleInvariant
<1> QED
  BY <1>1, <1>2, <1>3, <1>4, <1>5, <1>6, PTL DEF Descent, MuReleased

\* A mutex that each owner gives up is free again and again.
AllReleasedState == \A p \in Threads : (stateMu = p => <>(stateMu = None))
AllReleasedMu == \A p \in Threads : (mu = p => <>(mu = None))

LEMMA StateMuOwned == AllReleasedState /\ stateMu \in Threads => <>(stateMu = None)
BY DEF AllReleasedState

LEMMA StateMuFree == HandOverSpec /\ []NoneStuck => []<>(stateMu = None)
<1>1. HandOverSpec /\ []NoneStuck => \A p \in Threads : [](stateMu = p => <>(stateMu = None))
  <2>1. ASSUME NEW p \in Threads
        PROVE  HandOverSpec /\ []NoneStuck => [](stateMu = p => <>(stateMu = None))
    BY StateMuRelease, PTL DEF StateMuReleased
  <2> QED
    BY <2>1
<1>2. (\A p \in Threads : [](stateMu = p => <>(stateMu = None))) => []AllReleasedState
  BY DEF AllReleasedState
<1>3. TypeOK => stateMu \in Threads \/ stateMu = None
  BY DEF TypeOK
<1>4. HandOverSpec => []TypeOK
  BY TypeCorrect, PTL DEF HandOverSpec
<1> QED
  BY <1>1, <1>2, <1>3, <1>4, StateMuOwned, PTL

LEMMA MuOwned == AllReleasedMu /\ mu \in Threads => <>(mu = None)
BY DEF AllReleasedMu

LEMMA MuFree == HandOverSpec /\ []NoneStuck => []<>(mu = None)
<1>1. HandOverSpec /\ []NoneStuck => \A p \in Threads : [](mu = p => <>(mu = None))
  <2>1. ASSUME NEW p \in Threads
        PROVE  HandOverSpec /\ []NoneStuck => [](mu = p => <>(mu = None))
    BY MuRelease, StateMuFree, PTL DEF MuReleased
  <2> QED
    BY <2>1
<1>2. (\A p \in Threads : [](mu = p => <>(mu = None))) => []AllReleasedMu
  BY DEF AllReleasedMu
<1>3. TypeOK => mu \in Threads \/ mu = None
  BY DEF TypeOK
<1>4. HandOverSpec => []TypeOK
  BY TypeCorrect, PTL DEF HandOverSpec
<1> QED
  BY <1>1, <1>2, <1>3, <1>4, MuOwned, PTL

\* CallsReturn, for any number of threads and calls: if a mutex that is free again
\* and again is handed to each of its waiters, every call of the bridge returns.
\* That a thread is only ever kept by a mutex another thread holds is NoneStuck.
THEOREM CallsReturnCorrect == HandOverSpec /\ []NoneStuck => CallsReturn
<1> SUFFICES ASSUME NEW p \in Threads
             PROVE  HandOverSpec /\ []NoneStuck => []<>(req[p].pc = "idle")
  BY DEF CallsReturn
<1> DEFINE D(n, m) == HandOverSpec /\ []NoneStuck /\ []<>(stateMu = None) => Descent(p, n, m)
<1>1. D(9, 8) /\ D(8, 7) /\ D(6, 5) /\ D(5, 4) /\ D(4, 3) /\ D(3, 2) /\ D(2, 1) /\ D(1, 0)
  BY DescendsAt
<1>2. HandOverSpec /\ []NoneStuck /\ []<>(mu = None) => Descent(p, 7, 6)
  BY DescendsAt
<1>3. TypeOK => Within(p, 9)
  BY StepsLeftBound DEF Within
<1>4. TypeOK /\ Within(p, 0) => req[p].pc = "idle"
  BY StepsLeftBound DEF Within, Returned
<1>5. HandOverSpec => []TypeOK
  BY TypeCorrect, PTL DEF HandOverSpec
<1> QED
  BY <1>1, <1>2, <1>3, <1>4, <1>5, StateMuFree, MuFree, PTL DEF Descent
=============================================================================
