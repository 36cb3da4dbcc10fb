-------------------- MODULE RuntimeConfigTransaction_proofs --------------------
(***************************************************************************)
(* Theorems about RuntimeConfigTransaction, for every bound: types, the     *)
(* snapshots that requests and readers need, and the end of transactions.   *)
(***************************************************************************)
EXTENDS RuntimeConfigTransaction, TLAPS

\* The controller's own state, without what the callers and the core keep.
CtlTypeOK ==
    /\ active \in Operation /\ active.op \in 0..MaxOps
    /\ confirmed \in Receipt
    /\ uncertain \in BOOLEAN
    /\ stateEpoch \in Nat
    /\ retained \subseteq Nat
    /\ disk \subseteq Nat
    /\ outcome \in [1..MaxOps -> Outcomes]

OwnOperation == {o \in Operation : o.op \in 1..MaxOps}

\* NoReceipt and NoOperation have the types of the values they stand for.
LEMMA NoneTypes == NoReceipt \in Receipt /\ NoOperation \in Operation /\ NoOperation.op = 0
BY DEF NoReceipt, Receipt, Boot, NoOperation, Operation, Phases

\* Every ending of an operation leaves well-typed controller state.
LEMMA FinishType ==
    ASSUME TypeOK,
           NEW STATE o, o \in OwnOperation,
           NEW STATE result, result \in Outcomes,
           NEW STATE conf, conf \in Receipt,
           NEW STATE unc, unc \in BOOLEAN,
           NEW STATE retain, retain \in SUBSET Nat,
           NEW STATE remove,
           Finish(o, result, conf, unc, retain, remove)
    PROVE  CtlTypeOK'
<1> USE DEF TypeOK, CtlTypeOK, Finish
<1>1. active' \in Operation /\ active'.op \in 0..MaxOps
  BY BoundsAssumption, NoneTypes
<1>2. confirmed' \in Receipt /\ uncertain' \in BOOLEAN /\ stateEpoch' \in Nat
  OBVIOUS
<1>3. retained' \subseteq Nat /\ disk' \subseteq Nat
  OBVIOUS
<1>4. outcome' \in [1..MaxOps -> Outcomes]
  BY DEF OwnOperation
<1> QED
  BY <1>1, <1>2, <1>3, <1>4

LEMMA MarkUnknownType ==
    ASSUME TypeOK, NEW STATE o, o \in OwnOperation, MarkUnknown(o)
    PROVE  CtlTypeOK'
<1> DEFINE R == Files(o) \cup (IF confirmed.scope = o.scope THEN {confirmed.id} ELSE {})
<1>1. WithoutScope(o.scope) \in Receipt
  BY NoneTypes DEF TypeOK, WithoutScope
<1>2. R \in SUBSET Nat
  BY DEF TypeOK, Files, OwnOperation, Operation, Receipt
<1> QED
  BY <1>1, <1>2, FinishType DEF MarkUnknown, Outcomes

LEMMA StaleScopeType ==
    ASSUME TypeOK, NEW STATE o, o \in OwnOperation, EndForStaleScope(o)
    PROVE  CtlTypeOK'
<1>1. WithoutScope(o.scope) \in Receipt
  BY NoneTypes DEF TypeOK, WithoutScope
<1>2. /\ Files(o) \cup {confirmed.id} \in SUBSET Nat
      /\ {o.candidate.id} \in SUBSET Nat
      /\ {} \in SUBSET Nat
  BY DEF TypeOK, Files, OwnOperation, Operation, Receipt
<1>3. uncertain \in BOOLEAN /\ TRUE \in BOOLEAN
  BY DEF TypeOK
<1>4. CASE o.applyStarted
  BY <1>1, <1>2, <1>3, <1>4, FinishType DEF EndForStaleScope, Outcomes
<1>5. CASE ~o.applyStarted
  BY <1>1, <1>2, <1>3, <1>5, FinishType DEF EndForStaleScope, Outcomes
<1> QED
  BY <1>4, <1>5 DEF EndForStaleScope

LEMMA RejectType ==
    ASSUME TypeOK, NEW STATE o, o \in OwnOperation, Reject(o)
    PROVE  CtlTypeOK'
BY FinishType DEF Reject, Outcomes, TypeOK

LEMMA FinishRetryType ==
    ASSUME TypeOK, NEW STATE o, o \in OwnOperation, NEW STATE keep,
           FinishRetryValidation(o, keep)
    PROVE  CtlTypeOK'
<1>1. (IF keep THEN {o.candidate.id} ELSE {}) \in SUBSET Nat
  BY DEF OwnOperation, Operation, Receipt
<1> QED
  BY <1>1, FinishType DEF FinishRetryValidation, Outcomes, TypeOK

\* The operation fields beginPhase sets keep an operation an operation.
LEMMA PhaseFieldsType ==
    ASSUME NEW o \in OwnOperation, NEW p \in Phases, NEW t \in Nat, NEW b \in BOOLEAN
    PROVE  [o EXCEPT !.phase = p, !.token = t, !.fileMayBeInUse = b] \in OwnOperation
BY DEF OwnOperation, Operation

\* Entering a phase keeps the operation, the tokens and the calls well typed.
LEMMA BeginPhaseType ==
    ASSUME TypeOK, NEW STATE o, o \in OwnOperation,
           NEW STATE phase, phase \in Phases,
           NEW STATE r, r \in Receipt,
           NEW STATE cs, cs \subseteq Call,
           BeginPhase(o, phase, r, cs)
    PROVE  active' \in OwnOperation /\ tokens' \in Nat /\ calls' \subseteq Call
<1>1. active' \in OwnOperation
  <2> DEFINE b == phase # "preparing"
  <2>1. active' = [o EXCEPT !.phase = phase, !.token = tokens + 1, !.fileMayBeInUse = b]
    BY DEF BeginPhase
  <2>2. b \in BOOLEAN /\ tokens + 1 \in Nat
    BY DEF TypeOK
  <2> HIDE DEF b
  <2> QED
    BY <2>1, <2>2, PhaseFieldsType
<1>2. tokens' \in Nat
  BY DEF BeginPhase, TypeOK
<1>3. calls' \subseteq Call
  <2> DEFINE n == [op |-> o.op, token |-> tokens + 1, phase |-> phase, file |-> r.id,
           data |-> r.data, scope |-> o.scope, answered |-> FALSE, st |-> "sent"]
  <2>1. n \in Call
    BY DEF Call, OwnOperation, Operation, Receipt, TypeOK
  <2> QED
    BY <2>1 DEF BeginPhase
<1> QED
  BY <1>1, <1>2, <1>3

LEMMA ProceedType ==
    ASSUME TypeOK, NEW STATE o, o \in OwnOperation,
           NEW STATE phase, phase \in Phases,
           NEW STATE r, r \in Receipt,
           NEW STATE cs, cs \subseteq Call,
           Proceed(o, phase, r, cs)
    PROVE  CtlTypeOK' /\ tokens' \in Nat /\ calls' \subseteq Call
BY BeginPhaseType DEF Proceed, CtlTypeOK, TypeOK, OwnOperation

\* Answering or serving a call keeps the calls well typed.
LEMMA CallsType ==
    ASSUME TypeOK, NEW STATE c, c \in calls,
           NEW STATE st,
           st \in {"sent", "written", "failed", "accepted", "rejected", "verified"}
    PROVE  Answer(c) \subseteq Call /\ Serve(c, st) \subseteq Call
<1>1. c \in Call
  BY DEF TypeOK
<1>2. [c EXCEPT !.answered = TRUE] \in Call /\ [c EXCEPT !.st = st] \in Call
  BY <1>1 DEF Call
<1> QED
  BY <1>2 DEF Answer, Serve, TypeOK

LEMMA AnswerType ==
    ASSUME TypeOK, NEW STATE c, c \in calls
    PROVE  Answer(c) \subseteq Call /\ c \in Call
BY CallsType DEF TypeOK

\* The operation as an action passes it on.
LEMMA OwnTypes ==
    ASSUME TypeOK, Busy
    PROVE  /\ active \in OwnOperation
           /\ Settled \in OwnOperation
           /\ [Settled EXCEPT !.applySettled = TRUE] \in OwnOperation
           /\ [active EXCEPT !.applyStarted = TRUE, !.applySettled = FALSE] \in OwnOperation
           /\ [Settled EXCEPT !.applyStarted = TRUE, !.applySettled = FALSE] \in OwnOperation
<1>1. active \in OwnOperation
  BY DEF TypeOK, Busy, OwnOperation
<1>2. \A o \in OwnOperation :
        /\ [o EXCEPT !.fileMayBeInUse = FALSE] \in OwnOperation
        /\ [o EXCEPT !.applySettled = TRUE] \in OwnOperation
        /\ [o EXCEPT !.applyStarted = TRUE, !.applySettled = FALSE] \in OwnOperation
  BY DEF OwnOperation, Operation
<1> QED
  BY <1>1, <1>2 DEF Settled

\* The controller's state and the other variables make up the invariant.
LEMMA CtlSuffices ==
    ASSUME CtlTypeOK', tokens' \in Nat, calls' \subseteq Call, seeds' \subseteq Seed,
           hook' \in 0..MaxOps, ops' \in 0..MaxOps, snapshots' \in 0..MaxSnapshots,
           curScope' \in 1..MaxScopes, core' \in Int,
           orphans' \subseteq Nat, adrift' \in BOOLEAN
    PROVE  TypeOK'
BY DEF CtlTypeOK, TypeOK

LEMMA OrphansType == ASSUME TypeOK, OrphanApplies PROVE orphans' \subseteq Nat
BY DEF TypeOK, OrphanApplies, Call

NewCoreTypes ==
    /\ curScope' \in 1..MaxScopes /\ core' \in Int
    /\ orphans' \subseteq Nat /\ adrift' \in BOOLEAN

LEMMA NewCoreType == ASSUME TypeOK, NewCore PROVE NewCoreTypes
<1>1. curScope' \in 1..MaxScopes
  BY BoundsAssumption DEF NewCore, TypeOK
<1>2. core' \in Int
  BY DEF NewCore, Boot
<1>3. orphans' \subseteq Nat /\ adrift' \in BOOLEAN
  BY Zenon DEF NewCore
<1> QED
  BY <1>1, <1>2, <1>3 DEF NewCoreTypes

\* A main-queue turn that answers a call and ends or continues its operation.
LEMMA TurnType ==
    ASSUME TypeOK, MainTurn, UNCHANGED hook,
           CtlTypeOK', tokens' \in Nat, calls' \subseteq Call
    PROVE  TypeOK'
BY CtlSuffices DEF MainTurn, TypeOK

LEMMA ReplyTypes ==
    ASSUME TypeOK, NEW STATE c, Received(c)
    PROVE  /\ Busy /\ MainTurn
           /\ Answer(c) \subseteq Call /\ c \in Call
           /\ tokens \in Nat /\ calls \subseteq Call
           /\ active.candidate \in Receipt /\ active.previous \in Receipt
           /\ confirmed \in Receipt /\ uncertain \in BOOLEAN
<1>1. c \in calls /\ Busy /\ MainTurn
  BY DEF Received, Matches
<1>2. Answer(c) \subseteq Call /\ c \in Call
  BY <1>1, AnswerType
<1> QED
  BY <1>1, <1>2 DEF TypeOK, Operation

LEMMA RollbackOrUnknownType ==
    ASSUME TypeOK, NEW STATE o, o \in OwnOperation, NEW STATE cs, cs \subseteq Call,
           RollbackOrUnknown(o, cs)
    PROVE  CtlTypeOK' /\ tokens' \in Nat /\ calls' \subseteq Call
<1>1. CASE BeginRollback(o, cs)
  <2>1. o.previous \in Receipt /\ "rollbackApplying" \in Phases
    BY DEF OwnOperation, Operation, Phases
  <2> QED
    BY <1>1, <2>1, ProceedType DEF BeginRollback
<1>2. CASE MarkUnknown(o) /\ calls' = cs /\ UNCHANGED tokens
  BY <1>2, MarkUnknownType DEF TypeOK
<1> QED
  BY <1>1, <1>2 DEF RollbackOrUnknown

-----------------------------------------------------------------------------
(* One lemma per action *)

LEMMA TypeSubmitRefused == TypeOK /\ SubmitRefused => TypeOK'
<1> SUFFICES ASSUME TypeOK, SubmitRefused PROVE TypeOK'
  OBVIOUS
<1> USE DEF TypeOK
<1>1. ops' \in 0..MaxOps /\ ops + 1 \in 1..MaxOps
  BY BoundsAssumption DEF SubmitRefused
<1>2. outcome' \in [1..MaxOps -> Outcomes]
  BY <1>1 DEF SubmitRefused, Outcomes
<1>3. confirmed' \in Receipt
  BY NoneTypes DEF SubmitRefused
<1>4. stateEpoch' \in Nat
  BY DEF SubmitRefused
<1>5. disk' \subseteq disk
  BY DEF SubmitRefused, Remove
<1> QED
  BY <1>1, <1>2, <1>3, <1>4, <1>5 DEF SubmitRefused

LEMMA TypeSubmit == ASSUME NEW s \in 1..MaxScopes, NEW retry \in BOOLEAN, TypeOK, Submit(s, retry)
                    PROVE TypeOK'
<1>1. Submitted(s, retry) \in OwnOperation
  <2> DEFINE pr == IF confirmed.scope = s THEN confirmed ELSE NoReceipt
  <2>1. pr \in Receipt /\ s \in Nat /\ ops + 1 \in 1..MaxOps
    BY BoundsAssumption, NoneTypes DEF TypeOK, Submit
  <2>2. \A a, b \in Nat, p \in Receipt, r \in BOOLEAN :
          [NoOperation EXCEPT !.op = a, !.scope = b, !.previous = p,
                              !.retryAfterVerifiedRollback = r] \in Operation
    BY NoneTypes DEF Operation
  <2> HIDE DEF pr
  <2>5. [NoOperation EXCEPT !.op = ops + 1, !.scope = s,
           !.previous = pr, !.retryAfterVerifiedRollback = retry] \in Operation
    <3>1. ops + 1 \in Nat
      BY <2>1
    <3> QED
      BY <2>1, <2>2, <3>1
  <2>3. Submitted(s, retry) = [NoOperation EXCEPT !.op = ops + 1, !.scope = s,
           !.previous = pr, !.retryAfterVerifiedRollback = retry]
    BY DEF Submitted, pr
  <2>4. Submitted(s, retry).op = ops + 1
    BY <2>3 DEF NoOperation
  <2> QED
    BY <2>1, <2>5, <2>3, <2>4 DEF OwnOperation
<1> DEFINE r == [id |-> snapshots + 1, scope |-> s, data |-> snapshots + 1]
<1>2. r \in Receipt /\ "preparing" \in Phases /\ calls \subseteq Call
  BY DEF Receipt, TypeOK, Phases
<1>6. BeginPhase(Submitted(s, retry), "preparing", r, calls)
  BY DEF Submit
<1> HIDE DEF r
<1>3. active' \in OwnOperation /\ tokens' \in Nat /\ calls' \subseteq Call
  BY <1>1, <1>2, <1>6, BeginPhaseType
<1>4. confirmed' \in Receipt /\ disk' \subseteq disk /\ stateEpoch' \in Nat
  <2>1. confirmed' \in Receipt
    BY NoneTypes DEF Submit, TypeOK
  <2>2. disk' \subseteq disk
    BY DEF Submit
  <2> QED
    BY <2>1, <2>2 DEF Submit, TypeOK
<1>5. ops' \in 0..MaxOps /\ snapshots' \in 0..MaxSnapshots
  BY BoundsAssumption DEF Submit, TypeOK
<1>7. active' \in Operation /\ active'.op \in 0..MaxOps
  BY <1>3, BoundsAssumption DEF OwnOperation
<1>8. CtlTypeOK'
  BY <1>4, <1>7 DEF Submit, CtlTypeOK, TypeOK
<1> QED
  BY <1>3, <1>5, <1>8, CtlSuffices DEF Submit, TypeOK

LEMMA TypeWriteSnapshot == ASSUME NEW c \in calls, NEW ok \in BOOLEAN, TypeOK, WriteSnapshot(c, ok)
                           PROVE TypeOK'
<1>1. Serve(c, "written") \subseteq Call /\ Serve(c, "failed") \subseteq Call /\ c.file \in Nat
  BY CallsType, AnswerType DEF Call
<1> QED
  BY <1>1 DEF WriteSnapshot, TypeOK

LEMMA TypeWriteSeed == ASSUME NEW s \in seeds, NEW ok \in BOOLEAN, TypeOK, WriteSeed(s, ok)
                       PROVE TypeOK'
<1>1. s \in Seed /\ s.id \in Nat
  BY DEF TypeOK, Seed
<1>2. [s EXCEPT !.st = "written"] \in Seed /\ [s EXCEPT !.st = "failed"] \in Seed
  BY <1>1 DEF Seed
<1> QED
  BY <1>1, <1>2 DEF WriteSeed, TypeOK

LEMMA TypeDiscardLateSnapshot == ASSUME NEW c \in calls, TypeOK, DiscardLateSnapshot(c)
                                 PROVE TypeOK'
<1>1. Answer(c) \subseteq Call
  BY AnswerType
<1> QED
  BY <1>1 DEF DiscardLateSnapshot, MainTurn, TypeOK, Remove

LEMMA TypeSnapshotWritten ==
    ASSUME NEW c \in calls, NEW cur \in BOOLEAN, TypeOK, SnapshotWritten(c, cur)
    PROVE TypeOK'
<1> DEFINE r == IF c.st = "written" THEN SnapshotOf(c) ELSE NoReceipt
           o == [active EXCEPT !.candidate = r]
<1>1. Received(c) /\ UNCHANGED hook
  BY DEF SnapshotWritten, Received
<1>2. r \in Receipt
  BY <1>1, ReplyTypes, NoneTypes DEF SnapshotOf, Receipt, Call
<1>3. o \in OwnOperation
  <2>1. \A x \in OwnOperation, y \in Receipt : [x EXCEPT !.candidate = y] \in OwnOperation
    BY DEF OwnOperation, Operation
  <2> QED
    BY <1>1, <1>2, <2>1, ReplyTypes, OwnTypes
<1>4. o.candidate \in Receipt /\ "validating" \in Phases
  BY <1>3 DEF OwnOperation, Operation, Phases
<1> HIDE DEF o
<1>5. \/ Proceed(o, "validating", o.candidate, Answer(c))
      \/ EndForStaleScope(o) /\ calls' = Answer(c) /\ UNCHANGED tokens
      \/ Reject(o) /\ calls' = Answer(c) /\ UNCHANGED tokens
  BY DEF SnapshotWritten, o
<1>6. CtlTypeOK' /\ tokens' \in Nat /\ calls' \subseteq Call
  BY <1>1, <1>3, <1>4, <1>5, ReplyTypes, ProceedType, StaleScopeType, RejectType
<1> QED
  BY <1>1, <1>6, ReplyTypes, TurnType

LEMMA TypeStaleReply == ASSUME NEW c \in calls, TypeOK, StaleReply(c) PROVE TypeOK'
<1>1. Received(c) /\ UNCHANGED hook
  BY DEF StaleReply
<1>2. CtlTypeOK' /\ tokens' \in Nat /\ calls' \subseteq Call
  BY <1>1, ReplyTypes, OwnTypes, StaleScopeType DEF StaleReply
<1> QED
  BY <1>1, <1>2, ReplyTypes, TurnType

LEMMA TypeValidationReply ==
    ASSUME NEW c \in calls, NEW ok \in BOOLEAN, TypeOK, ValidationReply(c, ok)
    PROVE TypeOK'
<1>1. Received(c) /\ UNCHANGED hook
  BY DEF ValidationReply
<1>2. CASE ok
  <2> DEFINE o == [Settled EXCEPT !.applyStarted = TRUE, !.applySettled = FALSE]
  <2>1. o \in OwnOperation /\ Settled.candidate \in Receipt /\ "applying" \in Phases
    BY <1>1, ReplyTypes, OwnTypes DEF OwnOperation, Operation, Phases
  <2>2. Proceed(o, "applying", Settled.candidate, Answer(c))
    BY <1>2 DEF ValidationReply, BeginApply
  <2> HIDE DEF o
  <2>3. CtlTypeOK' /\ tokens' \in Nat /\ calls' \subseteq Call
    BY <1>1, <2>1, <2>2, ReplyTypes, ProceedType
  <2> QED
    BY <1>1, <2>3, ReplyTypes, TurnType
<1>3. CASE ~ok
  <2>1. CtlTypeOK' /\ tokens' \in Nat /\ calls' \subseteq Call
    BY <1>1, <1>3, ReplyTypes, OwnTypes, RejectType, FinishRetryType DEF ValidationReply
  <2> QED
    BY <1>1, <2>1, ReplyTypes, TurnType
<1> QED
  BY <1>2, <1>3

LEMMA TypeApplyReply ==
    ASSUME NEW c \in calls, NEW result \in {"accepted", "rejected", "uncertain"},
           TypeOK, ApplyReply(c, result)
    PROVE TypeOK'
<1> DEFINE o == [Settled EXCEPT !.applySettled = TRUE]
           b == o.retryRejection \/ (o.retryAfterVerifiedRollback /\ ~o.retryUsed)
           r == [o EXCEPT !.retryRejection = b]
<1>1. Received(c) /\ UNCHANGED hook
  BY DEF ApplyReply
<1>2. o \in OwnOperation
  BY <1>1, ReplyTypes, OwnTypes
<1>3. r \in OwnOperation
  <2>1. \A x \in OwnOperation, y \in BOOLEAN : [x EXCEPT !.retryRejection = y] \in OwnOperation
    BY DEF OwnOperation, Operation
  <2>2. b \in BOOLEAN
    OBVIOUS
  <2> HIDE DEF o, b
  <2> QED
    BY <1>2, <2>1, <2>2
<1>4. r = [o EXCEPT !.retryRejection =
                    @ \/ (o.retryAfterVerifiedRollback /\ ~o.retryUsed)]
  OBVIOUS
<1>5. \/ Proceed(o, "verifying", o.candidate, Answer(c))
      \/ BeginRollback(r, Answer(c))
      \/ Reject(o) /\ calls' = Answer(c) /\ UNCHANGED tokens
      \/ MarkUnknown(o) /\ calls' = Answer(c) /\ UNCHANGED tokens
  BY <1>4, Zenon DEF ApplyReply
<1> HIDE DEF o, r
<1>6. /\ o.candidate \in Receipt /\ r.previous \in Receipt
      /\ "verifying" \in Phases /\ "rollbackApplying" \in Phases
  BY <1>2, <1>3 DEF OwnOperation, Operation, Phases
<1>7. CtlTypeOK' /\ tokens' \in Nat /\ calls' \subseteq Call
  <2>1. CASE Proceed(o, "verifying", o.candidate, Answer(c))
    BY <1>1, <1>2, <1>6, <2>1, ReplyTypes, ProceedType
  <2>2. CASE BeginRollback(r, Answer(c))
    BY <1>1, <1>3, <1>6, <2>2, ReplyTypes, ProceedType DEF BeginRollback
  <2>3. CASE Reject(o) /\ calls' = Answer(c) /\ UNCHANGED tokens
    BY <1>1, <1>2, <2>3, ReplyTypes, RejectType
  <2>4. CASE MarkUnknown(o) /\ calls' = Answer(c) /\ UNCHANGED tokens
    BY <1>1, <1>2, <2>4, ReplyTypes, MarkUnknownType
  <2> QED
    BY <1>5, <2>1, <2>2, <2>3, <2>4
<1> QED
  BY <1>1, <1>7, ReplyTypes, TurnType

LEMMA TypeVerifyReply ==
    ASSUME NEW c \in calls, NEW ok \in BOOLEAN, TypeOK, VerifyReply(c, ok)
    PROVE TypeOK'
<1>1. Received(c) /\ UNCHANGED hook
  BY DEF VerifyReply
<1>2. CASE ok
  <2>1. /\ Finish(Settled, "applied", active.candidate, FALSE, {}, {confirmed.id})
        /\ calls' = Answer(c) /\ UNCHANGED tokens
    BY <1>2 DEF VerifyReply
  <2>2. {} \in SUBSET Nat /\ "applied" \in Outcomes /\ FALSE \in BOOLEAN
    BY DEF Outcomes
  <2>3. CtlTypeOK'
    BY <1>1, <2>1, <2>2, ReplyTypes, OwnTypes, FinishType
  <2> QED
    BY <1>1, <2>1, <2>3, ReplyTypes, TurnType
<1>3. CASE ~ok
  <2>1. RollbackOrUnknown(Settled, Answer(c))
    BY <1>3 DEF VerifyReply
  <2> QED
    BY <1>1, <2>1, ReplyTypes, OwnTypes, RollbackOrUnknownType, TurnType
<1> QED
  BY <1>2, <1>3

LEMMA TypeRollbackApplyReply ==
    ASSUME NEW c \in calls, NEW result \in {"accepted", "rejected", "uncertain"},
           TypeOK, RollbackApplyReply(c, result)
    PROVE TypeOK'
<1>1. Received(c) /\ UNCHANGED hook
  BY DEF RollbackApplyReply
<1>2. CASE Proceed(Settled, "rollbackVerifying", active.previous, Answer(c))
  <2>1. "rollbackVerifying" \in Phases
    BY DEF Phases
  <2> QED
    BY <1>1, <1>2, <2>1, ReplyTypes, OwnTypes, ProceedType, TurnType
<1>3. CASE MarkUnknown(Settled) /\ calls' = Answer(c) /\ UNCHANGED tokens
  BY <1>1, <1>3, ReplyTypes, OwnTypes, MarkUnknownType, TurnType
<1> QED
  BY <1>2, <1>3 DEF RollbackApplyReply

LEMMA TypeRollbackVerifyReply ==
    ASSUME NEW c \in calls, NEW ok \in BOOLEAN, TypeOK, RollbackVerifyReply(c, ok)
    PROVE TypeOK'
<1>1. Received(c) /\ UNCHANGED tokens
  BY DEF RollbackVerifyReply
<1>2. CASE hook' = active.op
  <2> DEFINE o == [Settled EXCEPT !.restoredBaseline = active.previous,
                                  !.retryUsed = TRUE, !.retryRejection = FALSE]
  <2>1. o \in OwnOperation
    <3>1. \A x \in OwnOperation, y \in Receipt :
            [x EXCEPT !.restoredBaseline = y, !.retryUsed = TRUE,
                      !.retryRejection = FALSE] \in OwnOperation
      BY DEF OwnOperation, Operation
    <3> QED
      BY <1>1, <3>1, ReplyTypes, OwnTypes
  <2>2. active.op \in 1..MaxOps
    BY <1>1, ReplyTypes, OwnTypes DEF OwnOperation
  <2>3. hook' \in 0..MaxOps
    BY <1>2, <2>2, BoundsAssumption
  <2>4. \/ /\ active' = o /\ confirmed' = active.previous /\ uncertain' = FALSE
           /\ stateEpoch' = stateEpoch + 1
           /\ calls' = Answer(c)
           /\ UNCHANGED <<retained, disk, outcome>>
        \/ /\ Finish(Settled, "rolledBack", active.previous, FALSE, {},
                     {active.candidate.id})
           /\ calls' = Answer(c)
        \/ MarkUnknown(Settled) /\ calls' = Answer(c)
    BY DEF RollbackVerifyReply
  <2> HIDE DEF o
  <2>5. CtlTypeOK' /\ calls' \subseteq Call
    <3>1. {} \in SUBSET Nat /\ "rolledBack" \in Outcomes /\ FALSE \in BOOLEAN
      BY DEF Outcomes
    <3>2. CASE /\ active' = o /\ confirmed' = active.previous /\ uncertain' = FALSE
               /\ stateEpoch' = stateEpoch + 1
               /\ calls' = Answer(c)
               /\ UNCHANGED <<retained, disk, outcome>>
      <4>1. active' \in Operation /\ active'.op \in 0..MaxOps
        BY <2>1, <3>2, BoundsAssumption DEF OwnOperation
      <4>2. confirmed' \in Receipt /\ uncertain' \in BOOLEAN /\ Answer(c) \subseteq Call
        BY <1>1, <3>2, ReplyTypes
      <4>3. stateEpoch' \in Nat
        BY <3>2 DEF TypeOK
      <4> QED
        BY <3>2, <4>1, <4>2, <4>3 DEF CtlTypeOK, TypeOK
    <3>3. CASE /\ Finish(Settled, "rolledBack", active.previous, FALSE, {},
                         {active.candidate.id})
               /\ calls' = Answer(c)
      BY <1>1, <3>1, <3>3, ReplyTypes, OwnTypes, FinishType
    <3>4. CASE MarkUnknown(Settled) /\ calls' = Answer(c)
      BY <1>1, <3>4, ReplyTypes, OwnTypes, MarkUnknownType
    <3> QED
      BY <2>4, <3>2, <3>3, <3>4
  <2> QED
    BY <1>1, <2>3, <2>5, ReplyTypes, CtlSuffices DEF MainTurn, TypeOK
<1>3. CASE UNCHANGED hook
  <2>1. \/ hook' = active.op
        \/ /\ Finish(Settled, "rolledBack", active.previous, FALSE, {},
                     {active.candidate.id})
           /\ calls' = Answer(c)
        \/ MarkUnknown(Settled) /\ calls' = Answer(c)
    BY DEF RollbackVerifyReply
  <2>2. {} \in SUBSET Nat /\ "rolledBack" \in Outcomes /\ FALSE \in BOOLEAN
    BY DEF Outcomes
  <2>3. CASE /\ Finish(Settled, "rolledBack", active.previous, FALSE, {},
                       {active.candidate.id})
             /\ calls' = Answer(c)
    BY <1>1, <1>3, <2>2, <2>3, ReplyTypes, OwnTypes, FinishType, TurnType
  <2>4. CASE MarkUnknown(Settled) /\ calls' = Answer(c)
    BY <1>1, <1>3, <2>4, ReplyTypes, OwnTypes, MarkUnknownType, TurnType
  <2> QED
    BY <1>2, <2>1, <2>3, <2>4
<1> QED
  BY <1>2, <1>3 DEF RollbackVerifyReply

LEMMA TypeRetryHookReturns ==
    ASSUME NEW cur \in BOOLEAN, TypeOK, RetryHookReturns(cur) PROVE TypeOK'
<1>1. /\ hook' = 0 /\ UNCHANGED <<seeds, ops, snapshots, curScope, core>>
      /\ tokens \in Nat /\ calls \subseteq Call
  BY DEF RetryHookReturns, TypeOK
<1>2. \/ UNCHANGED <<ctl, calls, tokens>>
      \/ /\ Busy
         /\ \/ EndForStaleScope(active) /\ UNCHANGED <<calls, tokens>>
            \/ Proceed(active, "retryValidating", active.candidate, calls)
            \/ MarkUnknown(active) /\ UNCHANGED <<calls, tokens>>
  BY DEF RetryHookReturns, Busy
<1>3. CtlTypeOK' /\ tokens' \in Nat /\ calls' \subseteq Call
  <2>1. CASE UNCHANGED <<ctl, calls, tokens>>
    BY <2>1 DEF ctl, CtlTypeOK, TypeOK
  <2>2. CASE Busy /\ EndForStaleScope(active) /\ UNCHANGED <<calls, tokens>>
    BY <1>1, <2>2, OwnTypes, StaleScopeType
  <2>3. CASE Busy /\ Proceed(active, "retryValidating", active.candidate, calls)
    <3>1. "retryValidating" \in Phases /\ active.candidate \in Receipt
      BY DEF Phases, TypeOK, Operation
    <3> QED
      BY <1>1, <2>3, <3>1, OwnTypes, ProceedType
  <2>4. CASE Busy /\ MarkUnknown(active) /\ UNCHANGED <<calls, tokens>>
    BY <1>1, <2>4, OwnTypes, MarkUnknownType
  <2> QED
    BY <1>2, <2>1, <2>2, <2>3, <2>4
<1>4. orphans' \subseteq Nat /\ adrift' \in BOOLEAN
  BY DEF RetryHookReturns, TypeOK
<1> QED
  BY <1>1, <1>3, <1>4, BoundsAssumption, CtlSuffices DEF TypeOK

LEMMA TypeTimeout == ASSUME TypeOK, Timeout PROVE TypeOK'
<1>1. /\ MainTurn /\ UNCHANGED hook /\ active \in OwnOperation
      /\ tokens \in Nat /\ calls \subseteq Call
  BY OwnTypes DEF Timeout, TypeOK
<1>2. \/ EndForStaleScope(active) /\ UNCHANGED <<calls, tokens>>
      \/ Reject(active) /\ UNCHANGED <<calls, tokens>>
      \/ /\ Finish(active, "rejected", confirmed, uncertain, {active.candidate.id}, {})
         /\ UNCHANGED <<calls, tokens>>
      \/ FinishRetryValidation(active, TRUE) /\ UNCHANGED <<calls, tokens>>
      \/ MarkUnknown(active) /\ UNCHANGED <<calls, tokens>>
      \/ RollbackOrUnknown(active, calls)
  BY DEF Timeout
<1>3. CtlTypeOK' /\ tokens' \in Nat /\ calls' \subseteq Call
  <2>1. CASE EndForStaleScope(active) /\ UNCHANGED <<calls, tokens>>
    BY <1>1, <2>1, StaleScopeType
  <2>2. CASE Reject(active) /\ UNCHANGED <<calls, tokens>>
    BY <1>1, <2>2, RejectType
  <2>3. CASE /\ Finish(active, "rejected", confirmed, uncertain, {active.candidate.id}, {})
             /\ UNCHANGED <<calls, tokens>>
    <3>1. {active.candidate.id} \in SUBSET Nat /\ "rejected" \in Outcomes
      BY <1>1 DEF OwnOperation, Operation, Receipt, Outcomes
    <3> QED
      BY <1>1, <2>3, <3>1, FinishType DEF TypeOK
  <2>4. CASE FinishRetryValidation(active, TRUE) /\ UNCHANGED <<calls, tokens>>
    BY <1>1, <2>4, FinishRetryType
  <2>5. CASE MarkUnknown(active) /\ UNCHANGED <<calls, tokens>>
    BY <1>1, <2>5, MarkUnknownType
  <2>6. CASE RollbackOrUnknown(active, calls)
    BY <1>1, <2>6, RollbackOrUnknownType
  <2> QED
    BY <1>2, <2>1, <2>2, <2>3, <2>4, <2>5, <2>6
<1> QED
  BY <1>1, <1>3, TurnType

LEMMA DetachType ==
    ASSUME TypeOK, Detach
    PROVE  /\ active' = NoOperation /\ outcome' \in [1..MaxOps -> Outcomes]
           /\ retained' \subseteq Nat /\ uncertain' \in BOOLEAN /\ stateEpoch' \in Nat
<1>1. outcome' \in [1..MaxOps -> Outcomes]
  <2>1. CASE Busy
    <3>1. active.op \in 1..MaxOps
      BY <2>1, OwnTypes DEF OwnOperation
    <3>2. outcome' = [outcome EXCEPT ![active.op] =
                 IF active.applyStarted THEN "unknown" ELSE "cancelled"]
      BY <2>1 DEF Detach
    <3> QED
      BY <3>1, <3>2 DEF TypeOK, Outcomes
  <2>2. CASE ~Busy
    BY <2>2 DEF Detach, TypeOK
  <2> QED
    BY <2>1, <2>2
<1>2. retained' \subseteq Nat
  BY DEF Detach, TypeOK, Files, Operation, Receipt
<1>3. active' = NoOperation /\ uncertain' = FALSE /\ stateEpoch' \in Nat
  BY DEF Detach, TypeOK
<1> QED
  BY <1>1, <1>2, <1>3

LEMMA TypeAdoptConfirmed == ASSUME TypeOK, AdoptConfirmed PROVE TypeOK'
<1>1. confirmed' \in Receipt
  BY DEF AdoptConfirmed, TypeOK, Receipt
<1>2. snapshots' \in 0..MaxSnapshots
  BY BoundsAssumption DEF AdoptConfirmed, TypeOK
<1>3. disk' \subseteq disk \cup {snapshots'}
  BY DEF AdoptConfirmed
<1>4. disk' \subseteq Nat
  BY <1>2, <1>3 DEF TypeOK
<1>5. active' \in Operation /\ active'.op \in 0..MaxOps
  BY DetachType, NoneTypes, BoundsAssumption DEF AdoptConfirmed
<1>6. CtlTypeOK'
  BY <1>1, <1>4, <1>5, DetachType DEF AdoptConfirmed, CtlTypeOK
<1>7. orphans' \subseteq Nat /\ adrift' \in BOOLEAN
  BY OrphansType DEF AdoptConfirmed
<1> QED
  BY <1>2, <1>6, <1>7, CtlSuffices DEF AdoptConfirmed, TypeOK

LEMMA InvalidateStateType == ASSUME TypeOK, InvalidateState PROVE CtlTypeOK'
<1>1. disk' \subseteq Nat
  BY DEF InvalidateState, TypeOK, Remove
<1> QED
  BY <1>1, DetachType, NoneTypes, BoundsAssumption DEF InvalidateState, CtlTypeOK

LEMMA TypeBeginSeed == ASSUME TypeOK, BeginSeed PROVE TypeOK'
<1> DEFINE s == [id |-> snapshots + 1, scope |-> curScope, data |-> core,
                 epoch |-> stateEpoch + 1, st |-> "writing"]
<1>1. s \in Seed
  BY DEF Seed, TypeOK
<1>2. seeds' = seeds \cup {s}
  BY DEF BeginSeed
<1> HIDE DEF s
<1>3. snapshots' \in 0..MaxSnapshots
  BY BoundsAssumption DEF BeginSeed, TypeOK
<1> QED
  BY <1>1, <1>2, <1>3 DEF BeginSeed, TypeOK

LEMMA TypeSettleSeed ==
    ASSUME NEW s \in seeds, NEW cur \in BOOLEAN, TypeOK, SettleSeed(s, cur)
    PROVE TypeOK'
<1>1. [id |-> s.id, scope |-> s.scope, data |-> s.data] \in Receipt
  BY DEF TypeOK, Seed, Receipt
<1>2. confirmed' \in Receipt
  BY <1>1 DEF SettleSeed, TypeOK
<1>3. uncertain' \in BOOLEAN
  BY DEF SettleSeed, TypeOK
<1>5. stateEpoch' \in Nat
  BY DEF SettleSeed, TypeOK
<1>4. disk' \subseteq disk
  BY DEF SettleSeed
<1> QED
  BY <1>2, <1>3, <1>4, <1>5 DEF SettleSeed, TypeOK

LEMMA TypeServe ==
    ASSUME NEW c \in calls, TypeOK,
           \/ ServeVerify(c)
           \/ \E st \in {"accepted", "rejected"}, after \in {core, Mixed, c.data} :
                 ServeApply(c, st, after)
    PROVE TypeOK'
<1>1. c.data \in Int /\ Mixed \in Int
  BY DEF TypeOK, Call, Mixed
<1>2. \A st \in {"accepted", "rejected", "verified"} : Serve(c, st) \subseteq Call
  BY CallsType
<1>3. core' \in Int /\ calls' \subseteq Call /\ CtlTypeOK'
  BY <1>1, <1>2 DEF ServeVerify, ServeApply, TypeOK, CtlTypeOK, ctl
<1>4. orphans' \subseteq Nat
  BY DEF ServeVerify, ServeApply, TypeOK
<1>5. adrift' \in BOOLEAN
  <2>1. CASE UNCHANGED adrift
    BY <2>1, Zenon DEF TypeOK
  <2>2. CASE adrift' = (c.token \in orphans)
    <3> DEFINE b == c.token \in orphans
    <3>1. b \in BOOLEAN
      OBVIOUS
    <3>2. adrift' = b
      BY <2>2
    <3> HIDE DEF b
    <3> QED
      BY <3>1, <3>2, Zenon
  <2>3. ASSUME NEW st, NEW after, ServeApply(c, st, after)
        PROVE  UNCHANGED adrift \/ adrift' = (c.token \in orphans)
    <3>1. adrift' = IF st = "rejected" /\ after = core THEN adrift ELSE c.token \in orphans
      BY <2>3 DEF ServeApply
    <3> QED
      BY <3>1, Zenon
  <2>4. ServeVerify(c) => UNCHANGED adrift
    BY DEF ServeVerify
  <2> QED
    BY <2>1, <2>2, <2>3, <2>4, Zenon
<1> QED
  BY <1>3, <1>4, <1>5, CtlSuffices DEF ServeVerify, ServeApply, TypeOK

-----------------------------------------------------------------------------
LEMMA TypeStep == TypeOK /\ [Next]_vars => TypeOK'
<1> SUFFICES ASSUME TypeOK, [Next]_vars PROVE TypeOK'
  OBVIOUS
<1>1. CASE SubmitRefused
  BY <1>1, TypeSubmitRefused
<1>2. ASSUME NEW s \in 1..MaxScopes, NEW retry \in BOOLEAN, Submit(s, retry)
      PROVE TypeOK'
  BY <1>2, TypeSubmit
<1>3. ASSUME NEW c \in calls, NEW ok \in BOOLEAN,
             WriteSnapshot(c, ok) \/ ValidationReply(c, ok) \/ VerifyReply(c, ok)
               \/ RollbackVerifyReply(c, ok) \/ SnapshotWritten(c, ok)
      PROVE TypeOK'
  BY <1>3, TypeWriteSnapshot, TypeValidationReply, TypeVerifyReply,
     TypeRollbackVerifyReply, TypeSnapshotWritten
<1>4. ASSUME NEW s \in seeds, NEW ok \in BOOLEAN, WriteSeed(s, ok) \/ SettleSeed(s, ok)
      PROVE TypeOK'
  BY <1>4, TypeWriteSeed, TypeSettleSeed
<1>5. ASSUME NEW c \in calls,
             DiscardLateSnapshot(c) \/ StaleReply(c) \/ ServeVerify(c)
      PROVE TypeOK'
  BY <1>5, TypeDiscardLateSnapshot, TypeStaleReply, TypeServe
<1>6. ASSUME NEW c \in calls, NEW r \in {"accepted", "rejected", "uncertain"},
             ApplyReply(c, r) \/ RollbackApplyReply(c, r)
      PROVE TypeOK'
  BY <1>6, TypeApplyReply, TypeRollbackApplyReply
<1>7. ASSUME NEW c \in calls, NEW st \in {"accepted", "rejected"},
             NEW after \in {core, Mixed, c.data}, ServeApply(c, st, after)
      PROVE TypeOK'
  BY <1>7, TypeServe
<1>8. CASE HookReturns
  BY <1>8, TypeRetryHookReturns DEF HookReturns
<1>9. CASE Timeout
  BY <1>9, TypeTimeout
<1>10. CASE AdoptConfirmed
  BY <1>10, TypeAdoptConfirmed
<1>11. CASE Invalidate
  <2>1. orphans' \subseteq Nat
    BY <1>11, OrphansType DEF Invalidate
  <2> QED
    BY <1>11, <2>1, InvalidateStateType, CtlSuffices DEF Invalidate, InvalidateState, TypeOK
<1>12. CASE RestartCore
  <2>1. NewCoreTypes
    BY <1>12, NewCoreType DEF RestartCore
  <2> QED
    BY <1>12, <2>1, InvalidateStateType, CtlSuffices
       DEF NewCoreTypes, RestartCore, InvalidateState, TypeOK
<1>13. CASE ReplaceCore
  <2>1. NewCoreTypes
    BY <1>13, NewCoreType DEF ReplaceCore
  <2> QED
    BY <1>13, <2>1 DEF NewCoreTypes, ReplaceCore, TypeOK, ctl
<1>14. CASE BeginSeed
  BY <1>14, TypeBeginSeed
<1>15. CASE UNCHANGED vars
  BY <1>15 DEF vars, TypeOK
<1> QED
  BY <1>1, <1>2, <1>3, <1>4, <1>5, <1>6, <1>7, <1>8, <1>9, <1>10, <1>11,
     <1>12, <1>13, <1>14, <1>15, Zenon DEF Next

\* Every reachable state is well typed, whatever the bounds.
THEOREM TypeCorrect == Spec => []TypeOK
<1>1. Init => TypeOK
  <2> SUFFICES ASSUME Init PROVE TypeOK
    OBVIOUS
  <2>1. active \in Operation /\ active.op \in 0..MaxOps /\ confirmed \in Receipt
    BY BoundsAssumption, NoneTypes DEF Init
  <2>2. outcome \in [1..MaxOps -> Outcomes]
    BY DEF Init, Outcomes
  <2>3. /\ hook \in 0..MaxOps /\ ops \in 0..MaxOps /\ snapshots \in 0..MaxSnapshots
        /\ curScope \in 1..MaxScopes /\ core \in Int
    BY BoundsAssumption DEF Init, Boot
  <2> QED
    BY <2>1, <2>2, <2>3 DEF Init, TypeOK
<1>2. TypeOK /\ [Next]_vars => TypeOK'
  BY TypeStep
<1> QED
  BY <1>1, <1>2, PTL DEF Spec

-----------------------------------------------------------------------------
(* SnapshotInvariant is inductive: snapshots that somebody needs stay on     *)
(* disk, and an uncertain controller runs nothing, for every bound and every *)
(* interleaving of callers, file queue, core and deadlines.                  *)


\* What the invariant says beyond types.
Safe ==
    /\ SnapshotsKept
    /\ UncertainBlocks
    /\ PendingFilesOwned
    /\ IdsAllocated
    /\ OperationConsistent
    /\ ReadersAccounted

\* No call of cs and no seed is still to look at file f.
NotPending(cs, f) ==
    /\ \A c \in cs : Pending(c) => c.file # f
    /\ \A s \in seeds : s.id # f

\* cs is what the calls become when some of them are answered.
Settles(cs) ==
    /\ cs \subseteq Call
    /\ \A d \in cs : ~d.answered => d \in calls
    /\ \A d \in cs : d.file <= snapshots /\ d.token <= tokens
    /\ \A d, e \in cs : d.token = e.token => d = e

\* Every reader in cs has its file pinned once the ids in extra are.
Pinned(cs, extra) ==
    \A d \in cs : d.phase \in CorePhases /\ ~d.answered => d.file \in retained \cup extra

LEMMA SettlesSame == ASSUME TypeOK, IdsAllocated PROVE Settles(calls)
BY DEF Settles, IdsAllocated, TypeOK

LEMMA SettlesAnswer ==
    ASSUME TypeOK, IdsAllocated, NEW STATE c, c \in calls
    PROVE  /\ Settles(Answer(c))
           /\ \A d \in Answer(c) : ~d.answered => d # c
<1> DEFINE x == [c EXCEPT !.answered = TRUE]
<1>1. c \in Call
  BY DEF TypeOK
<1>2. x.answered = TRUE /\ x.file = c.file /\ x.token = c.token
  BY <1>1 DEF Call
<1>3. Answer(c) = (calls \ {c}) \cup {x} /\ Answer(c) \subseteq Call
  BY AnswerType DEF Answer
<1> HIDE DEF x
<1>4. \A d \in Answer(c) : ~d.answered => d \in calls /\ d # c
  BY <1>2, <1>3
<1>5. \A d \in Answer(c) : d.file <= snapshots /\ d.token <= tokens
  BY <1>2, <1>3 DEF IdsAllocated
<1>6. \A d, e \in Answer(c) : d.token = e.token => d = e
  BY <1>2, <1>3 DEF IdsAllocated
<1> QED
  BY <1>3, <1>4, <1>5, <1>6 DEF Settles

\* An operation that ends: what its ending must respect.
LEMMA FinishStep ==
    ASSUME TypeOK, TypeOK', Safe,
           NEW STATE o, o \in OwnOperation, NEW STATE result,
           NEW STATE conf, conf \in Receipt,
           NEW STATE unc, NEW STATE retain, NEW STATE remove, NEW STATE cs,
           Finish(o, result, conf, unc, retain, remove),
           calls' = cs, Settles(cs), UNCHANGED <<seeds, snapshots, tokens>>, hook' = 0,
           conf.id = 0 \/ (conf.id \in disk \ remove /\ conf.id <= snapshots
                             /\ NotPending(cs, conf.id)),
           \A f \in remove : f # 0 => NotPending(cs, f),
           Pinned(cs, retain \ {0})
    PROVE  Safe'
<1>1. /\ active' = NoOperation /\ confirmed' = conf /\ uncertain' = unc
      /\ retained' = retained \cup (retain \ {0})
      /\ disk' = disk \ (remove \ retained')
  BY DEF Finish, Remove
<1>2. ~Busy' /\ Files(active)' = {0}
  BY <1>1, NoneTypes DEF Busy, Files, NoOperation, NoReceipt
<1>3. SnapshotsKept'
  BY <1>1, <1>2 DEF SnapshotsKept
<1>4. UncertainBlocks'
  BY <1>2 DEF UncertainBlocks
<1>5. \A c \in cs : Pending(c) => c \in calls
  BY DEF Settles, Pending
<1>6. \A f \in disk : f # 0 /\ (\E c \in cs : Pending(c) /\ c.file = f) => f \in disk'
  BY <1>1 DEF NotPending
<1>7. \A s \in seeds : s.id \in disk /\ s.id # 0 => s.id \in disk'
  BY <1>1 DEF NotPending
<1>8. PendingFilesOwned'
  <2>1. \A c \in cs : Pending(c) =>
          /\ c.file # 0 /\ c.file # conf.id
          /\ c.st = "written" => c.file \in disk'
          /\ \A d \in cs : Pending(d) /\ d.file = c.file => d = c
          /\ \A s \in seeds : s.id # c.file
    BY <1>5, <1>6 DEF Safe, PendingFilesOwned, NotPending
  <2>2. \A s \in seeds :
          /\ s.id # 0 /\ s.id # conf.id
          /\ s.st = "written" => s.id \in disk'
          /\ \A t \in seeds : t.id = s.id => t = s
    BY <1>7 DEF Safe, PendingFilesOwned, NotPending
  <2> QED
    BY <1>1, <1>2, <2>1, <2>2 DEF PendingFilesOwned, Pending
<1>9. IdsAllocated'
  <2>1. snapshots \in Nat /\ 0 <= ops' /\ active'.op = 0
    BY <1>1, NoneTypes, BoundsAssumption DEF TypeOK
  <2> QED
    BY <1>1, <1>2, <2>1 DEF Safe, IdsAllocated, Settles
<1>10. OperationConsistent'
  BY <1>1, <1>2 DEF OperationConsistent, NoOperation, NoReceipt, ApplyPhases, VerifyPhases
<1>11. ReadersAccounted'
  <2>1. \A d \in cs : d.phase \in CorePhases /\ ~d.answered =>
           d.file \in retained' /\ d.file \in disk
    BY <1>1 DEF Pinned, Settles, Safe, ReadersAccounted
  <2> QED
    BY <1>1, <2>1 DEF ReadersAccounted
<1> QED
  BY <1>3, <1>4, <1>8, <1>9, <1>10, <1>11 DEF Safe

\* An operation that goes on to another phase.
LEMMA ProceedStep ==
    ASSUME TypeOK, TypeOK', Safe, Busy, ~uncertain,
           NEW STATE o, o \in OwnOperation,
           NEW STATE phase, phase \in Phases \ {"preparing"},
           NEW STATE r, r \in Receipt,
           NEW STATE cs,
           Proceed(o, phase, r, cs), Settles(cs),
           UNCHANGED <<seeds, snapshots, ops>>, hook' = 0,
           o.previous = active.previous, o.op = active.op,
           /\ o.candidate.id # 0 /\ o.candidate.id \in disk
           /\ o.candidate.id <= snapshots
           /\ o.candidate.id \notin {confirmed.id, active.previous.id}
           /\ NotPending(cs, o.candidate.id),
           r.id \in Files(o), phase \in CorePhases => r.id # 0,
           phase \in ApplyPhases \cup VerifyPhases => o.applyStarted,
           phase \in {"validating", "retryValidating"} => r.id = o.candidate.id,
           Pinned(cs, {})
    PROVE  Safe'
<1> DEFINE n == [op |-> o.op, token |-> tokens + 1, phase |-> phase, file |-> r.id,
           data |-> r.data, scope |-> o.scope, answered |-> FALSE, st |-> "sent"]
           b == phase # "preparing"
<1>1. /\ active' = [o EXCEPT !.phase = phase, !.token = tokens + 1, !.fileMayBeInUse = b]
      /\ tokens' = tokens + 1
      /\ calls' = cs \cup {n}
      /\ UNCHANGED <<confirmed, uncertain, retained, disk>>
  BY DEF Proceed, BeginPhase
<1>2. /\ n.op = o.op /\ n.token = tokens + 1 /\ n.phase = phase /\ n.file = r.id
      /\ n.answered = FALSE /\ n.st = "sent"
  OBVIOUS
<1>3. b = TRUE
  OBVIOUS
<1> HIDE DEF n, b
<1>4. /\ active'.op = o.op /\ active'.previous = active.previous
      /\ active'.candidate = o.candidate /\ active'.phase = phase
      /\ active'.token = tokens + 1 /\ active'.fileMayBeInUse = TRUE
      /\ active'.applyStarted = o.applyStarted
  BY <1>1, <1>3 DEF OwnOperation, Operation
<1>5. Busy' /\ Files(active)' = {o.candidate.id, active.previous.id} /\ Files(o) = Files(active)'
  BY <1>4 DEF Busy, Files, OwnOperation
<1>6. SnapshotsKept'
  BY <1>1, <1>5 DEF SnapshotsKept, Safe, Files
<1>7. UncertainBlocks'
  BY <1>1 DEF UncertainBlocks
<1>8. PendingFilesOwned'
  <2>1. ~Pending(n)
    BY <1>2 DEF Pending
  <2>2. \A c \in cs : Pending(c) => c \in calls
    BY DEF Settles, Pending
  <2>3. \A c \in cs : Pending(c) =>
          /\ c.file # 0 /\ c.file \notin {confirmed.id, o.candidate.id, active.previous.id}
          /\ c.st = "written" => c.file \in disk
          /\ \A d \in cs : Pending(d) /\ d.file = c.file => d = c
          /\ \A s \in seeds : s.id # c.file
    BY <2>2 DEF Safe, PendingFilesOwned, NotPending, Files
  <2>4. \A s \in seeds :
          /\ s.id # 0 /\ s.id \notin {confirmed.id, o.candidate.id, active.previous.id}
          /\ s.st = "written" => s.id \in disk
          /\ \A t \in seeds : t.id = s.id => t = s
    BY DEF Safe, PendingFilesOwned, NotPending, Files
  <2> QED
    BY <1>1, <1>5, <2>1, <2>3, <2>4 DEF PendingFilesOwned, Pending
<1>9. IdsAllocated'
  <2>1. tokens \in Nat /\ snapshots \in Nat /\ active'.op <= ops' /\ hook' <= ops'
    BY <1>4, BoundsAssumption DEF TypeOK, Safe, IdsAllocated
  <2>2. \A c \in cs : c.token \in Nat
    BY DEF Settles, Call
  <2>3. r.id <= snapshots
    BY DEF Files, Safe, IdsAllocated
  <2>4. \A f \in Files(active)' : f <= snapshots
    BY <1>5 DEF Safe, IdsAllocated, Files
  <2>5. \A c \in calls' : c.file <= snapshots /\ c.token <= tokens'
    BY <1>1, <1>2, <2>1, <2>2, <2>3 DEF Settles
  <2>6. \A c, d \in calls' : c.token = d.token => c = d
    BY <1>1, <1>2, <2>1, <2>2 DEF Settles
  <2>7. /\ confirmed'.id <= snapshots' /\ \A s \in seeds' : s.id <= snapshots'
        /\ \A f \in Files(active)' : f <= snapshots'
        /\ \A c \in calls' : c.file <= snapshots' /\ c.token <= tokens'
    BY <1>1, <2>4, <2>5 DEF Safe, IdsAllocated
  <2> QED
    BY <2>1, <2>6, <2>7 DEF IdsAllocated
<1>10. OperationConsistent'
  BY <1>1, <1>4, <1>5 DEF OperationConsistent
<1>11. ReadersAccounted'
  <2>1. \A d \in cs : d.phase \in CorePhases /\ ~d.answered =>
           d.file \in retained /\ d.file \in disk
    BY DEF Pinned, Settles, Safe, ReadersAccounted
  <2>2. n.phase \in CorePhases => n.file \in disk /\ n.file \in Files(active)' \ {0}
    BY <1>2, <1>4, <1>5 DEF Safe, SnapshotsKept, Files
  <2>3. /\ Busy' /\ n.op = active'.op /\ n.phase = active'.phase
        /\ n.token = active'.token
    BY <1>2, <1>4, <1>5
  <2>4. n.phase \in CorePhases \ ApplyPhases => n.file = active'.candidate.id
    BY <1>2, <1>4 DEF CorePhases
  <2>5. \A d \in calls' : d.phase \in CorePhases /\ ~d.answered =>
          /\ d.file \in disk'
          /\ \/ d.file \in retained'
             \/ /\ Busy' /\ d.op = active'.op /\ d.phase = active'.phase
                /\ d.token = active'.token /\ active'.fileMayBeInUse
                /\ d.file \in Files(active)' \ {0}
                /\ d.phase \notin ApplyPhases => d.file = active'.candidate.id
    BY <1>1, <1>4, <2>1, <2>2, <2>3, <2>4
  <2> QED
    BY <2>5 DEF ReadersAccounted, Matches
<1> QED
  BY <1>6, <1>7, <1>8, <1>9, <1>10, <1>11 DEF Safe

-----------------------------------------------------------------------------
(* The endings *)

\* Answering calls leaves fewer of them pending.
LEMMA FewerPending ==
    ASSUME NEW STATE cs, Settles(cs), NEW STATE f, NotPending(calls, f)
    PROVE  NotPending(cs, f)
BY DEF Settles, NotPending, Pending

\* The ids the controller holds are no pending ids.
LEMMA HeldNotPending ==
    ASSUME Safe
    PROVE  \A f \in {confirmed.id} \cup Files(active) : NotPending(calls, f)
BY DEF Safe, PendingFilesOwned, NotPending, Files

\* What keeping, or dropping, the confirmed receipt needs.
LEMMA ConfirmedKept ==
    ASSUME TypeOK, Safe, NEW STATE cs, Settles(cs), NEW STATE s
    PROVE  /\ confirmed \in Receipt /\ WithoutScope(s) \in Receipt
           /\ NotPending(cs, confirmed.id)
           /\ WithoutScope(s) = confirmed \/ WithoutScope(s).id = 0
           /\ confirmed.id = 0 \/ (confirmed.id \in disk /\ confirmed.id <= snapshots
                                    /\ NotPending(cs, confirmed.id))
<1>1. NotPending(cs, confirmed.id)
  BY HeldNotPending, FewerPending
<1>2. confirmed.id = 0 \/ (confirmed.id \in disk /\ confirmed.id <= snapshots)
  BY DEF Safe, SnapshotsKept, IdsAllocated
<1>3. WithoutScope(s) = confirmed \/ WithoutScope(s) = NoReceipt
  BY DEF WithoutScope
<1>4. confirmed \in Receipt /\ NoReceipt.id = 0
  BY DEF TypeOK, NoReceipt
<1> QED
  BY <1>1, <1>2, <1>3, <1>4, NoneTypes

LEMMA MarkUnknownStep ==
    ASSUME TypeOK, TypeOK', Safe, NEW STATE o, o \in OwnOperation,
           NEW STATE cs, calls' = cs, Settles(cs),
           UNCHANGED <<seeds, snapshots, tokens>>, hook' = 0,
           MarkUnknown(o), Pinned(cs, Files(o) \ {0})
    PROVE  Safe'
<1> DEFINE R == Files(o) \cup (IF confirmed.scope = o.scope THEN {confirmed.id} ELSE {})
           W == WithoutScope(o.scope)
           u == TRUE
<1>1. Finish(o, "unknown", W, u, R, {})
  BY DEF MarkUnknown
<1>2. Pinned(cs, R \ {0})
  BY DEF Pinned
<1>3. W \in Receipt /\ (W.id = 0 \/ (W.id \in disk \ {} /\ W.id <= snapshots
                                     /\ NotPending(cs, W.id)))
  BY ConfirmedKept
<1> HIDE DEF R, W, u
<1> QED
  BY <1>1, <1>2, <1>3, FinishStep

LEMMA StaleStep ==
    ASSUME TypeOK, TypeOK', Safe, NEW STATE o, o \in OwnOperation,
           NEW STATE cs, calls' = cs, Settles(cs),
           UNCHANGED <<seeds, snapshots, tokens>>, hook' = 0,
           EndForStaleScope(o),
           o.candidate.id # 0 => /\ o.candidate.id # confirmed.id
                                 /\ NotPending(cs, o.candidate.id),
           o.applyStarted => Pinned(cs, Files(o) \ {0}),
           ~o.applyStarted /\ o.fileMayBeInUse => Pinned(cs, {o.candidate.id} \ {0}),
           ~o.applyStarted /\ ~o.fileMayBeInUse => Pinned(cs, {})
    PROVE  Safe'
<1> DEFINE W == WithoutScope(o.scope)
           D == {o.candidate.id} \cup
                (IF confirmed.scope = o.scope THEN {confirmed.id} ELSE {})
<1>1. W \in Receipt /\ (W.id = 0 \/ (W.id \in disk /\ W.id <= snapshots
                                     /\ NotPending(cs, W.id)))
  BY ConfirmedKept
<1>2. CASE o.applyStarted
  <2> DEFINE R == Files(o) \cup {confirmed.id}
             u == TRUE
  <2>1. Finish(o, "unknown", W, u, R, {})
    BY <1>2 DEF EndForStaleScope
  <2>2. Pinned(cs, R \ {0})
    BY <1>2 DEF Pinned
  <2> HIDE DEF W, R, u
  <2> QED
    BY <1>1, <2>1, <2>2, FinishStep
<1>3. CASE ~o.applyStarted /\ o.fileMayBeInUse
  <2>1. Finish(o, "cancelled", W, uncertain, {o.candidate.id}, {})
    BY <1>3 DEF EndForStaleScope
  <2> HIDE DEF W
  <2> QED
    BY <1>1, <1>3, <2>1, FinishStep
<1>4. CASE ~o.applyStarted /\ ~o.fileMayBeInUse
  <2>1. Finish(o, "cancelled", W, uncertain, {}, D)
    BY <1>4 DEF EndForStaleScope
  <2>2. Pinned(cs, {} \ {0})
    BY <1>4 DEF Pinned
  <2>3. \A f \in D : f # 0 => NotPending(cs, f)
    BY ConfirmedKept
  <2>4. W.id = 0 \/ W.id \notin D
    BY DEF WithoutScope, NoReceipt
  <2> HIDE DEF W, D
  <2> QED
    BY <1>1, <2>1, <2>2, <2>3, <2>4, FinishStep
<1> QED
  BY <1>2, <1>3, <1>4

\* An ending that leaves the confirmed receipt alone.
LEMMA KeepStep ==
    ASSUME TypeOK, TypeOK', Safe, NEW STATE o, o \in OwnOperation,
           NEW STATE cs, calls' = cs, Settles(cs),
           UNCHANGED <<seeds, snapshots, tokens>>, hook' = 0,
           NEW STATE result, NEW STATE keep,
           Finish(o, result, confirmed, uncertain,
                  IF keep THEN {o.candidate.id} ELSE {},
                  IF keep THEN {} ELSE {o.candidate.id}),
           o.candidate.id # 0 => /\ o.candidate.id # confirmed.id
                                 /\ NotPending(cs, o.candidate.id),
           IF keep THEN Pinned(cs, {o.candidate.id} \ {0}) ELSE Pinned(cs, {})
    PROVE  Safe'
<1>1. confirmed \in Receipt /\ (confirmed.id = 0 \/ (confirmed.id \in disk
         /\ confirmed.id <= snapshots /\ NotPending(cs, confirmed.id)))
  BY ConfirmedKept
<1>2. o.candidate.id = 0 \/ o.candidate.id # confirmed.id
  OBVIOUS
<1>3. o.candidate.id # 0 => NotPending(cs, o.candidate.id)
  OBVIOUS
<1>4. CASE keep
  BY <1>1, <1>4, FinishStep
<1>5. CASE ~keep
  <2>1. Pinned(cs, {} \ {0})
    BY <1>5 DEF Pinned
  <2>2. confirmed.id = 0 \/ confirmed.id \in disk \ {o.candidate.id}
    BY <1>1, <1>2
  <2>3. Finish(o, result, confirmed, uncertain, {}, {o.candidate.id})
    BY <1>5
  <2> QED
    BY <1>1, <1>3, <2>1, <2>2, <2>3, FinishStep
<1> QED
  BY <1>4, <1>5

LEMMA RejectStep ==
    ASSUME TypeOK, TypeOK', Safe, NEW STATE o, o \in OwnOperation,
           NEW STATE cs, calls' = cs, Settles(cs),
           UNCHANGED <<seeds, snapshots, tokens>>, hook' = 0,
           Reject(o), Pinned(cs, {}),
           o.candidate.id # 0 => /\ o.candidate.id # confirmed.id
                                 /\ NotPending(cs, o.candidate.id)
    PROVE  Safe'
<1>1. Finish(o, "rejected", confirmed, uncertain, {}, {o.candidate.id})
  BY DEF Reject
<1>2. Finish(o, "rejected", confirmed, uncertain,
             IF FALSE THEN {o.candidate.id} ELSE {},
             IF FALSE THEN {} ELSE {o.candidate.id})
  BY <1>1
<1> QED
  BY <1>2, KeepStep

-----------------------------------------------------------------------------
(* Replies *)

LEMMA ReplyFacts ==
    ASSUME TypeOK, Safe, NEW STATE c, Received(c)
    PROVE  /\ Settles(Answer(c)) /\ Pinned(Answer(c), {})
           /\ Busy /\ ~uncertain /\ hook = 0 /\ c \in calls
           /\ UNCHANGED <<seeds, snapshots, ops>>
           /\ \A f \in {confirmed.id} \cup Files(active) : NotPending(Answer(c), f)
<1>1. c \in calls /\ Matches(c) /\ Busy /\ hook = 0 /\ UNCHANGED <<seeds, snapshots, ops>>
  BY DEF Received, Matches, MainTurn
<1>2. IdsAllocated /\ ReadersAccounted /\ UncertainBlocks
  BY DEF Safe
<1>3. Settles(Answer(c)) /\ \A d \in Answer(c) : ~d.answered => d \in calls /\ d # c
  BY <1>1, <1>2, SettlesAnswer DEF Settles
<1>4. Pinned(Answer(c), {})
  <2> SUFFICES ASSUME NEW d \in Answer(c), d.phase \in CorePhases, ~d.answered
               PROVE  d.file \in retained
    BY DEF Pinned
  <2>1. d \in calls /\ d # c
    BY <1>3
  <2>2. ~Matches(d)
    BY <1>1, <1>2, <2>1 DEF Matches, IdsAllocated
  <2> QED
    BY <1>2, <2>1, <2>2 DEF ReadersAccounted
<1>5. \A f \in {confirmed.id} \cup Files(active) : NotPending(Answer(c), f)
  BY <1>3, HeldNotPending, FewerPending
<1> QED
  BY <1>1, <1>2, <1>3, <1>4, <1>5 DEF UncertainBlocks

\* What a running operation's fields say.
LEMMA ActiveFacts ==
    ASSUME TypeOK, Safe, Busy
    PROVE  /\ active.candidate.id = 0 \/ active.candidate.id \in disk
           /\ active.previous.id = 0 \/ active.previous.id \in disk
           /\ active.candidate.id <= snapshots /\ active.previous.id <= snapshots
           /\ active.candidate.id # 0 =>
                active.candidate.id \notin {confirmed.id, active.previous.id}
           /\ active.phase # "preparing" => active.candidate.id # 0
           /\ active.candidate \in Receipt /\ active.previous \in Receipt
           /\ NotPending(calls, active.candidate.id)
           /\ NotPending(calls, active.previous.id)
<1>1. NotPending(calls, active.candidate.id) /\ NotPending(calls, active.previous.id)
  BY HeldNotPending DEF Files
<1> QED
  BY <1>1 DEF Safe, SnapshotsKept, IdsAllocated, OperationConsistent, Files, TypeOK, Operation

\* Settling a reply changes only the file mark and the given fields.
LEMMA SettledFields ==
    ASSUME TypeOK, Busy
    PROVE  /\ Settled.candidate = active.candidate /\ Settled.previous = active.previous
           /\ Settled.scope = active.scope /\ Settled.applyStarted = active.applyStarted
           /\ Settled.fileMayBeInUse = FALSE /\ Settled.op = active.op
           /\ Files(Settled) = Files(active)
BY DEF TypeOK, Operation, Settled, Files
\* Entries already pinned stay pinned.
LEMMA PinnedMore ==
    ASSUME NEW STATE cs, Pinned(cs, {}), NEW STATE extra
    PROVE  Pinned(cs, extra)
BY DEF Pinned

\* What a running operation may hold, with the reply to c answered.
LEMMA ReplyHolds ==
    ASSUME TypeOK, Safe, NEW STATE c, Received(c)
    PROVE  /\ active \in OwnOperation /\ Settled \in OwnOperation
           /\ active.candidate.id # 0 =>
                /\ active.candidate.id # confirmed.id
                /\ NotPending(Answer(c), active.candidate.id)
           /\ NotPending(Answer(c), active.previous.id)
           /\ NotPending(Answer(c), confirmed.id)
BY ReplyFacts, ActiveFacts, OwnTypes DEF Files

LEMMA CandidateSet ==
    ASSUME NEW o \in OwnOperation, NEW r \in Receipt
    PROVE  /\ [o EXCEPT !.candidate = r] \in OwnOperation
           /\ [o EXCEPT !.candidate = r].candidate = r
           /\ [o EXCEPT !.candidate = r].previous = o.previous
           /\ [o EXCEPT !.candidate = r].op = o.op
BY DEF OwnOperation, Operation

LEMMA SafeSnapshotWritten ==
    ASSUME NEW c \in calls, NEW cur \in BOOLEAN, TypeOK, TypeOK', Safe,
           SnapshotWritten(c, cur)
    PROVE  Safe'
<1> DEFINE r == IF c.st = "written" THEN SnapshotOf(c) ELSE NoReceipt
           o == [active EXCEPT !.candidate = r]
           cs == Answer(c)
<1>1. /\ Received(c) /\ UNCHANGED <<seeds, snapshots, ops>> /\ hook' = 0
      /\ Pending(c) /\ c \in Call /\ Busy
  BY AnswerType DEF SnapshotWritten, Received, MainTurn, Pending, Matches
<1>2. r \in Receipt /\ r.id = (IF c.st = "written" THEN c.file ELSE 0)
  BY <1>1, NoneTypes DEF SnapshotOf, Receipt, Call, NoReceipt
<1> HIDE DEF r
<1>3. /\ o \in OwnOperation /\ o.candidate = r /\ o.previous = active.previous
      /\ o.op = active.op
  BY <1>1, <1>2, CandidateSet, OwnTypes
<1>4. /\ c.file # 0 /\ c.file \notin {confirmed.id, active.previous.id}
      /\ c.st = "written" => c.file \in disk
      /\ c.file <= snapshots
      /\ \A d \in calls : Pending(d) /\ d.file = c.file => d = c
      /\ \A s \in seeds : s.id # c.file
  BY <1>1 DEF Safe, PendingFilesOwned, IdsAllocated, Files
<1>5. Settles(cs) /\ \A d \in cs : ~d.answered => d \in calls /\ d # c
  BY SettlesAnswer DEF Settles, Safe
<1>6. NotPending(cs, c.file)
  BY <1>4, <1>5 DEF NotPending, Pending
<1>7. Pinned(cs, {}) /\ Busy /\ ~uncertain
  BY <1>1, ReplyFacts
<1>8. o.candidate.id # 0 => /\ o.candidate.id # confirmed.id
                            /\ NotPending(cs, o.candidate.id)
  BY <1>2, <1>3, <1>4, <1>6
<1>9. \A extra : Pinned(cs, extra)
  BY <1>7 DEF Pinned
<1>10. \/ Proceed(o, "validating", o.candidate, cs) /\ c.st = "written"
       \/ EndForStaleScope(o) /\ calls' = cs /\ UNCHANGED tokens
       \/ Reject(o) /\ calls' = cs /\ UNCHANGED tokens
  BY DEF SnapshotWritten, r
<1> HIDE DEF o, cs
<1>11. CASE Proceed(o, "validating", o.candidate, cs) /\ c.st = "written"
  <2>1. /\ o.candidate.id = c.file /\ o.candidate.id \in Files(o)
        /\ o.candidate \in Receipt
    BY <1>2, <1>3, <1>11 DEF Files
  <2>2. /\ "validating" \in Phases \ {"preparing"}
        /\ "validating" \notin ApplyPhases \cup VerifyPhases
    BY DEF Phases, ApplyPhases, VerifyPhases
  <2> QED
    BY <1>1, <1>3, <1>4, <1>5, <1>6, <1>7, <1>11, <2>1, <2>2, ProceedStep
<1>12. CASE EndForStaleScope(o) /\ calls' = cs /\ UNCHANGED tokens
  BY <1>1, <1>3, <1>5, <1>8, <1>9, <1>12, StaleStep
<1>13. CASE Reject(o) /\ calls' = cs /\ UNCHANGED tokens
  BY <1>1, <1>3, <1>5, <1>8, <1>9, <1>13, RejectStep
<1> QED
  BY <1>10, <1>11, <1>12, <1>13

LEMMA SafeStaleReply ==
    ASSUME NEW c \in calls, TypeOK, TypeOK', Safe, StaleReply(c) PROVE Safe'
<1> DEFINE cs == Answer(c)
<1>1. Received(c) /\ hook' = 0 /\ EndForStaleScope(Settled) /\ calls' = cs /\ UNCHANGED tokens
  BY DEF StaleReply, Received, MainTurn
<1>2. Settles(cs) /\ Pinned(cs, {}) /\ UNCHANGED <<seeds, snapshots>>
  BY <1>1, ReplyFacts
<1>3. /\ Settled \in OwnOperation
      /\ Settled.candidate.id # 0 => /\ Settled.candidate.id # confirmed.id
                                     /\ NotPending(cs, Settled.candidate.id)
  BY <1>1, ReplyFacts, ReplyHolds, SettledFields
<1>4. \A extra : Pinned(cs, extra)
  BY <1>2 DEF Pinned
<1> HIDE DEF cs
<1> QED
  BY <1>1, <1>2, <1>3, <1>4, StaleStep
\* o is the running operation with other marks.
Inherits(o) ==
    /\ o \in OwnOperation
    /\ o.candidate = active.candidate /\ o.previous = active.previous
    /\ o.op = active.op

\* Every mark an action sets leaves the snapshots of the operation alone.
LEMMA SettledInherits ==
    ASSUME TypeOK, Busy, NEW b \in BOOLEAN
    PROVE  /\ Inherits(active)
           /\ Inherits(Settled)
           /\ Inherits([Settled EXCEPT !.applyStarted = TRUE, !.applySettled = FALSE])
           /\ Inherits([Settled EXCEPT !.applySettled = TRUE])
           /\ Inherits([[Settled EXCEPT !.applySettled = TRUE] EXCEPT !.retryRejection = b])
           /\ [Settled EXCEPT !.applyStarted = TRUE, !.applySettled = FALSE].applyStarted
           /\ Settled.applyStarted = active.applyStarted
           /\ [Settled EXCEPT !.applySettled = TRUE].applyStarted = active.applyStarted
           /\ [[Settled EXCEPT !.applySettled = TRUE] EXCEPT !.retryRejection = b].applyStarted
                = active.applyStarted
<1>1. \A x \in OwnOperation :
        /\ [x EXCEPT !.fileMayBeInUse = FALSE].candidate = x.candidate
        /\ [x EXCEPT !.fileMayBeInUse = FALSE].previous = x.previous
        /\ [x EXCEPT !.fileMayBeInUse = FALSE].op = x.op
        /\ [x EXCEPT !.fileMayBeInUse = FALSE].applyStarted = x.applyStarted
        /\ [x EXCEPT !.applyStarted = TRUE, !.applySettled = FALSE].candidate = x.candidate
        /\ [x EXCEPT !.applyStarted = TRUE, !.applySettled = FALSE].previous = x.previous
        /\ [x EXCEPT !.applyStarted = TRUE, !.applySettled = FALSE].op = x.op
        /\ [x EXCEPT !.applyStarted = TRUE, !.applySettled = FALSE].applyStarted
        /\ [x EXCEPT !.applySettled = TRUE].candidate = x.candidate
        /\ [x EXCEPT !.applySettled = TRUE].previous = x.previous
        /\ [x EXCEPT !.applySettled = TRUE].op = x.op
        /\ [x EXCEPT !.applySettled = TRUE].applyStarted = x.applyStarted
        /\ [x EXCEPT !.retryRejection = b].candidate = x.candidate
        /\ [x EXCEPT !.retryRejection = b].previous = x.previous
        /\ [x EXCEPT !.retryRejection = b].op = x.op
        /\ [x EXCEPT !.retryRejection = b].applyStarted = x.applyStarted
        /\ [x EXCEPT !.retryRejection = b] \in OwnOperation
  BY DEF OwnOperation, Operation
<1>2. Settled \in OwnOperation /\ active \in OwnOperation
  BY OwnTypes
<1>3. Settled = [active EXCEPT !.fileMayBeInUse = FALSE]
  BY DEF Settled
<1>4. [Settled EXCEPT !.applySettled = TRUE] \in OwnOperation
  BY OwnTypes
<1>5. /\ Settled.candidate = active.candidate /\ Settled.previous = active.previous
      /\ Settled.op = active.op
      /\ Settled.applyStarted = active.applyStarted
  BY <1>1, <1>2, <1>3
<1> QED
  BY <1>1, <1>2, <1>4, <1>5, OwnTypes DEF Inherits

\* The reply to c ends the operation.
LEMMA ReplyEnds ==
    ASSUME TypeOK, TypeOK', Safe, NEW STATE c, Received(c),
           NEW STATE o, Inherits(o), NEW STATE keep, keep \in BOOLEAN,
           \/ Reject(o)
           \/ MarkUnknown(o)
           \/ FinishRetryValidation(o, keep),
           calls' = Answer(c), UNCHANGED tokens, hook' = 0
    PROVE  Safe'
<1> DEFINE cs == Answer(c)
<1>1. Settles(cs) /\ Pinned(cs, {}) /\ UNCHANGED <<seeds, snapshots>> /\ o \in OwnOperation
  BY ReplyFacts DEF Inherits
<1>2. o.candidate.id # 0 => /\ o.candidate.id # confirmed.id
                            /\ NotPending(cs, o.candidate.id)
  BY ReplyHolds DEF Inherits
<1>3. \A extra : Pinned(cs, extra)
  BY <1>1 DEF Pinned
<1>4. calls' = cs
  OBVIOUS
<1> HIDE DEF cs
<1>5. CASE Reject(o)
  BY <1>1, <1>2, <1>3, <1>4, <1>5, RejectStep
<1>6. CASE MarkUnknown(o)
  BY <1>1, <1>3, <1>4, <1>6, MarkUnknownStep
<1>7. CASE FinishRetryValidation(o, keep)
  <2>1. Finish(o, "rolledBack", confirmed, uncertain,
               IF keep THEN {o.candidate.id} ELSE {},
               IF keep THEN {} ELSE {o.candidate.id})
    BY <1>7 DEF FinishRetryValidation
  <2>2. IF keep THEN Pinned(cs, {o.candidate.id} \ {0}) ELSE Pinned(cs, {})
    BY <1>3
  <2> QED
    BY <1>1, <1>2, <1>4, <2>1, <2>2, KeepStep
<1> QED
  BY <1>5, <1>6, <1>7

\* The reply to c takes the operation to its next phase.
LEMMA ReplyProceeds ==
    ASSUME TypeOK, TypeOK', Safe, NEW STATE c, Received(c), c.phase # "preparing",
           NEW STATE o, Inherits(o),
           NEW STATE phase, phase \in Phases \ {"preparing"},
           NEW STATE r, r \in {o.candidate, o.previous},
           Proceed(o, phase, r, Answer(c)), hook' = 0,
           phase \in CorePhases => r.id # 0,
           phase \in ApplyPhases \cup VerifyPhases => o.applyStarted,
           phase \in {"validating", "retryValidating"} => r = o.candidate
    PROVE  Safe'
<1> DEFINE cs == Answer(c)
<1>1. /\ Settles(cs) /\ Pinned(cs, {}) /\ UNCHANGED <<seeds, snapshots, ops>>
      /\ Busy /\ ~uncertain /\ active.phase # "preparing"
  BY ReplyFacts DEF Received, Matches
<1>2. /\ o \in OwnOperation /\ o.previous = active.previous /\ o.op = active.op
      /\ o.candidate = active.candidate
      /\ r \in Receipt /\ r.id \in Files(o)
  BY <1>1, ActiveFacts DEF Inherits, Files
<1>3. /\ o.candidate.id # 0 /\ o.candidate.id \in disk
      /\ o.candidate.id <= snapshots
      /\ o.candidate.id \notin {confirmed.id, active.previous.id}
      /\ NotPending(cs, o.candidate.id)
  BY <1>1, <1>2, ActiveFacts, ReplyHolds
<1>4. Proceed(o, phase, r, cs)
  OBVIOUS
<1> HIDE DEF cs
<1> QED
  BY <1>1, <1>2, <1>3, <1>4, ProceedStep

LEMMA ReplyRollsBackOrUnknown ==
    ASSUME TypeOK, TypeOK', Safe, NEW STATE c, Received(c), c.phase # "preparing",
           NEW STATE o, Inherits(o), o.applyStarted,
           RollbackOrUnknown(o, Answer(c)), hook' = 0
    PROVE  Safe'
<1>1. CASE HasBaseline(o) /\ BeginRollback(o, Answer(c))
  <2>1. o.previous.id # 0 /\ "rollbackApplying" \in Phases \ {"preparing"}
    BY <1>1 DEF HasBaseline, Phases
  <2> QED
    BY <1>1, <2>1, ReplyProceeds DEF BeginRollback
<1>2. CASE MarkUnknown(o) /\ calls' = Answer(c) /\ UNCHANGED tokens
  BY <1>2, ReplyEnds
<1> QED
  BY <1>1, <1>2 DEF RollbackOrUnknown

LEMMA SafeValidationReply ==
    ASSUME NEW c \in calls, NEW ok \in BOOLEAN, TypeOK, TypeOK', Safe,
           ValidationReply(c, ok)
    PROVE  Safe'
<1>1. Received(c) /\ hook' = 0 /\ Busy /\ c.phase # "preparing" /\ active.phase = c.phase
  BY DEF ValidationReply, Received, MainTurn, Matches
<1>2. CASE ok
  <2> DEFINE o == [Settled EXCEPT !.applyStarted = TRUE, !.applySettled = FALSE]
  <2>1. Proceed(o, "applying", Settled.candidate, Answer(c))
    BY <1>2 DEF ValidationReply, BeginApply
  <2>2. Inherits(o) /\ o.applyStarted /\ Settled.candidate = o.candidate
    BY <1>1, SettledInherits DEF Inherits
  <2>3. Settled.candidate.id # 0
    BY <1>1, ActiveFacts, SettledInherits DEF Inherits
  <2>4. "applying" \in Phases \ {"preparing"}
    BY DEF Phases
  <2> HIDE DEF o
  <2> QED
    BY <1>1, <2>1, <2>2, <2>3, <2>4, ReplyProceeds
<1>3. CASE ~ok
  <2>1. \/ Reject(Settled) /\ calls' = Answer(c) /\ UNCHANGED tokens
        \/ FinishRetryValidation(Settled, FALSE) /\ calls' = Answer(c) /\ UNCHANGED tokens
    BY <1>3 DEF ValidationReply
  <2> QED
    BY <1>1, <2>1, SettledInherits, ReplyEnds
<1> QED
  BY <1>2, <1>3
LEMMA SafeApplyReply ==
    ASSUME NEW c \in calls, NEW result \in {"accepted", "rejected", "uncertain"},
           TypeOK, TypeOK', Safe, ApplyReply(c, result)
    PROVE  Safe'
<1> DEFINE o == [Settled EXCEPT !.applySettled = TRUE]
           b == o.retryRejection \/ (o.retryAfterVerifiedRollback /\ ~o.retryUsed)
           r == [o EXCEPT !.retryRejection = b]
<1>1. /\ Received(c) /\ hook' = 0 /\ Busy /\ c.phase # "preparing"
      /\ active.phase = "applying" /\ active.applyStarted
  BY DEF ApplyReply, Received, MainTurn, Matches, Safe, OperationConsistent, ApplyPhases
<1>2. b \in BOOLEAN
  OBVIOUS
<1>3. /\ Inherits(o) /\ o.applyStarted /\ Inherits(r) /\ r.applyStarted
  <2> HIDE DEF b
  <2> QED
    BY <1>1, <1>2, SettledInherits
<1>4. HasBaseline(o) => r.previous.id # 0
  BY <1>3 DEF HasBaseline, Inherits
<1>5. r = [o EXCEPT !.retryRejection =
             @ \/ (o.retryAfterVerifiedRollback /\ ~o.retryUsed)]
  OBVIOUS
<1>6. \/ Proceed(o, "verifying", o.candidate, Answer(c))
      \/ HasBaseline(o) /\ BeginRollback(r, Answer(c))
      \/ Reject(o) /\ calls' = Answer(c) /\ UNCHANGED tokens
      \/ MarkUnknown(o) /\ calls' = Answer(c) /\ UNCHANGED tokens
  BY <1>5, Zenon DEF ApplyReply
<1> HIDE DEF o, r
<1>7. CASE Proceed(o, "verifying", o.candidate, Answer(c))
  <2>1. "verifying" \in Phases \ {"preparing"} /\ "verifying" \notin CorePhases
    BY DEF Phases, CorePhases, ApplyPhases
  <2> QED
    BY <1>1, <1>3, <1>7, <2>1, ReplyProceeds
<1>8. CASE HasBaseline(o) /\ BeginRollback(r, Answer(c))
  <2>1. "rollbackApplying" \in Phases \ {"preparing"}
    BY DEF Phases
  <2> QED
    BY <1>1, <1>3, <1>4, <1>8, <2>1, ReplyProceeds DEF BeginRollback
<1>9. CASE (Reject(o) \/ MarkUnknown(o)) /\ calls' = Answer(c) /\ UNCHANGED tokens
  BY <1>1, <1>3, <1>9, ReplyEnds
<1> QED
  BY <1>6, <1>7, <1>8, <1>9

LEMMA SafeVerifyReply ==
    ASSUME NEW c \in calls, NEW ok \in BOOLEAN, TypeOK, TypeOK', Safe,
           VerifyReply(c, ok)
    PROVE  Safe'
<1>1. /\ Received(c) /\ hook' = 0 /\ Busy /\ c.phase # "preparing"
      /\ active.phase = "verifying" /\ active.applyStarted
  BY DEF VerifyReply, Received, MainTurn, Matches, Safe, OperationConsistent, VerifyPhases
<1>2. CASE ok
  <2> DEFINE cs == Answer(c)
             conf == active.candidate
             d == {confirmed.id}
             e == {}
             u == FALSE
  <2>1. /\ Finish(Settled, "applied", conf, u, e, d)
        /\ calls' = cs /\ UNCHANGED tokens
    BY <1>2 DEF VerifyReply
  <2>2. Settles(cs) /\ UNCHANGED <<seeds, snapshots>> /\ Settled \in OwnOperation
    BY <1>1, ReplyFacts, ReplyHolds
  <2>3. Pinned(cs, e \ {0})
    BY <1>1, ReplyFacts, PinnedMore
  <2>4. /\ conf \in Receipt /\ conf.id \in disk \ d /\ conf.id <= snapshots
        /\ NotPending(cs, conf.id)
    BY <1>1, ActiveFacts, ReplyHolds
  <2>5. \A f \in d : f # 0 => NotPending(cs, f)
    BY <1>1, ReplyHolds
  <2> HIDE DEF cs, conf, d, e, u
  <2> QED
    BY <1>1, <2>1, <2>2, <2>3, <2>4, <2>5, FinishStep
<1>3. CASE ~ok
  <2>1. RollbackOrUnknown(Settled, Answer(c))
    BY <1>3 DEF VerifyReply
  <2> QED
    BY <1>1, <2>1, SettledInherits, ReplyRollsBackOrUnknown
<1> QED
  BY <1>2, <1>3

LEMMA SafeRollbackApplyReply ==
    ASSUME NEW c \in calls, NEW result \in {"accepted", "rejected", "uncertain"},
           TypeOK, TypeOK', Safe, RollbackApplyReply(c, result)
    PROVE  Safe'
<1>1. /\ Received(c) /\ hook' = 0 /\ Busy /\ c.phase # "preparing"
      /\ active.phase = "rollbackApplying" /\ active.applyStarted
  BY DEF RollbackApplyReply, Received, MainTurn, Matches, Safe, OperationConsistent, ApplyPhases
<1>2. Inherits(Settled) /\ Settled.applyStarted /\ Settled.previous = active.previous
  BY <1>1, SettledInherits DEF Inherits
<1>3. CASE Proceed(Settled, "rollbackVerifying", active.previous, Answer(c))
  <2>1. "rollbackVerifying" \in Phases \ {"preparing"} /\ "rollbackVerifying" \notin CorePhases
    BY DEF Phases, CorePhases, ApplyPhases
  <2> QED
    BY <1>1, <1>2, <1>3, <2>1, ReplyProceeds
<1>4. CASE MarkUnknown(Settled) /\ calls' = Answer(c) /\ UNCHANGED tokens
  BY <1>1, <1>2, <1>4, ReplyEnds
<1> QED
  BY <1>3, <1>4 DEF RollbackApplyReply
LEMMA SafeRollbackVerifyReply ==
    ASSUME NEW c \in calls, NEW ok \in BOOLEAN, TypeOK, TypeOK', Safe,
           RollbackVerifyReply(c, ok)
    PROVE  Safe'
<1> DEFINE cs == Answer(c)
           n == [Settled EXCEPT !.restoredBaseline = active.previous,
                                !.retryUsed = TRUE, !.retryRejection = FALSE]
<1>1. /\ Received(c) /\ hook = 0 /\ Busy /\ c.phase # "preparing"
      /\ active.phase = "rollbackVerifying" /\ active.applyStarted
      /\ UNCHANGED <<seeds, snapshots, ops, tokens>>
  BY DEF RollbackVerifyReply, Received, MainTurn, Matches, Safe, OperationConsistent, VerifyPhases
<1>2. Settles(cs) /\ Pinned(cs, {}) /\ Inherits(Settled)
  BY <1>1, ReplyFacts, SettledInherits
<1>3. /\ active.candidate.id # 0 /\ active.candidate.id # active.previous.id
      /\ active.previous.id = 0 \/ active.previous.id \in disk
      /\ active.previous.id <= snapshots /\ active.previous \in Receipt
      /\ active.candidate.id \in disk /\ active.candidate.id <= snapshots
      /\ NotPending(cs, active.previous.id) /\ NotPending(cs, active.candidate.id)
  BY <1>1, ActiveFacts, ReplyHolds
<1>4. \/ /\ active' = n /\ hook' = active.op
         /\ confirmed' = active.previous /\ uncertain' = FALSE
         /\ calls' = cs /\ UNCHANGED <<retained, disk>>
      \/ /\ Finish(Settled, "rolledBack", active.previous, FALSE, {},
                   {active.candidate.id})
         /\ calls' = cs /\ UNCHANGED hook
      \/ MarkUnknown(Settled) /\ calls' = cs /\ UNCHANGED hook
  BY DEF RollbackVerifyReply
<1>5. /\ n.candidate = active.candidate /\ n.previous = active.previous /\ n.op = active.op
      /\ n.phase = active.phase /\ n.fileMayBeInUse = FALSE
      /\ n.restoredBaseline = active.previous /\ n.applyStarted
  BY <1>1 DEF Settled, TypeOK, Operation
<1> HIDE DEF cs, n
<1>6. CASE /\ active' = n /\ hook' = active.op
           /\ confirmed' = active.previous /\ uncertain' = FALSE
           /\ calls' = cs /\ UNCHANGED <<retained, disk>>
  <2>1. Files(active)' = Files(active)
    BY <1>5, <1>6 DEF Files
  <2>2. SnapshotsKept'
    BY <1>3, <1>6, <2>1 DEF SnapshotsKept, Files, Safe
  <2>3. UncertainBlocks'
    BY <1>6 DEF UncertainBlocks
  <2>4. PendingFilesOwned'
    <3>1. confirmed'.id \in Files(active)
      BY <1>6 DEF Files
    <3>2. \A d \in cs : Pending(d) => d \in calls
      BY <1>2 DEF Settles, Pending
    <3>3. \A d \in cs : Pending(d) =>
            /\ d.file # 0 /\ d.file \notin {confirmed'.id} \cup Files(active)
            /\ d.st = "written" => d.file \in disk
            /\ \A e \in cs : Pending(e) /\ e.file = d.file => e = d
            /\ \A s \in seeds : s.id # d.file
      BY <3>1, <3>2 DEF Safe, PendingFilesOwned
    <3>4. \A s \in seeds :
            /\ s.id # 0 /\ s.id \notin {confirmed'.id} \cup Files(active)
            /\ s.st = "written" => s.id \in disk
            /\ \A t \in seeds : t.id = s.id => t = s
      BY <3>1 DEF Safe, PendingFilesOwned
    <3> QED
      BY <1>1, <1>6, <2>1, <3>3, <3>4 DEF PendingFilesOwned, Pending
  <2>5. IdsAllocated'
    <3>1. confirmed'.id <= snapshots' /\ active'.op <= ops' /\ hook' <= ops'
      BY <1>1, <1>3, <1>5, <1>6 DEF Safe, IdsAllocated
    <3>2. /\ \A f \in Files(active)' : f <= snapshots'
          /\ \A s \in seeds' : s.id <= snapshots'
      BY <1>1, <2>1 DEF Safe, IdsAllocated
    <3>3. /\ \A d \in calls' : d.file <= snapshots' /\ d.token <= tokens'
          /\ \A d, e \in calls' : d.token = e.token => d = e
      BY <1>1, <1>2, <1>6 DEF Settles
    <3> QED
      BY <3>1, <3>2, <3>3 DEF IdsAllocated
  <2>6. OperationConsistent'
    BY <1>1, <1>3, <1>5, <1>6 DEF OperationConsistent, Busy
  <2>7. ReadersAccounted'
    <3>1. \A d \in cs : d.phase \in CorePhases /\ ~d.answered =>
             d.file \in retained /\ d.file \in disk
      BY <1>2 DEF Pinned, Settles, Safe, ReadersAccounted
    <3> QED
      BY <1>6, <3>1 DEF ReadersAccounted
  <2> QED
    BY <2>2, <2>3, <2>4, <2>5, <2>6, <2>7 DEF Safe
<1>7. CASE /\ Finish(Settled, "rolledBack", active.previous, FALSE, {},
                     {active.candidate.id})
           /\ calls' = cs /\ UNCHANGED hook
  <2> DEFINE conf == active.previous
             d == {active.candidate.id}
             e == {}
             u == FALSE
  <2>1. Finish(Settled, "rolledBack", conf, u, e, d)
    BY <1>7
  <2>2. Pinned(cs, e \ {0})
    BY <1>2, PinnedMore
  <2>3. /\ conf \in Receipt
        /\ conf.id = 0 \/ (conf.id \in disk \ d /\ conf.id <= snapshots
                           /\ NotPending(cs, conf.id))
    BY <1>3
  <2>4. \A f \in d : f # 0 => NotPending(cs, f)
    BY <1>3
  <2>5. Settled \in OwnOperation /\ hook' = 0
    BY <1>1, <1>2, <1>7 DEF Inherits
  <2> HIDE DEF conf, d, e, u
  <2> QED
    BY <1>1, <1>2, <1>7, <2>1, <2>2, <2>3, <2>4, <2>5, FinishStep
<1>8. CASE MarkUnknown(Settled) /\ calls' = cs /\ UNCHANGED hook
  BY <1>1, <1>2, <1>8, ReplyEnds DEF cs
<1> QED
  BY <1>4, <1>6, <1>7, <1>8
-----------------------------------------------------------------------------
(* The retry callback's return and the deadline *)

\* The readers an ending without a reply has to pin.
LEMMA OpenReaders ==
    ASSUME TypeOK, Safe, Busy
    PROVE  /\ Settles(calls) /\ active \in OwnOperation /\ Inherits(active)
           /\ Pinned(calls, Files(active) \ {0})
           /\ ~active.fileMayBeInUse \/ active.phase \notin CorePhases => Pinned(calls, {})
           /\ ~active.applyStarted => Pinned(calls, {active.candidate.id} \ {0})
           /\ active.candidate.id # 0 => /\ active.candidate.id # confirmed.id
                                         /\ NotPending(calls, active.candidate.id)
<1>1. \A d \in calls : d.phase \in CorePhases /\ ~d.answered =>
         \/ d.file \in retained
         \/ /\ d.phase = active.phase /\ active.fileMayBeInUse
            /\ d.file \in Files(active) \ {0}
            /\ d.phase \notin ApplyPhases => d.file = active.candidate.id
  BY DEF Safe, ReadersAccounted, Matches
<1>2. active.phase \in ApplyPhases => active.applyStarted
  BY DEF Safe, OperationConsistent
<1>3. /\ Pinned(calls, Files(active) \ {0})
      /\ ~active.fileMayBeInUse \/ active.phase \notin CorePhases => Pinned(calls, {})
  BY <1>1 DEF Pinned
<1>4. ~active.applyStarted => Pinned(calls, {active.candidate.id} \ {0})
  BY <1>1, <1>2 DEF Pinned
<1>5. Settles(calls) /\ active \in OwnOperation /\ Inherits(active)
  BY SettlesSame, OwnTypes DEF Safe, Inherits
<1> QED
  BY <1>3, <1>4, <1>5, ActiveFacts

LEMMA SafeRetryHookReturns ==
    ASSUME NEW cur \in BOOLEAN, TypeOK, TypeOK', Safe, RetryHookReturns(cur)
    PROVE  Safe'
<1>1. hook # 0 /\ hook' = 0 /\ UNCHANGED <<seeds, ops, snapshots>>
  BY DEF RetryHookReturns
<1>2. CASE active.op # hook
  <2>1. UNCHANGED <<ctl, calls, tokens>>
    BY <1>2 DEF RetryHookReturns
  <2>2. SnapshotsKept' /\ UncertainBlocks'
    BY <1>1, <2>1 DEF Safe, SnapshotsKept, UncertainBlocks, Files, Busy, ctl
  <2>3. PendingFilesOwned'
    BY <1>1, <2>1 DEF Safe, PendingFilesOwned, Pending, Files, ctl
  <2>4. IdsAllocated'
    BY <1>1, <2>1, BoundsAssumption DEF TypeOK, Safe, IdsAllocated, Files, ctl
  <2>5. OperationConsistent'
    BY <1>1, <2>1 DEF Safe, OperationConsistent, Busy, ctl
  <2>6. ReadersAccounted'
    BY <1>1, <2>1 DEF Safe, ReadersAccounted, Matches, Files, Busy, ctl
  <2> QED
    BY <2>2, <2>3, <2>4, <2>5, <2>6 DEF Safe
<1>3. CASE active.op = hook
  <2>1. /\ Busy /\ ~uncertain /\ ~active.fileMayBeInUse
        /\ active.phase = "rollbackVerifying"
    BY <1>1, <1>3 DEF Busy, Safe, UncertainBlocks, OperationConsistent
  <2>2. Pinned(calls, {}) /\ \A extra : Pinned(calls, extra)
    BY <2>1, OpenReaders DEF Pinned
  <2>3. \/ EndForStaleScope(active) /\ UNCHANGED <<calls, tokens>>
        \/ Proceed(active, "retryValidating", active.candidate, calls)
        \/ MarkUnknown(active) /\ UNCHANGED <<calls, tokens>>
    BY <1>3 DEF RetryHookReturns
  <2>4. CASE EndForStaleScope(active) /\ UNCHANGED <<calls, tokens>>
    BY <1>1, <2>1, <2>2, <2>4, OpenReaders, StaleStep
  <2>5. CASE Proceed(active, "retryValidating", active.candidate, calls)
    <3>1. "retryValidating" \in Phases \ {"preparing"}
          /\ "retryValidating" \notin ApplyPhases \cup VerifyPhases
      BY DEF Phases, ApplyPhases, VerifyPhases
    <3>2. /\ active.candidate.id # 0 /\ active.candidate.id \in disk
          /\ active.candidate.id <= snapshots
          /\ active.candidate.id \notin {confirmed.id, active.previous.id}
          /\ NotPending(calls, active.candidate.id)
          /\ active.candidate \in Receipt /\ active.candidate.id \in Files(active)
      BY <2>1, ActiveFacts DEF Files
    <3> QED
      BY <1>1, <2>1, <2>2, <2>5, <3>1, <3>2, OpenReaders, ProceedStep
  <2>6. CASE MarkUnknown(active) /\ UNCHANGED <<calls, tokens>>
    BY <1>1, <2>1, <2>2, <2>6, OpenReaders, MarkUnknownStep
  <2> QED
    BY <2>3, <2>4, <2>5, <2>6
<1> QED
  BY <1>2, <1>3

LEMMA SafeTimeout == ASSUME TypeOK, TypeOK', Safe, Timeout PROVE Safe'
<1>1. /\ hook' = 0 /\ Busy /\ ~uncertain /\ UNCHANGED <<seeds, ops, snapshots>>
      /\ active.phase \in Phases
  BY DEF Timeout, MainTurn, Safe, UncertainBlocks, TypeOK, Operation
<1>2. \/ EndForStaleScope(active) /\ UNCHANGED <<calls, tokens>>
      \/ /\ active.phase = "preparing"
         /\ Reject(active) /\ UNCHANGED <<calls, tokens>>
      \/ /\ active.phase = "validating"
         /\ Finish(active, "rejected", confirmed, uncertain, {active.candidate.id}, {})
         /\ UNCHANGED <<calls, tokens>>
      \/ /\ active.phase = "retryValidating"
         /\ FinishRetryValidation(active, TRUE) /\ UNCHANGED <<calls, tokens>>
      \/ MarkUnknown(active) /\ UNCHANGED <<calls, tokens>>
      \/ active.phase = "verifying" /\ RollbackOrUnknown(active, calls)
  BY DEF Timeout
<1>3. CASE EndForStaleScope(active) /\ UNCHANGED <<calls, tokens>>
  BY <1>1, <1>3, OpenReaders, StaleStep
<1>4. CASE active.phase = "preparing" /\ Reject(active) /\ UNCHANGED <<calls, tokens>>
  <2>1. active.phase \notin CorePhases
    BY <1>4 DEF CorePhases, ApplyPhases
  <2> QED
    BY <1>1, <1>4, <2>1, OpenReaders, RejectStep
<1>5. CASE /\ active.phase \in {"validating", "retryValidating"}
           /\ UNCHANGED <<calls, tokens>>
           /\ \/ Finish(active, "rejected", confirmed, uncertain, {active.candidate.id}, {})
              \/ FinishRetryValidation(active, TRUE)
  <2> DEFINE keep == TRUE
  <2>1. \E result :
          Finish(active, result, confirmed, uncertain,
                 IF keep THEN {active.candidate.id} ELSE {},
                 IF keep THEN {} ELSE {active.candidate.id})
    BY <1>5 DEF FinishRetryValidation
  <2>2. Pinned(calls, {active.candidate.id} \ {0})
    <3>1. active.phase \notin ApplyPhases
      BY <1>5 DEF ApplyPhases
    <3> QED
      BY <1>1, <3>1 DEF Pinned, Safe, ReadersAccounted, Matches
  <2>3. keep
    OBVIOUS
  <2> HIDE DEF keep
  <2> QED
    BY <1>1, <1>5, <2>1, <2>2, <2>3, OpenReaders, KeepStep
<1>6. CASE MarkUnknown(active) /\ UNCHANGED <<calls, tokens>>
  BY <1>1, <1>6, OpenReaders, MarkUnknownStep
<1>7. CASE active.phase = "verifying" /\ RollbackOrUnknown(active, calls)
  <2>1. active.phase \notin CorePhases /\ active.phase \in VerifyPhases
    BY <1>7 DEF CorePhases, ApplyPhases, VerifyPhases
  <2>2. CASE HasBaseline(active) /\ BeginRollback(active, calls)
    <3>1. "rollbackApplying" \in Phases \ {"preparing"} /\ active.previous.id # 0
      BY <2>2 DEF Phases, HasBaseline
    <3>2. /\ active.candidate.id # 0 /\ active.candidate.id \in disk
          /\ active.candidate.id <= snapshots
          /\ active.candidate.id \notin {confirmed.id, active.previous.id}
          /\ NotPending(calls, active.candidate.id)
          /\ active.previous \in Receipt /\ active.previous.id \in Files(active)
      BY <1>1, <1>7, ActiveFacts DEF Files
    <3>3. active.applyStarted
      BY <2>1 DEF Safe, OperationConsistent
    <3> QED
      BY <1>1, <2>1, <2>2, <3>1, <3>2, <3>3, OpenReaders, ProceedStep DEF BeginRollback
  <2>3. CASE MarkUnknown(active) /\ UNCHANGED <<calls, tokens>>
    BY <1>1, <2>3, OpenReaders, MarkUnknownStep
  <2> QED
    BY <1>7, <2>2, <2>3 DEF RollbackOrUnknown
<1> QED
  BY <1>2, <1>3, <1>4, <1>5, <1>6, <1>7
-----------------------------------------------------------------------------
(* Adoption and invalidation *)

LEMMA DetachStep ==
    ASSUME TypeOK, TypeOK', Safe, Detach,
           UNCHANGED <<calls, seeds, hook, ops, tokens>>,
           snapshots' = snapshots \/ snapshots' = snapshots + 1,
           disk \ (DetachedFiles \ retained') \subseteq disk',
           \/ confirmed'.id = 0
           \/ /\ confirmed'.id = snapshots + 1 /\ snapshots' = snapshots + 1
              /\ confirmed'.id \in disk'
    PROVE  Safe'
<1>1. /\ active' = NoOperation /\ active'.op = 0 /\ uncertain' = FALSE
      /\ retained' = retained \cup
           ((IF active.fileMayBeInUse THEN Files(active) ELSE {}) \ {0})
  BY NoneTypes DEF Detach
<1>2. ~Busy' /\ Files(active)' = {0}
  BY <1>1 DEF Busy, Files, NoOperation, NoReceipt
<1>3. snapshots \in Nat /\ ops' \in Nat /\ hook' <= ops'
  BY BoundsAssumption DEF TypeOK, Safe, IdsAllocated
<1>4. \A f \in disk : f \notin {confirmed.id} \cup Files(active) => f \in disk'
  BY DEF DetachedFiles
<1>5. SnapshotsKept'
  BY <1>2 DEF SnapshotsKept
<1>6. UncertainBlocks'
  BY <1>1 DEF UncertainBlocks
<1>7. PendingFilesOwned'
  <2>1. \A c \in calls : Pending(c) => c.file # confirmed'.id
    BY <1>3 DEF Safe, PendingFilesOwned, IdsAllocated
  <2>2. \A s \in seeds : s.id # confirmed'.id
    BY <1>3 DEF Safe, PendingFilesOwned, IdsAllocated
  <2>3. \A c \in calls : Pending(c) =>
          /\ c.file # 0 /\ (c.st = "written" => c.file \in disk')
          /\ \A d \in calls : Pending(d) /\ d.file = c.file => d = c
          /\ \A s \in seeds : s.id # c.file
    BY <1>4 DEF Safe, PendingFilesOwned
  <2>4. \A s \in seeds :
          /\ s.id # 0 /\ (s.st = "written" => s.id \in disk')
          /\ \A t \in seeds : t.id = s.id => t = s
    BY <1>4 DEF Safe, PendingFilesOwned
  <2> QED
    BY <1>2, <2>1, <2>2, <2>3, <2>4 DEF PendingFilesOwned, Pending
<1>8. IdsAllocated'
  <2>1. /\ \A c \in calls : c.file \in Nat /\ c.file <= snapshots /\ c.token <= tokens
        /\ \A s \in seeds : s.id \in Nat /\ s.id <= snapshots
        /\ \A c, d \in calls : c.token = d.token => c = d
    BY DEF Safe, IdsAllocated, TypeOK, Call, Seed
  <2>2. \A k \in Nat : k <= snapshots => k <= snapshots'
    BY <1>3
  <2>3. confirmed'.id <= snapshots' /\ 0 <= snapshots'
    BY <1>3
  <2>4. /\ \A c \in calls' : c.file <= snapshots' /\ c.token <= tokens'
        /\ \A s \in seeds' : s.id <= snapshots'
        /\ \A c, d \in calls' : c.token = d.token => c = d
    BY <2>1, <2>2
  <2> QED
    BY <1>1, <1>2, <1>3, <2>3, <2>4 DEF IdsAllocated
<1>9. OperationConsistent'
  BY <1>1, <1>2 DEF OperationConsistent, NoOperation, NoReceipt, ApplyPhases, VerifyPhases, Busy
<1>10. ReadersAccounted'
  <2>1. \A c \in calls : c.phase \in CorePhases /\ ~c.answered =>
           c.file \in retained' /\ c.file \in disk
    BY <1>1 DEF Safe, ReadersAccounted
  <2>2. \A c \in calls : c.file \in retained' /\ c.file \in disk => c.file \in disk'
    OBVIOUS
  <2> QED
    BY <2>1, <2>2 DEF ReadersAccounted
<1> QED
  BY <1>5, <1>6, <1>7, <1>8, <1>9, <1>10 DEF Safe

LEMMA SafeAdoptConfirmed == ASSUME TypeOK, TypeOK', Safe, AdoptConfirmed PROVE Safe'
<1>1. /\ confirmed'.id = snapshots + 1 /\ snapshots' = snapshots + 1
      /\ Detach /\ UNCHANGED <<calls, seeds, hook, ops, tokens>>
      /\ disk' = (disk \cup {snapshots + 1}) \ (DetachedFiles \ retained')
  BY DEF AdoptConfirmed, Remove
<1>2. snapshots \in Nat /\ \A f \in DetachedFiles : f \in Nat /\ f <= snapshots
  <2>1. /\ confirmed.id \in Nat /\ active.candidate.id \in Nat /\ active.previous.id \in Nat
        /\ snapshots \in Nat
    BY BoundsAssumption DEF TypeOK, Operation, Receipt
  <2>2. /\ confirmed.id <= snapshots /\ active.candidate.id <= snapshots
        /\ active.previous.id <= snapshots
    BY DEF Safe, IdsAllocated, Files
  <2> QED
    BY <2>1, <2>2 DEF DetachedFiles, Files
<1>3. confirmed'.id \in disk'
  BY <1>1, <1>2
<1> QED
  BY <1>1, <1>3, DetachStep

LEMMA SafeInvalidateState == ASSUME TypeOK, TypeOK', Safe, InvalidateState PROVE Safe'
<1>1. /\ confirmed'.id = 0 /\ snapshots' = snapshots
      /\ Detach /\ UNCHANGED <<calls, seeds, hook, ops, tokens>>
      /\ disk' = disk \ (DetachedFiles \ retained')
  BY DEF InvalidateState, Remove, NoReceipt
<1> QED
  BY <1>1, DetachStep

\* Between operations every unanswered reader is pinned.
LEMMA IdleReaders ==
    ASSUME Safe, ~Busy
    PROVE  \A c \in calls : c.phase \in CorePhases /\ ~c.answered =>
              c.file \in retained /\ c.file \in disk
BY DEF Safe, ReadersAccounted, Matches

LEMMA SafeSubmitRefused == ASSUME TypeOK, TypeOK', Safe, SubmitRefused PROVE Safe'
<1>1. /\ UNCHANGED <<active, uncertain, retained, calls, seeds, hook, tokens, snapshots>>
      /\ ops' = ops + 1
  BY DEF SubmitRefused
<1>2. \/ UNCHANGED <<confirmed, disk>>
      \/ ~Busy /\ confirmed' = NoReceipt /\ disk' = disk \ ({confirmed.id} \ retained)
  BY DEF SubmitRefused, MaySubmit, Remove
<1>3. IdsAllocated'
  <2>1. active.op <= ops' /\ hook <= ops' /\ 0 <= snapshots
    <3>1. active.op \in Nat /\ hook \in Nat /\ ops \in Nat /\ snapshots \in Nat
      BY BoundsAssumption DEF TypeOK
    <3> QED
      BY <1>1, <3>1 DEF Safe, IdsAllocated
  <2>2. confirmed'.id <= snapshots
    BY <1>2, <2>1 DEF Safe, IdsAllocated, NoReceipt
  <2> QED
    BY <1>1, <2>1, <2>2 DEF Safe, IdsAllocated, Files
<1>4. UncertainBlocks'
  BY <1>1 DEF Safe, UncertainBlocks, Busy
<1>5. CASE UNCHANGED <<confirmed, disk>>
  BY <1>1, <1>3, <1>4, <1>5 DEF Safe, SnapshotsKept, PendingFilesOwned, Pending, Files,
     OperationConsistent, Busy, ReadersAccounted, Matches
<1>6. CASE ~Busy /\ confirmed' = NoReceipt /\ disk' = disk \ ({confirmed.id} \ retained)
  <2>1. active = NoOperation /\ Files(active) = {0} /\ active.op = 0
    BY <1>6, NoneTypes DEF Safe, OperationConsistent, Files, NoOperation, NoReceipt
  <2>2. SnapshotsKept' /\ OperationConsistent'
    BY <1>1, <1>6, <2>1 DEF SnapshotsKept, OperationConsistent, Files, Busy, NoOperation,
       NoReceipt, ApplyPhases, VerifyPhases
  <2>3. PendingFilesOwned'
    BY <1>1, <1>6, <2>1 DEF Safe, PendingFilesOwned, Pending, Files, NoReceipt
  <2>4. ReadersAccounted'
    BY <1>1, <1>6, IdleReaders DEF ReadersAccounted
  <2> QED
    BY <1>3, <1>4, <2>2, <2>3, <2>4 DEF Safe
<1> QED
  BY <1>2, <1>5, <1>6
LEMMA SafeSubmit ==
    ASSUME NEW s \in 1..MaxScopes, NEW retry \in BOOLEAN, TypeOK, TypeOK', Safe,
           Submit(s, retry)
    PROVE  Safe'
<1> DEFINE o == Submitted(s, retry)
           k == snapshots + 1
           n == [op |-> ops + 1, token |-> tokens + 1, phase |-> "preparing", file |-> k,
                 data |-> k, scope |-> s, answered |-> FALSE, st |-> "sent"]
<1>1. /\ ~Busy /\ ~uncertain
      /\ tokens' = tokens + 1 /\ ops' = ops + 1 /\ snapshots' = k
      /\ disk' = disk \ ((IF confirmed.scope = s THEN {} ELSE {confirmed.id}) \ retained)
      /\ confirmed' = (IF confirmed.scope = s THEN confirmed ELSE NoReceipt)
      /\ UNCHANGED <<uncertain, retained, seeds, hook>>
  BY DEF Submit, MaySubmit, BeginPhase, Remove
<1>2. /\ o.op = ops + 1 /\ o.candidate = NoReceipt /\ o.applyStarted = FALSE
      /\ o.scope = s
      /\ o.previous = (IF confirmed.scope = s THEN confirmed ELSE NoReceipt)
  BY DEF Submitted, NoOperation
<1>3. calls' = calls \cup {n}
  BY <1>2 DEF Submit, BeginPhase
<1>4. /\ active'.op = ops + 1 /\ active'.candidate = NoReceipt
      /\ active'.previous = confirmed' /\ active'.applyStarted = FALSE
      /\ active'.phase = "preparing"
  BY <1>1, <1>2 DEF Submit, BeginPhase, Submitted, NoOperation
<1>5. /\ n.token = tokens + 1 /\ n.phase = "preparing" /\ n.file = k
      /\ n.answered = FALSE /\ n.st = "sent"
  OBVIOUS
<1>6. /\ tokens \in Nat /\ snapshots \in Nat /\ ops \in Nat /\ hook \in Nat /\ k \in Nat
      /\ k # 0 /\ snapshots < k /\ k <= k
      /\ \A c \in calls : c.file \in Nat /\ c.token \in Nat
      /\ \A d \in seeds : d.id \in Nat
      /\ confirmed.id \in Nat
  <2>1. tokens \in Nat /\ snapshots \in Nat /\ ops \in Nat /\ hook \in Nat
    BY BoundsAssumption DEF TypeOK
  <2>2. confirmed.id \in Nat
    BY DEF TypeOK, Receipt
  <2>3. /\ \A c \in calls : c.file \in Nat /\ c.token \in Nat
        /\ \A d \in seeds : d.id \in Nat
    BY DEF TypeOK, Call, Seed
  <2> QED
    BY <2>1, <2>2, <2>3
<1> HIDE DEF n, o, k
<1>7. Files(active)' = {0, confirmed'.id} /\ NoReceipt.id = 0 /\ NoReceipt.scope = 0
  BY <1>4 DEF Files, NoReceipt
<1>8. confirmed' = NoReceipt \/ (confirmed' = confirmed /\ disk' = disk)
  BY <1>1
<1>9. SnapshotsKept'
  BY <1>7, <1>8 DEF SnapshotsKept, Safe
<1>10. UncertainBlocks'
  BY <1>1 DEF UncertainBlocks
<1>11. /\ \A c \in calls : c.file <= snapshots /\ c.token <= tokens
       /\ \A c, d \in calls : c.token = d.token => c = d
       /\ \A d \in seeds : d.id <= snapshots
       /\ confirmed.id <= snapshots /\ confirmed'.id <= snapshots
       /\ hook <= ops
  <2>1. confirmed.id <= snapshots /\ 0 <= snapshots
    BY <1>6 DEF Safe, IdsAllocated
  <2> QED
    BY <1>7, <1>8, <2>1 DEF Safe, IdsAllocated
<1>12. \A f \in disk : f # confirmed.id => f \in disk'
  BY <1>1
<1>13. PendingFilesOwned'
  <2>1. \A c \in calls : Pending(c) =>
          /\ c.file # 0 /\ c.file # confirmed'.id /\ c.file # k
          /\ c.st = "written" => c.file \in disk'
          /\ \A d \in calls : Pending(d) /\ d.file = c.file => d = c
          /\ \A d \in seeds : d.id # c.file
    BY <1>6, <1>7, <1>8, <1>11, <1>12 DEF Safe, PendingFilesOwned
  <2>2. \A d \in seeds :
          /\ d.id # 0 /\ d.id # confirmed'.id /\ d.id # k
          /\ d.st = "written" => d.id \in disk'
          /\ \A t \in seeds : t.id = d.id => t = d
    BY <1>6, <1>7, <1>8, <1>11, <1>12 DEF Safe, PendingFilesOwned
  <2>3. k # confirmed'.id
    BY <1>6, <1>7, <1>8, <1>11
  <2>4. /\ \A c \in calls' : Pending(c) =>
              /\ c.file # 0 /\ c.file # confirmed'.id
              /\ c.st = "written" => c.file \in disk'
              /\ \A d \in calls' : Pending(d) /\ d.file = c.file => d = c
              /\ \A d \in seeds' : d.id # c.file
    BY <1>1, <1>3, <1>5, <1>6, <2>1, <2>2, <2>3
  <2> QED
    BY <1>1, <1>7, <2>2, <2>4 DEF PendingFilesOwned, Pending
<1>14. IdsAllocated'
  <2>1. active'.op <= ops' /\ hook' <= ops' /\ confirmed'.id <= snapshots' /\ 0 <= snapshots'
    BY <1>1, <1>4, <1>6, <1>7, <1>8, <1>11
  <2>2. \A f \in Files(active)' : f <= snapshots'
    BY <1>7, <2>1
  <2>3. \A d \in seeds' : d.id <= snapshots'
    BY <1>1, <1>6, <1>11
  <2>4. \A c \in calls' : c.file <= snapshots' /\ c.token <= tokens'
    BY <1>1, <1>3, <1>5, <1>6, <1>11
  <2>5. \A c, d \in calls' : c.token = d.token => c = d
    BY <1>3, <1>5, <1>6, <1>11
  <2> QED
    BY <2>1, <2>2, <2>3, <2>4, <2>5 DEF IdsAllocated
<1>15. OperationConsistent'
  <2>1. active'.op # 0 /\ hook' # active'.op
    BY <1>1, <1>4, <1>6, <1>11
  <2> QED
    BY <1>4, <1>7, <2>1 DEF OperationConsistent, Busy, ApplyPhases, VerifyPhases
<1>16. ReadersAccounted'
  <2>1. \A c \in calls' : c.phase \in CorePhases /\ ~c.answered =>
           c.file \in retained' /\ c.file \in disk'
    BY <1>1, <1>3, <1>5, IdleReaders DEF CorePhases, ApplyPhases
  <2> QED
    BY <2>1 DEF ReadersAccounted
<1> QED
  BY <1>9, <1>10, <1>13, <1>14, <1>15, <1>16 DEF Safe
-----------------------------------------------------------------------------
(* The file queue and the core *)

\* A call whose state advances, and nothing else of it changes.
LEMMA ServedCall ==
    ASSUME TypeOK, NEW STATE c, c \in calls, NEW STATE st,
           st \in {"sent", "written", "failed", "accepted", "rejected", "verified"}
    PROVE  \E x \in Call :
              /\ Serve(c, st) = (calls \ {c}) \cup {x}
              /\ x.op = c.op /\ x.token = c.token /\ x.phase = c.phase
              /\ x.file = c.file /\ x.answered = c.answered /\ x.st = st
<1>1. c \in Call
  BY DEF TypeOK
<1>2. [c EXCEPT !.st = st] \in Call
  BY <1>1 DEF Call
<1> QED
  BY <1>1, <1>2 DEF Serve, Call

LEMMA ServeStep ==
    ASSUME TypeOK, TypeOK', Safe, NEW STATE c, c \in calls, NEW STATE st,
           st \in {"written", "failed", "accepted", "rejected", "verified"},
           calls' = Serve(c, st),
           UNCHANGED <<active, confirmed, uncertain, retained, seeds, hook, ops,
                       tokens, snapshots>>,
           disk \subseteq disk',
           Pending(c) /\ st = "written" => c.file \in disk'
    PROVE  Safe'
<1>1. PICK x \in Call :
         /\ calls' = (calls \ {c}) \cup {x}
         /\ x.op = c.op /\ x.token = c.token /\ x.phase = c.phase
         /\ x.file = c.file /\ x.answered = c.answered /\ x.st = st
  BY ServedCall
<1>2. SnapshotsKept' /\ UncertainBlocks' /\ OperationConsistent'
  BY DEF Safe, SnapshotsKept, UncertainBlocks, OperationConsistent, Files, Busy
<1>3. PendingFilesOwned'
  <2>1. Pending(x) <=> Pending(c)
    BY <1>1 DEF Pending
  <2>2. \A d \in calls' : Pending(d) =>
          /\ d.file # 0 /\ d.file \notin {confirmed.id} \cup Files(active)
          /\ d.st = "written" => d.file \in disk'
          /\ \A s \in seeds : s.id # d.file
    BY <1>1, <2>1 DEF Safe, PendingFilesOwned
  <2>3. \A d, e \in calls' : Pending(d) /\ Pending(e) /\ e.file = d.file => e = d
    BY <1>1, <2>1 DEF Safe, PendingFilesOwned
  <2>4. \A s \in seeds :
          /\ s.id # 0 /\ s.id \notin {confirmed.id} \cup Files(active)
          /\ s.st = "written" => s.id \in disk'
          /\ \A t \in seeds : t.id = s.id => t = s
    BY DEF Safe, PendingFilesOwned
  <2>5. Files(active)' = Files(active)
    BY DEF Files
  <2> QED
    BY <2>2, <2>3, <2>4, <2>5 DEF PendingFilesOwned, Pending
<1>4. IdsAllocated'
  <2>1. /\ \A d \in calls' : d.file <= snapshots /\ d.token <= tokens
        /\ \A d, e \in calls' : d.token = e.token => d = e
    BY <1>1 DEF Safe, IdsAllocated
  <2> QED
    BY <2>1 DEF Safe, IdsAllocated, Files
<1>5. ReadersAccounted'
  <2>1. \A d \in calls' : d.phase \in CorePhases /\ ~d.answered =>
          /\ d.file \in disk'
          /\ \/ d.file \in retained
             \/ /\ Busy /\ d.op = active.op /\ d.phase = active.phase
                /\ d.token = active.token /\ active.fileMayBeInUse
                /\ d.file \in Files(active) \ {0}
                /\ d.phase \notin ApplyPhases => d.file = active.candidate.id
    BY <1>1 DEF Safe, ReadersAccounted, Matches
  <2>2. Files(active)' = Files(active) /\ (Busy' <=> Busy)
    BY DEF Files, Busy
  <2> QED
    BY <2>1, <2>2 DEF ReadersAccounted, Matches
<1> QED
  BY <1>2, <1>3, <1>4, <1>5 DEF Safe

LEMMA SafeWriteSnapshot ==
    ASSUME NEW c \in calls, NEW ok \in BOOLEAN, TypeOK, TypeOK', Safe, WriteSnapshot(c, ok)
    PROVE  Safe'
BY ServeStep DEF WriteSnapshot

LEMMA SafeServe ==
    ASSUME NEW c \in calls, TypeOK, TypeOK', Safe,
           \/ ServeVerify(c)
           \/ \E st \in {"accepted", "rejected"}, after \in {core, Mixed, c.data} :
                 ServeApply(c, st, after)
    PROVE  Safe'
BY ServeStep DEF ServeVerify, ServeApply, ctl

\* A file nobody holds goes, with the job that wrote it.
LEMMA SafeDiscardLateSnapshot ==
    ASSUME NEW c \in calls, TypeOK, TypeOK', Safe, DiscardLateSnapshot(c)
    PROVE  Safe'
<1> DEFINE cs == Answer(c)
<1>1. /\ Pending(c) /\ calls' = cs /\ disk' = disk \ ({c.file} \ retained)
      /\ UNCHANGED <<active, confirmed, uncertain, retained, seeds, hook, ops,
                     tokens, snapshots>>
  BY DEF DiscardLateSnapshot, MainTurn, Pending, Remove
<1>2. /\ Settles(cs) /\ \A d \in cs : ~d.answered => d \in calls /\ d # c
  BY SettlesAnswer DEF Settles, Safe
<1> HIDE DEF cs
<1>3. /\ c.file \notin {confirmed.id} \cup Files(active)
      /\ \A d \in calls : Pending(d) /\ d.file = c.file => d = c
      /\ \A s \in seeds : s.id # c.file
  BY <1>1 DEF Safe, PendingFilesOwned
<1>4. SnapshotsKept' /\ UncertainBlocks' /\ OperationConsistent'
  BY <1>1, <1>3 DEF Safe, SnapshotsKept, UncertainBlocks, OperationConsistent, Files, Busy
<1>5. PendingFilesOwned'
  <2>1. \A d \in cs : Pending(d) => d \in calls /\ d # c
    BY <1>2 DEF Pending
  <2>2. \A d \in cs : Pending(d) =>
          /\ d.file # 0 /\ d.file \notin {confirmed.id} \cup Files(active)
          /\ d.st = "written" => d.file \in disk'
          /\ \A e \in cs : Pending(e) /\ e.file = d.file => e = d
          /\ \A s \in seeds : s.id # d.file
    BY <1>1, <1>3, <2>1 DEF Safe, PendingFilesOwned
  <2>3. \A s \in seeds :
          /\ s.id # 0 /\ s.id \notin {confirmed.id} \cup Files(active)
          /\ s.st = "written" => s.id \in disk'
          /\ \A t \in seeds : t.id = s.id => t = s
    BY <1>1, <1>3 DEF Safe, PendingFilesOwned
  <2>4. Files(active)' = Files(active)
    BY <1>1 DEF Files
  <2> QED
    BY <1>1, <2>2, <2>3, <2>4 DEF PendingFilesOwned, Pending
<1>6. IdsAllocated'
  BY <1>1, <1>2 DEF Safe, IdsAllocated, Settles, Files
<1>7. ReadersAccounted'
  <2>1. \A d \in cs : d.phase \in CorePhases /\ ~d.answered =>
          /\ d \in calls
          /\ d.file \in disk'
    BY <1>1, <1>2, <1>3 DEF Safe, ReadersAccounted
  <2>2. Files(active)' = Files(active) /\ (Busy' <=> Busy)
    BY <1>1 DEF Files, Busy
  <2> QED
    BY <1>1, <2>1, <2>2 DEF Safe, ReadersAccounted, Matches
<1> QED
  BY <1>4, <1>5, <1>6, <1>7 DEF Safe
-----------------------------------------------------------------------------
(* Seeds: asynchronous adoptions *)

LEMMA SafeWriteSeed ==
    ASSUME NEW s \in seeds, NEW ok \in BOOLEAN, TypeOK, TypeOK', Safe, WriteSeed(s, ok)
    PROVE  Safe'
<1>1. PICK x \in Seed :
         /\ seeds' = (seeds \ {s}) \cup {x}
         /\ x.id = s.id /\ (x.st = "written" => s.id \in disk')
  <2> DEFINE x == [s EXCEPT !.st = IF ok THEN "written" ELSE "failed"]
  <2>1. s \in Seed
    BY DEF TypeOK
  <2>2. x \in Seed /\ x.id = s.id /\ (x.st = "written" => ok)
    BY <2>1 DEF Seed
  <2>3. seeds' = (seeds \ {s}) \cup {x} /\ (ok => s.id \in disk')
    BY DEF WriteSeed
  <2> HIDE DEF x
  <2> QED
    BY <2>2, <2>3
<1>2. /\ disk \subseteq disk'
      /\ UNCHANGED <<active, confirmed, uncertain, retained, calls, hook, ops,
                     tokens, snapshots>>
  BY DEF WriteSeed
<1>3. SnapshotsKept' /\ UncertainBlocks' /\ OperationConsistent'
  BY <1>2 DEF Safe, SnapshotsKept, UncertainBlocks, OperationConsistent, Files, Busy
<1>4. PendingFilesOwned'
  <2>1. \A c \in calls : Pending(c) =>
          /\ c.file # 0 /\ c.file \notin {confirmed.id} \cup Files(active)
          /\ c.st = "written" => c.file \in disk'
          /\ \A d \in calls : Pending(d) /\ d.file = c.file => d = c
          /\ \A t \in seeds' : t.id # c.file
    BY <1>1, <1>2 DEF Safe, PendingFilesOwned
  <2>2. \A t \in seeds' :
          /\ t.id # 0 /\ t.id \notin {confirmed.id} \cup Files(active)
          /\ t.st = "written" => t.id \in disk'
          /\ \A u \in seeds' : u.id = t.id => u = t
    BY <1>1, <1>2 DEF Safe, PendingFilesOwned
  <2>3. Files(active)' = Files(active)
    BY <1>2 DEF Files
  <2> QED
    BY <1>2, <2>1, <2>2, <2>3 DEF PendingFilesOwned, Pending
<1>5. IdsAllocated'
  BY <1>1, <1>2 DEF Safe, IdsAllocated, Files
<1>6. ReadersAccounted'
  BY <1>2 DEF Safe, ReadersAccounted, Matches, Files, Busy
<1> QED
  BY <1>3, <1>4, <1>5, <1>6 DEF Safe

LEMMA SafeBeginSeed == ASSUME TypeOK, TypeOK', Safe, BeginSeed PROVE Safe'
<1> DEFINE k == snapshots + 1
           x == [id |-> k, scope |-> curScope, data |-> core,
                 epoch |-> stateEpoch + 1, st |-> "writing"]
<1>1. /\ seeds' = seeds \cup {x} /\ snapshots' = k
      /\ UNCHANGED <<active, confirmed, uncertain, retained, disk, calls, hook,
                     ops, tokens>>
  BY DEF BeginSeed
<1>2. x.id = k /\ x.st = "writing"
  OBVIOUS
<1>3. snapshots \in Nat /\ k \in Nat /\ k # 0 /\ snapshots < k
  BY BoundsAssumption DEF TypeOK
<1> HIDE DEF x, k
<1>4. /\ confirmed.id \in Nat /\ \A f \in Files(active) : f \in Nat
      /\ \A c \in calls : c.file \in Nat
      /\ \A s \in seeds : s.id \in Nat
  BY DEF TypeOK, Receipt, Files, Operation, Call, Seed
<1>5. /\ confirmed.id <= snapshots /\ \A f \in Files(active) : f <= snapshots
      /\ \A c \in calls : c.file <= snapshots
      /\ \A s \in seeds : s.id <= snapshots
  BY DEF Safe, IdsAllocated
<1>6. /\ confirmed.id < k /\ \A f \in Files(active) : f < k
      /\ \A c \in calls : c.file < k
      /\ \A s \in seeds : s.id < k
  BY <1>3, <1>4, <1>5
<1>7. SnapshotsKept' /\ UncertainBlocks' /\ OperationConsistent'
  BY <1>1 DEF Safe, SnapshotsKept, UncertainBlocks, OperationConsistent, Files, Busy
<1>8. Files(active)' = Files(active)
  BY <1>1 DEF Files
<1>9. PendingFilesOwned'
  <2>1. /\ k # confirmed.id /\ k \notin Files(active)
        /\ \A c \in calls : c.file # k
        /\ \A s \in seeds : s.id # k
    BY <1>3, <1>4, <1>6
  <2>2. \A c \in calls : Pending(c) =>
          /\ c.file # 0 /\ c.file \notin {confirmed.id} \cup Files(active)
          /\ c.st = "written" => c.file \in disk
          /\ \A d \in calls : Pending(d) /\ d.file = c.file => d = c
          /\ \A t \in seeds' : t.id # c.file
    BY <1>1, <1>2, <2>1 DEF Safe, PendingFilesOwned
  <2>3. \A t \in seeds' :
          /\ t.id # 0 /\ t.id \notin {confirmed.id} \cup Files(active)
          /\ t.st = "written" => t.id \in disk
          /\ \A u \in seeds' : u.id = t.id => u = t
    BY <1>1, <1>2, <1>3, <2>1 DEF Safe, PendingFilesOwned
  <2> QED
    BY <1>1, <1>8, <2>2, <2>3 DEF PendingFilesOwned, Pending
<1>10. IdsAllocated'
  <2>1. /\ confirmed.id <= k /\ \A f \in Files(active) : f <= k
        /\ \A c \in calls : c.file <= k
        /\ \A s \in seeds : s.id <= k
        /\ k <= k
    BY <1>3, <1>4, <1>6
  <2>2. \A s \in seeds' : s.id <= snapshots'
    BY <1>1, <1>2, <2>1
  <2> QED
    BY <1>1, <1>8, <2>1, <2>2 DEF Safe, IdsAllocated
<1>11. ReadersAccounted'
  BY <1>1 DEF Safe, ReadersAccounted, Matches, Files, Busy
<1> QED
  BY <1>7, <1>9, <1>10, <1>11 DEF Safe

LEMMA SafeSettleSeed ==
    ASSUME NEW s \in seeds, NEW cur \in BOOLEAN, TypeOK, TypeOK', Safe, SettleSeed(s, cur)
    PROVE  Safe'
<1>1. /\ seeds' = seeds \ {s} /\ hook = 0
      /\ UNCHANGED <<active, retained, calls, hook, ops, tokens, snapshots>>
  BY DEF SettleSeed
<1>2. \/ /\ ~Busy /\ s.st = "written"
         /\ confirmed' = [id |-> s.id, scope |-> s.scope, data |-> s.data]
         /\ uncertain' = FALSE /\ disk' = disk \ ({confirmed.id} \ retained)
      \/ /\ UNCHANGED <<confirmed, uncertain>>
         /\ disk' = disk \ ({s.id} \ retained)
  BY DEF SettleSeed, SeedIsFresh, Remove
<1>3. /\ s.id # 0 /\ s.id \notin {confirmed.id} \cup Files(active)
      /\ s.st = "written" => s.id \in disk
      /\ \A t \in seeds' : t.id # s.id
      /\ \A c \in calls : Pending(c) => c.file # s.id
      /\ s.id <= snapshots
  BY <1>1 DEF Safe, PendingFilesOwned, IdsAllocated
<1>4. Files(active)' = Files(active) /\ (Busy' <=> Busy)
  BY <1>1 DEF Files, Busy
<1>5. CASE /\ ~Busy /\ s.st = "written"
           /\ confirmed' = [id |-> s.id, scope |-> s.scope, data |-> s.data]
           /\ uncertain' = FALSE /\ disk' = disk \ ({confirmed.id} \ retained)
  <2>1. confirmed'.id = s.id
    BY <1>5
  <2>2. Files(active) = {0} /\ active = NoOperation
    BY <1>5 DEF Safe, OperationConsistent, Files, NoOperation, NoReceipt
  <2>3. SnapshotsKept' /\ UncertainBlocks'
    BY <1>3, <1>4, <1>5, <2>1, <2>2 DEF SnapshotsKept, UncertainBlocks
  <2>4. OperationConsistent'
    BY <1>1, <1>4, <1>5, <2>2 DEF OperationConsistent, NoOperation, NoReceipt,
       ApplyPhases, VerifyPhases
  <2>5. PendingFilesOwned'
    <3>1. \A c \in calls : Pending(c) =>
            /\ c.file # 0 /\ c.file \notin {confirmed'.id} \cup Files(active)
            /\ c.st = "written" => c.file \in disk'
            /\ \A d \in calls : Pending(d) /\ d.file = c.file => d = c
            /\ \A t \in seeds' : t.id # c.file
      BY <1>1, <1>3, <1>5, <2>1 DEF Safe, PendingFilesOwned
    <3>2. \A t \in seeds' :
            /\ t.id # 0 /\ t.id \notin {confirmed'.id} \cup Files(active)
            /\ t.st = "written" => t.id \in disk'
            /\ \A u \in seeds' : u.id = t.id => u = t
      BY <1>1, <1>3, <1>5, <2>1 DEF Safe, PendingFilesOwned
    <3> QED
      BY <1>1, <1>4, <3>1, <3>2 DEF PendingFilesOwned, Pending
  <2>6. IdsAllocated'
    BY <1>1, <1>3, <1>4, <2>1 DEF Safe, IdsAllocated
  <2>7. ReadersAccounted'
    BY <1>1, <1>5, IdleReaders DEF ReadersAccounted
  <2> QED
    BY <2>3, <2>4, <2>5, <2>6, <2>7 DEF Safe
<1>6. CASE UNCHANGED <<confirmed, uncertain>> /\ disk' = disk \ ({s.id} \ retained)
  <2>1. SnapshotsKept' /\ UncertainBlocks' /\ OperationConsistent'
    BY <1>1, <1>3, <1>4, <1>6 DEF Safe, SnapshotsKept, UncertainBlocks, OperationConsistent, Busy
  <2>2. PendingFilesOwned'
    <3>1. \A c \in calls : Pending(c) =>
            /\ c.file # 0 /\ c.file \notin {confirmed.id} \cup Files(active)
            /\ c.st = "written" => c.file \in disk'
            /\ \A d \in calls : Pending(d) /\ d.file = c.file => d = c
            /\ \A t \in seeds' : t.id # c.file
      BY <1>1, <1>3, <1>6 DEF Safe, PendingFilesOwned
    <3>2. \A t \in seeds' :
            /\ t.id # 0 /\ t.id \notin {confirmed.id} \cup Files(active)
            /\ t.st = "written" => t.id \in disk'
            /\ \A u \in seeds' : u.id = t.id => u = t
      BY <1>1, <1>3, <1>6 DEF Safe, PendingFilesOwned
    <3> QED
      BY <1>1, <1>4, <1>6, <3>1, <3>2 DEF PendingFilesOwned, Pending
  <2>3. IdsAllocated'
    BY <1>1, <1>4, <1>6 DEF Safe, IdsAllocated
  <2>4. ReadersAccounted'
    <3>1. \A c \in calls : c.phase \in CorePhases /\ ~c.answered => c.file \in disk'
      BY <1>3, <1>6 DEF Safe, ReadersAccounted
    <3> QED
      BY <1>1, <1>4, <3>1 DEF Safe, ReadersAccounted, Matches
  <2> QED
    BY <2>1, <2>2, <2>3, <2>4 DEF Safe
<1> QED
  BY <1>2, <1>5, <1>6

-----------------------------------------------------------------------------
(* The invariant *)

\* A step that touches none of the invariant's variables.
LEMMA SafeUnchanged ==
    ASSUME TypeOK, Safe,
           UNCHANGED <<ctl, calls, seeds, hook, ops, tokens, snapshots>>
    PROVE  Safe'
<1>1. SnapshotsKept' /\ UncertainBlocks' /\ OperationConsistent'
  BY DEF Safe, SnapshotsKept, UncertainBlocks, OperationConsistent, Files, Busy, ctl
<1>2. PendingFilesOwned' /\ IdsAllocated' /\ ReadersAccounted'
  BY DEF Safe, PendingFilesOwned, Pending, IdsAllocated, ReadersAccounted, Matches,
     Files, Busy, ctl
<1> QED
  BY <1>1, <1>2 DEF Safe

LEMMA SafeStep == TypeOK /\ Safe /\ [Next]_vars => Safe'
<1> SUFFICES ASSUME TypeOK, Safe, [Next]_vars PROVE Safe'
  OBVIOUS
<1>0. TypeOK'
  BY TypeStep
<1>1. CASE SubmitRefused
  BY <1>0, <1>1, SafeSubmitRefused
<1>2. ASSUME NEW s \in 1..MaxScopes, NEW retry \in BOOLEAN, Submit(s, retry)
      PROVE Safe'
  BY <1>0, <1>2, SafeSubmit
<1>3. ASSUME NEW c \in calls, NEW ok \in BOOLEAN,
             WriteSnapshot(c, ok) \/ ValidationReply(c, ok) \/ VerifyReply(c, ok)
               \/ RollbackVerifyReply(c, ok) \/ SnapshotWritten(c, ok)
      PROVE Safe'
  BY <1>0, <1>3, SafeWriteSnapshot, SafeValidationReply, SafeVerifyReply,
     SafeRollbackVerifyReply, SafeSnapshotWritten
<1>4. ASSUME NEW s \in seeds, NEW ok \in BOOLEAN, WriteSeed(s, ok) \/ SettleSeed(s, ok)
      PROVE Safe'
  BY <1>0, <1>4, SafeWriteSeed, SafeSettleSeed
<1>5. ASSUME NEW c \in calls,
             DiscardLateSnapshot(c) \/ StaleReply(c) \/ ServeVerify(c)
      PROVE Safe'
  BY <1>0, <1>5, SafeDiscardLateSnapshot, SafeStaleReply, SafeServe
<1>6. ASSUME NEW c \in calls, NEW r \in {"accepted", "rejected", "uncertain"},
             ApplyReply(c, r) \/ RollbackApplyReply(c, r)
      PROVE Safe'
  BY <1>0, <1>6, SafeApplyReply, SafeRollbackApplyReply
<1>7. ASSUME NEW c \in calls, NEW st \in {"accepted", "rejected"},
             NEW after \in {core, Mixed, c.data}, ServeApply(c, st, after)
      PROVE Safe'
  BY <1>0, <1>7, SafeServe
<1>8. CASE HookReturns
  BY <1>0, <1>8, SafeRetryHookReturns DEF HookReturns
<1>9. CASE Timeout
  BY <1>0, <1>9, SafeTimeout
<1>10. CASE AdoptConfirmed
  BY <1>0, <1>10, SafeAdoptConfirmed
<1>11. CASE Invalidate \/ RestartCore
  BY <1>0, <1>11, SafeInvalidateState DEF Invalidate, RestartCore
<1>12. CASE ReplaceCore
  BY <1>12, SafeUnchanged DEF ReplaceCore
<1>13. CASE BeginSeed
  BY <1>0, <1>13, SafeBeginSeed
<1>14. CASE UNCHANGED vars
  BY <1>14, SafeUnchanged DEF vars, ctl
<1> QED
  BY <1>1, <1>2, <1>3, <1>4, <1>5, <1>6, <1>7, <1>8, <1>9, <1>10, <1>11,
     <1>12, <1>13, <1>14, Zenon DEF Next

LEMMA SafeInit == Init => Safe
<1> SUFFICES ASSUME Init PROVE Safe
  OBVIOUS
<1>1. ~Busy /\ Files(active) = {0} /\ confirmed.id = 0 /\ active.op = 0
  BY DEF Init, Busy, Files, NoOperation, NoReceipt
<1>2. SnapshotsKept /\ UncertainBlocks /\ PendingFilesOwned /\ ReadersAccounted
  BY <1>1 DEF Init, SnapshotsKept, UncertainBlocks, PendingFilesOwned, ReadersAccounted
<1>3. IdsAllocated
  BY <1>1 DEF Init, IdsAllocated
<1>4. OperationConsistent
  BY <1>1 DEF Init, OperationConsistent, NoOperation, NoReceipt, ApplyPhases, VerifyPhases
<1> QED
  BY <1>2, <1>3, <1>4 DEF Safe

\* The inductive invariant holds in every reachable state, whatever the bounds:
\* the controller's bookkeeping of files, phases and requests never slips.
THEOREM InvariantCorrect == Spec => []SnapshotInvariant
<1>1. Init => Safe
  BY SafeInit
<1>2. TypeOK /\ Safe /\ [Next]_vars => Safe'
  BY SafeStep
<1>3. TypeOK /\ Safe => SnapshotInvariant
  BY DEF Safe, SnapshotInvariant
<1> QED
  BY <1>1, <1>2, <1>3, TypeCorrect, PTL DEF Spec

\* No ending, adoption, invalidation or late file job ever deletes the
\* confirmed snapshot or one the running transaction still needs.
THEOREM SnapshotsKeptCorrect == Spec => []SnapshotsKept
<1>1. SnapshotInvariant => SnapshotsKept
  BY DEF SnapshotInvariant
<1> QED
  BY <1>1, InvariantCorrect, PTL

\* A validator or core that was handed a path can read it until it answers.
THEOREM ReadersKeptCorrect == Spec => []ReadersKept
<1>1. SnapshotInvariant => ReadersKept
  BY DEF SnapshotInvariant, ReadersAccounted, ReadersKept
<1> QED
  BY <1>1, InvariantCorrect, PTL

\* An uncertain controller runs no transaction.
THEOREM UncertainBlocksCorrect == Spec => []UncertainBlocks
<1>1. SnapshotInvariant => UncertainBlocks
  BY DEF SnapshotInvariant
<1> QED
  BY <1>1, InvariantCorrect, PTL

\* The baseline the retry callback sees is the one that was verified.
THEOREM HookKeepsBaselineCorrect == Spec => []HookKeepsBaseline
<1>1. SnapshotInvariant => HookKeepsBaseline
  BY DEF SnapshotInvariant, OperationConsistent, UncertainBlocks, HookKeepsBaseline
<1> QED
  BY <1>1, InvariantCorrect, PTL

-----------------------------------------------------------------------------
(* Every transaction ends.  An operation has a few phases ahead of it, the  *)
(* callback between its two attempts counted as one: no step adds to them,  *)
(* and the deadline or the callback's return takes at least one away.       *)

PhasesLeft(phase) ==
    CASE phase = "preparing" -> 6
      [] phase \in {"validating", "retryValidating"} -> 5
      [] phase = "applying" -> 4
      [] phase = "verifying" -> 3
      [] phase = "rollbackApplying" -> 2
      [] phase = "rollbackVerifying" -> 1
      [] OTHER -> 0

StepsLeft ==
    IF hook = active.op THEN 7
    ELSE PhasesLeft(active.phase) + (IF active.retryUsed THEN 0 ELSE 7)

Ended(o) == outcome[o] # "none"
Within(o, n) == active.op = o /\ StepsLeft <= n

\* The callback runs on a spent retry budget.
RetrySpent == hook # 0 /\ active.op = hook => active.retryUsed

LEMMA PhasesLeftBound == ASSUME NEW p \in Phases PROVE PhasesLeft(p) \in 0..6
BY DEF PhasesLeft, Phases

\* What a step does for operation k: it ends it, or takes it nearer to its end.
Nearer(k) == active'.op = k /\ StepsLeft' < StepsLeft
Advances(k) == Ended(k)' \/ Nearer(k)

\* An ending gives the operation its outcome.
LEMMA FinishEnds ==
    ASSUME TypeOK, NEW k \in 1..MaxOps, NEW o \in Operation, o.op = k,
           NEW result \in Outcomes \ {"none"},
           NEW conf, NEW unc, NEW retain, NEW remove,
           Finish(o, result, conf, unc, retain, remove)
    PROVE  Ended(k)'
<1>1. outcome' = [outcome EXCEPT ![k] = result] /\ outcome \in [1..MaxOps -> Outcomes]
  BY DEF TypeOK, Finish
<1> QED
  BY <1>1 DEF Ended

LEMMA EndingsEnd ==
    ASSUME TypeOK, NEW k \in 1..MaxOps, NEW o \in Operation, o.op = k,
           \/ MarkUnknown(o) \/ EndForStaleScope(o) \/ Reject(o)
           \/ FinishRetryValidation(o, TRUE) \/ FinishRetryValidation(o, FALSE)
    PROVE  Ended(k)'
<1>1. {"unknown", "cancelled", "rejected", "rolledBack"} \subseteq Outcomes \ {"none"}
  BY DEF Outcomes
<1>2. CASE MarkUnknown(o)
  BY <1>1, <1>2, FinishEnds DEF MarkUnknown
<1>3. CASE EndForStaleScope(o)
  BY <1>1, <1>3, FinishEnds DEF EndForStaleScope
<1>4. CASE Reject(o)
  BY <1>1, <1>4, FinishEnds DEF Reject
<1>5. CASE FinishRetryValidation(o, TRUE) \/ FinishRetryValidation(o, FALSE)
  BY <1>1, <1>5, FinishEnds DEF FinishRetryValidation
<1> QED
  BY <1>2, <1>3, <1>4, <1>5

\* A phase of the same attempt that comes later.
LEMMA LaterPhase ==
    ASSUME TypeOK, NEW k \in 1..MaxOps, active.op = k, hook # k, hook' = hook,
           NEW o \in Operation, o.op = k, o.retryUsed = active.retryUsed,
           NEW phase \in Phases, NEW r, NEW cs, BeginPhase(o, phase, r, cs),
           PhasesLeft(phase) < PhasesLeft(active.phase)
    PROVE  Nearer(k)
<1>1. active'.op = k /\ active'.phase = phase /\ active'.retryUsed = active.retryUsed
  BY DEF BeginPhase, Operation
<1>2. PhasesLeft(phase) \in 0..6 /\ PhasesLeft(active.phase) \in 0..6
  BY PhasesLeftBound DEF TypeOK, Operation
<1> QED
  BY <1>1, <1>2 DEF Nearer, StepsLeft

LEMMA RollbackAdvances ==
    ASSUME TypeOK, NEW k \in 1..MaxOps, active.op = k, hook # k, hook' = hook,
           NEW o \in Operation, o.op = k, o.retryUsed = active.retryUsed,
           active.phase = "verifying", NEW cs, RollbackOrUnknown(o, cs)
    PROVE  Advances(k)
<1>1. CASE BeginPhase(o, "rollbackApplying", o.previous, cs)
  BY <1>1, LaterPhase DEF Phases, PhasesLeft, Advances
<1>2. CASE MarkUnknown(o)
  BY <1>2, EndingsEnd DEF Advances
<1> QED
  BY <1>1, <1>2 DEF RollbackOrUnknown, BeginRollback, Proceed

\* The values the handlers carry on with are the running operation's own.
LEMMA OwnValues ==
    ASSUME TypeOK
    PROVE  /\ active \in Operation /\ Settled \in Operation
           /\ Settled.op = active.op /\ Settled.retryUsed = active.retryUsed
           /\ Settled.phase = active.phase
BY DEF TypeOK, Settled, Operation

LEMMA AdvanceSnapshotWritten ==
    ASSUME TypeOK, NEW k \in 1..MaxOps, active.op = k,
           NEW c \in calls, NEW cur \in BOOLEAN, SnapshotWritten(c, cur)
    PROVE  Advances(k)
<1> DEFINE o == [active EXCEPT !.candidate =
                   IF c.st = "written" THEN SnapshotOf(c) ELSE NoReceipt]
<1>1. c \in Call /\ active \in Operation /\ SnapshotOf(c) \in Receipt
  BY DEF TypeOK, Call, SnapshotOf, Receipt
<1>2. o \in Operation /\ o.op = k /\ o.retryUsed = active.retryUsed
  BY <1>1, NoneTypes DEF Operation
<1>3. hook # k /\ hook' = hook /\ active.phase = "preparing"
  BY DEF SnapshotWritten, MainTurn, Matches
<1>4. \/ BeginPhase(o, "validating", o.candidate, Answer(c))
      \/ EndForStaleScope(o) \/ Reject(o)
  BY DEF SnapshotWritten, Proceed
<1> HIDE DEF o
<1>5. CASE BeginPhase(o, "validating", o.candidate, Answer(c))
  BY <1>2, <1>3, <1>5, LaterPhase DEF Phases, PhasesLeft, Advances
<1>6. CASE EndForStaleScope(o) \/ Reject(o)
  BY <1>2, <1>6, EndingsEnd DEF Advances
<1> QED
  BY <1>4, <1>5, <1>6

LEMMA ReplyTurn ==
    ASSUME NEW k \in 1..MaxOps, active.op = k, NEW c, Received(c)
    PROVE  hook # k /\ hook = 0 /\ active.phase = c.phase
BY DEF Received, MainTurn, Matches

LEMMA AdvanceValidationReply ==
    ASSUME TypeOK, NEW k \in 1..MaxOps, active.op = k,
           NEW c \in calls, NEW ok \in BOOLEAN, StaleReply(c) \/ ValidationReply(c, ok)
    PROVE  Advances(k)
<1>1. hook # k /\ hook' = hook /\ active.phase = c.phase
  BY ReplyTurn DEF StaleReply, ValidationReply
<1>2. CASE StaleReply(c)
  BY <1>2, OwnValues, EndingsEnd DEF StaleReply, Advances
<1>3. CASE ValidationReply(c, ok)
  <2> DEFINE o == [Settled EXCEPT !.applyStarted = TRUE, !.applySettled = FALSE]
  <2>1. o \in Operation /\ o.op = k /\ o.retryUsed = active.retryUsed
    BY OwnValues DEF Operation
  <2>2. active.phase \in {"validating", "retryValidating"}
    BY <1>1, <1>3 DEF ValidationReply
  <2>3. \/ BeginPhase(o, "applying", Settled.candidate, Answer(c))
        \/ FinishRetryValidation(Settled, FALSE) \/ Reject(Settled)
    BY <1>3 DEF ValidationReply, BeginApply, Proceed
  <2>4. PhasesLeft("applying") < PhasesLeft(active.phase)
    BY <2>2 DEF PhasesLeft
  <2> HIDE DEF o
  <2>5. CASE BeginPhase(o, "applying", Settled.candidate, Answer(c))
    BY <1>1, <2>1, <2>4, <2>5, LaterPhase DEF Phases, Advances
  <2>6. CASE FinishRetryValidation(Settled, FALSE) \/ Reject(Settled)
    BY <2>6, OwnValues, EndingsEnd DEF Advances
  <2> QED
    BY <2>3, <2>5, <2>6
<1> QED
  BY <1>2, <1>3

LEMMA AdvanceApplyReply ==
    ASSUME TypeOK, NEW k \in 1..MaxOps, active.op = k,
           NEW c \in calls, NEW r \in {"accepted", "rejected", "uncertain"},
           ApplyReply(c, r) \/ RollbackApplyReply(c, r)
    PROVE  Advances(k)
<1>1. hook # k /\ hook' = hook /\ active.phase = c.phase
  BY ReplyTurn DEF ApplyReply, RollbackApplyReply
<1>2. CASE ApplyReply(c, r)
  <2> DEFINE o == [Settled EXCEPT !.applySettled = TRUE]
             p == [o EXCEPT !.retryRejection =
                    @ \/ (o.retryAfterVerifiedRollback /\ ~o.retryUsed)]
  <2>1. o \in Operation /\ o.op = k /\ o.retryUsed = active.retryUsed
    BY OwnValues DEF Operation
  <2>2. p \in Operation /\ p.op = k /\ p.retryUsed = active.retryUsed
    BY <2>1 DEF Operation
  <2>3. \/ BeginPhase(o, "verifying", o.candidate, Answer(c))
        \/ BeginPhase(p, "rollbackApplying", p.previous, Answer(c))
        \/ Reject(o) \/ MarkUnknown(o)
    BY <1>2 DEF ApplyReply, BeginRollback, Proceed
  <2>4. active.phase = "applying"
    BY <1>1, <1>2 DEF ApplyReply
  <2> HIDE DEF o, p
  <2>5. CASE BeginPhase(o, "verifying", o.candidate, Answer(c))
    BY <1>1, <2>1, <2>4, <2>5, LaterPhase DEF Phases, PhasesLeft, Advances
  <2>6. CASE BeginPhase(p, "rollbackApplying", p.previous, Answer(c))
    BY <1>1, <2>2, <2>4, <2>6, LaterPhase DEF Phases, PhasesLeft, Advances
  <2>7. CASE Reject(o) \/ MarkUnknown(o)
    BY <2>1, <2>7, EndingsEnd DEF Advances
  <2> QED
    BY <2>3, <2>5, <2>6, <2>7
<1>3. CASE RollbackApplyReply(c, r)
  <2>1. \/ BeginPhase(Settled, "rollbackVerifying", active.previous, Answer(c))
        \/ MarkUnknown(Settled)
    BY <1>3 DEF RollbackApplyReply, Proceed
  <2>2. active.phase = "rollbackApplying"
    BY <1>1, <1>3 DEF RollbackApplyReply
  <2>3. CASE BeginPhase(Settled, "rollbackVerifying", active.previous, Answer(c))
    BY <1>1, <2>2, <2>3, OwnValues, LaterPhase DEF Phases, PhasesLeft, Advances
  <2>4. CASE MarkUnknown(Settled)
    BY <2>4, OwnValues, EndingsEnd DEF Advances
  <2> QED
    BY <2>1, <2>3, <2>4
<1> QED
  BY <1>2, <1>3

LEMMA AdvanceVerifyReply ==
    ASSUME TypeOK, NEW k \in 1..MaxOps, active.op = k,
           NEW c \in calls, NEW ok \in BOOLEAN, VerifyReply(c, ok)
    PROVE  Advances(k)
<1>1. hook # k /\ hook' = hook /\ active.phase = "verifying"
  BY ReplyTurn DEF VerifyReply
<1>2. CASE Finish(Settled, "applied", active.candidate, FALSE, {}, {confirmed.id})
  BY <1>2, OwnValues, FinishEnds DEF Outcomes, Advances
<1>3. CASE RollbackOrUnknown(Settled, Answer(c))
  BY <1>1, <1>3, OwnValues, RollbackAdvances
<1> QED
  BY <1>2, <1>3 DEF VerifyReply

\* The callback is called once, on the first attempt's verified rollback.
LEMMA AdvanceRollbackVerifyReply ==
    ASSUME TypeOK, NEW k \in 1..MaxOps, active.op = k,
           NEW c \in calls, NEW ok \in BOOLEAN, RollbackVerifyReply(c, ok)
    PROVE  Advances(k)
<1>1. hook # k /\ active.phase = "rollbackVerifying"
  BY ReplyTurn DEF RollbackVerifyReply
<1>2. CASE RetryDue(active) /\ hook' = active.op /\ active'.op = active.op
  <2>1. StepsLeft = PhasesLeft(active.phase) + 7 /\ StepsLeft' = 7
    BY <1>1, <1>2 DEF RetryDue, StepsLeft
  <2> QED
    BY <1>1, <1>2, <2>1 DEF PhasesLeft, Nearer, Advances
<1>3. CASE Finish(Settled, "rolledBack", active.previous, FALSE, {}, {active.candidate.id})
  BY <1>3, OwnValues, FinishEnds DEF Outcomes, Advances
<1>4. CASE MarkUnknown(Settled)
  BY <1>4, OwnValues, EndingsEnd DEF Advances
<1>5. [Settled EXCEPT !.restoredBaseline = active.previous,
                      !.retryUsed = TRUE, !.retryRejection = FALSE].op = active.op
  BY OwnValues DEF Operation
<1> QED
  BY <1>2, <1>3, <1>4, <1>5 DEF RollbackVerifyReply

\* The callback's own operation goes on to its second attempt, or ends.
LEMMA AdvanceHook ==
    ASSUME TypeOK, RetrySpent, NEW k \in 1..MaxOps, active.op = k, hook = k, HookReturns
    PROVE  Advances(k)
<1>1. PICK cur \in BOOLEAN : RetryHookReturns(cur)
  BY DEF HookReturns
<1>2. \/ BeginPhase(active, "retryValidating", active.candidate, calls)
      \/ EndForStaleScope(active) \/ MarkUnknown(active)
  BY <1>1 DEF RetryHookReturns, Proceed
<1>3. CASE BeginPhase(active, "retryValidating", active.candidate, calls)
  <2>1. hook' = 0 /\ active.retryUsed /\ StepsLeft = 7
    BY <1>1 DEF RetryHookReturns, RetrySpent, StepsLeft
  <2>2. active'.op = k /\ active'.phase = "retryValidating" /\ active'.retryUsed
    BY <1>3, <2>1, OwnValues DEF BeginPhase, Operation
  <2> QED
    BY <2>1, <2>2 DEF StepsLeft, PhasesLeft, Nearer, Advances
<1>4. CASE EndForStaleScope(active) \/ MarkUnknown(active)
  BY <1>4, OwnValues, EndingsEnd DEF Advances
<1> QED
  BY <1>2, <1>3, <1>4

LEMMA AdvanceTimeout ==
    ASSUME TypeOK, NEW k \in 1..MaxOps, active.op = k, Timeout
    PROVE  Advances(k)
<1>1. hook # k /\ hook' = hook
  BY DEF Timeout, MainTurn
<1>2. CASE EndForStaleScope(active) \/ Reject(active) \/ MarkUnknown(active)
           \/ FinishRetryValidation(active, TRUE)
  BY <1>2, OwnValues, EndingsEnd DEF Advances
<1>3. CASE Finish(active, "rejected", confirmed, uncertain, {active.candidate.id}, {})
  BY <1>3, OwnValues, FinishEnds DEF Outcomes, Advances
<1>4. CASE active.phase = "verifying" /\ RollbackOrUnknown(active, calls)
  BY <1>1, <1>4, OwnValues, RollbackAdvances
<1> QED
  BY <1>2, <1>3, <1>4, Zenon DEF Timeout

LEMMA DetachEnds ==
    ASSUME TypeOK, NEW k \in 1..MaxOps, active.op = k, Detach
    PROVE  Advances(k)
BY DEF TypeOK, Detach, Busy, Ended, Advances

\* The steps that let the running operation be.
Elsewhere == active' = active /\ hook' = hook

LEMMA ElsewhereSteps ==
    ASSUME \/ SubmitRefused \/ ReplaceCore \/ BeginSeed
           \/ \E c \in calls, ok \in BOOLEAN : WriteSnapshot(c, ok)
           \/ \E s \in seeds, ok \in BOOLEAN : WriteSeed(s, ok)
           \/ \E c \in calls : DiscardLateSnapshot(c)
           \/ \E s \in seeds, cur \in BOOLEAN : SettleSeed(s, cur)
           \/ \E c \in calls : \E st \in {"accepted", "rejected"}, after \in {core, Mixed, c.data} :
                ServeApply(c, st, after)
           \/ \E c \in calls : ServeVerify(c)
           \/ UNCHANGED vars
    PROVE  Elsewhere
BY DEF Elsewhere, SubmitRefused, ReplaceCore, BeginSeed, WriteSnapshot, WriteSeed,
       DiscardLateSnapshot, SettleSeed, ServeApply, ServeVerify, vars, ctl

\* Every step ends the running operation, takes it nearer to its end, lets it be,
\* or is the return of another operation's callback.
LEMMA StepAdvances ==
    ASSUME TypeOK, RetrySpent, NEW k \in 1..MaxOps, active.op = k, [Next]_vars
    PROVE  Advances(k) \/ Elsewhere \/ (active' = active /\ hook # k /\ hook' = 0)
<1>1. CASE \/ SubmitRefused \/ ReplaceCore \/ BeginSeed
           \/ \E c \in calls, ok \in BOOLEAN : WriteSnapshot(c, ok)
           \/ \E s \in seeds, ok \in BOOLEAN : WriteSeed(s, ok)
           \/ \E c \in calls : DiscardLateSnapshot(c)
           \/ \E s \in seeds, cur \in BOOLEAN : SettleSeed(s, cur)
           \/ \E c \in calls : \E st \in {"accepted", "rejected"}, after \in {core, Mixed, c.data} :
                ServeApply(c, st, after)
           \/ \E c \in calls : ServeVerify(c)
           \/ UNCHANGED vars
  BY <1>1, ElsewhereSteps
<1>2. CASE \E s \in 1..MaxScopes, retry \in BOOLEAN : Submit(s, retry)
  BY <1>2 DEF Submit, MaySubmit, Busy
<1>3. CASE \E c \in calls, cur \in BOOLEAN : SnapshotWritten(c, cur)
  BY <1>3, AdvanceSnapshotWritten
<1>4. CASE \/ \E c \in calls : StaleReply(c)
           \/ \E c \in calls, ok \in BOOLEAN : ValidationReply(c, ok)
  BY <1>4, AdvanceValidationReply
<1>5. CASE \E c \in calls, r \in {"accepted", "rejected", "uncertain"} :
             ApplyReply(c, r) \/ RollbackApplyReply(c, r)
  BY <1>5, AdvanceApplyReply
<1>6. CASE \E c \in calls, ok \in BOOLEAN : VerifyReply(c, ok) \/ RollbackVerifyReply(c, ok)
  BY <1>6, AdvanceVerifyReply, AdvanceRollbackVerifyReply
<1>7. CASE HookReturns
  <2>1. CASE hook = k
    BY <1>7, <2>1, AdvanceHook
  <2>2. CASE hook # k
    BY <1>7, <2>2 DEF HookReturns, RetryHookReturns, ctl
  <2> QED
    BY <2>1, <2>2
<1>8. CASE Timeout
  BY <1>8, AdvanceTimeout
<1>9. CASE AdoptConfirmed \/ Invalidate \/ RestartCore
  BY <1>9, DetachEnds DEF AdoptConfirmed, Invalidate, RestartCore, InvalidateState
<1> QED
  BY <1>1, <1>2, <1>3, <1>4, <1>5, <1>6, <1>7, <1>8, <1>9, Zenon DEF Next

\* A callback runs on the main queue, where nothing else is handled but what the
\* callback does itself: adopt, invalidate, submit.
LEMMA RetrySpentStep ==
    TypeOK /\ IdsAllocated /\ RetrySpent /\ [Next]_vars => RetrySpent'
<1> SUFFICES ASSUME TypeOK, IdsAllocated, RetrySpent, [Next]_vars PROVE RetrySpent'
  OBVIOUS
<1>1. CASE Elsewhere
  BY <1>1 DEF Elsewhere, RetrySpent
<1>2. CASE hook' = 0
  BY <1>2 DEF RetrySpent
<1>3. ASSUME NEW s \in 1..MaxScopes, NEW retry \in BOOLEAN, Submit(s, retry)
      PROVE RetrySpent'
  <2>1. Submitted(s, retry).op = ops + 1
    BY NoneTypes DEF Submitted, Operation
  <2>2. active'.op = ops + 1 /\ hook' = hook /\ hook <= ops
    BY <1>3, <2>1 DEF Submit, BeginPhase, Submitted, NoOperation, IdsAllocated
  <2> QED
    BY <2>2 DEF RetrySpent, TypeOK
<1>4. ASSUME NEW c \in calls, NEW ok \in BOOLEAN, RollbackVerifyReply(c, ok), hook' # 0
      PROVE RetrySpent'
  <2>1. active' = [Settled EXCEPT !.restoredBaseline = active.previous,
                                  !.retryUsed = TRUE, !.retryRejection = FALSE]
    BY <1>4 DEF RollbackVerifyReply, Received, MainTurn
  <2> QED
    BY <2>1, OwnValues DEF RetrySpent, Operation
<1>5. CASE Detach /\ hook' = hook
  BY <1>5 DEF Detach, NoOperation, RetrySpent
<1>6. CASE \/ SubmitRefused \/ ReplaceCore \/ BeginSeed
           \/ \E c \in calls, ok \in BOOLEAN : WriteSnapshot(c, ok)
           \/ \E s \in seeds, ok \in BOOLEAN : WriteSeed(s, ok)
           \/ \E c \in calls : DiscardLateSnapshot(c)
           \/ \E s \in seeds, cur \in BOOLEAN : SettleSeed(s, cur)
           \/ \E c \in calls : \E st \in {"accepted", "rejected"}, after \in {core, Mixed, c.data} :
                ServeApply(c, st, after)
           \/ \E c \in calls : ServeVerify(c)
           \/ UNCHANGED vars
  BY <1>1, <1>6, ElsewhereSteps
<1>7. CASE \/ \E c \in calls, cur \in BOOLEAN : SnapshotWritten(c, cur)
           \/ \E c \in calls : StaleReply(c)
           \/ \E c \in calls, ok \in BOOLEAN : ValidationReply(c, ok) \/ VerifyReply(c, ok)
           \/ \E c \in calls, r \in {"accepted", "rejected", "uncertain"} :
                ApplyReply(c, r) \/ RollbackApplyReply(c, r)
           \/ HookReturns \/ Timeout
  <2>1. hook' = 0
    BY <1>7 DEF SnapshotWritten, StaleReply, ValidationReply, VerifyReply, ApplyReply,
                RollbackApplyReply, Received, MainTurn, HookReturns, RetryHookReturns, Timeout
  <2> QED
    BY <1>2, <2>1
<1>8. CASE AdoptConfirmed \/ Invalidate \/ RestartCore
  BY <1>5, <1>8 DEF AdoptConfirmed, Invalidate, RestartCore, InvalidateState
<1> QED
  BY <1>2, <1>3, <1>4, <1>6, <1>7, <1>8, Zenon DEF Next

LEMMA RetrySpentHolds == Spec => []RetrySpent
<1>1. Init => RetrySpent
  BY DEF Init, RetrySpent
<1>2. SnapshotInvariant => TypeOK /\ IdsAllocated
  BY DEF SnapshotInvariant
<1> QED
  BY <1>1, <1>2, RetrySpentStep, InvariantCorrect, PTL DEF Spec

LEMMA StepsLeftBound == TypeOK => StepsLeft \in 0..13
<1> SUFFICES ASSUME TypeOK PROVE StepsLeft \in 0..13
  OBVIOUS
<1>1. PhasesLeft(active.phase) \in 0..6
  BY PhasesLeftBound DEF TypeOK, Operation
<1> QED
  BY <1>1 DEF StepsLeft

Descent(o, n, m) == Within(o, n) ~> Within(o, m) \/ Ended(o)

\* With n steps left at most, a transaction gets below n or ends: the callback that
\* holds the main queue returns, and then the deadline fires.
LEMMA Descends ==
    ASSUME NEW k \in 1..MaxOps, NEW n \in 0..13, NEW m \in Int, n = m + 1
    PROVE  Spec /\ []DeadlineHelps => Descent(k, n, m)
<1> DEFINE Held == Within(k, n) /\ hook # 0
           Free == Within(k, n) /\ hook = 0
           Goal == Within(k, m) \/ Ended(k)
<1>1. TypeOK /\ TypeOK' /\ RetrySpent /\ Within(k, n) /\ Advances(k) => Goal'
  <2>1. TypeOK' => (StepsLeft \in 0..13)'
    BY StepsLeftBound, PTL
  <2> QED
    BY <2>1, StepsLeftBound DEF Advances, Nearer, Within
<1>2. TypeOK /\ RetrySpent /\ Within(k, n) /\ [Next]_vars
        => \/ Advances(k)
           \/ Within(k, n)' /\ hook' \in {0, hook}
  BY StepAdvances DEF Within, StepsLeft, Elsewhere
<1>3. TypeOK /\ TypeOK' /\ RetrySpent /\ Held /\ [Next]_vars => Held' \/ Free' \/ Goal'
  BY <1>1, <1>2
<1>4. TypeOK /\ TypeOK' /\ RetrySpent /\ Held /\ <<HookReturns>>_vars => Free' \/ Goal'
  <2>1. HookReturns => hook' = 0
    BY DEF HookReturns, RetryHookReturns
  <2>2. HookReturns => Next
    BY DEF Next
  <2> HIDE DEF Goal
  <2> QED
    BY <1>1, <1>2, <2>1, <2>2
<1>5. TypeOK /\ TypeOK' /\ RetrySpent /\ Free /\ [Next]_vars => Free' \/ Goal'
  BY <1>1, <1>2
<1>6. TypeOK /\ TypeOK' /\ RetrySpent /\ Free /\ <<Timeout>>_vars => Goal'
  BY <1>1, AdvanceTimeout DEF Within
<1>7. DeadlineHelps /\ Held => ENABLED <<HookReturns>>_vars
  BY DEF DeadlineHelps
<1>8. DeadlineHelps /\ Free => ENABLED <<Timeout>>_vars
  BY DEF DeadlineHelps, Within, Busy
<1>9. Within(k, n) => Held \/ Free
  OBVIOUS
<1> HIDE DEF Held, Free, Goal
<1>10. Spec => [][Next]_vars /\ []TypeOK /\ []RetrySpent /\ Fairness
  BY TypeCorrect, RetrySpentHolds, PTL DEF Spec
<1>11. Spec /\ []DeadlineHelps => (Held ~> Free \/ Goal)
  BY <1>3, <1>4, <1>7, <1>10, PTL DEF Fairness
<1>12. Spec /\ []DeadlineHelps => (Free ~> Goal)
  BY <1>5, <1>6, <1>8, <1>10, PTL DEF Fairness
<1>13. Spec /\ []DeadlineHelps => (Within(k, n) ~> Goal)
  BY <1>9, <1>11, <1>12, PTL
<1> QED
  BY <1>13 DEF Goal, Descent

\* TransactionEnds: at most fourteen turns of the controller after its submission,
\* whatever the core, the client and the file queue do meanwhile, every transaction
\* has called its completion.  That its deadline or callback can always be handled
\* is DeadlineHelps.
THEOREM TransactionEndsCorrect == Spec /\ []DeadlineHelps => TransactionEnds
<1> SUFFICES ASSUME NEW o \in 1..MaxOps
             PROVE  Spec /\ []DeadlineHelps => (active.op = o ~> outcome[o] # "none")
  BY DEF TransactionEnds
<1> DEFINE S == Spec /\ []DeadlineHelps
           D(n, m) == S => Descent(o, n, m)
<1>1. D(13, 12) /\ D(12, 11) /\ D(11, 10) /\ D(10, 9) /\ D(9, 8) /\ D(8, 7) /\ D(7, 6)
  BY Descends
<1>2. D(6, 5) /\ D(5, 4) /\ D(4, 3) /\ D(3, 2) /\ D(2, 1) /\ D(1, 0) /\ D(0, -1)
  BY Descends
<1>3. TypeOK /\ active.op = o => Within(o, 13)
  BY StepsLeftBound DEF Within
<1>4. TypeOK => ~Within(o, -1)
  BY StepsLeftBound DEF Within
<1> QED
  BY <1>1, <1>2, <1>3, <1>4, TypeCorrect, PTL DEF Descent, Ended
=============================================================================
