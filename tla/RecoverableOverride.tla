------------------------- MODULE RecoverableOverride -------------------------
(***************************************************************************)
(* What a write-ahead journal promises the owner of a setting that a program *)
(* overrides for a while: whatever happens in between, the evidence that    *)
(* brings the owner's value back exists as long as the override does.       *)
(***************************************************************************)
CONSTANTS Values, None

VARIABLES
    owner,       \* the value the owner wants
    overridden,  \* is the program's value in force instead?
    evidence     \* the value on record, or None

vars == <<owner, overridden, evidence>>

Init ==
    /\ owner \in Values
    /\ \/ ~overridden /\ evidence = None
       \/ overridden /\ evidence = owner
    /\ overridden \in BOOLEAN

\* Under an override the recorded value is never replaced by another.
Record ==
    /\ evidence' \in Values
    /\ overridden => evidence' = evidence
    /\ UNCHANGED <<owner, overridden>>

Forget == ~overridden /\ evidence' = None /\ UNCHANGED <<owner, overridden>>

Override == evidence = owner /\ overridden' = TRUE /\ UNCHANGED <<owner, evidence>>

Restore == overridden' = FALSE /\ UNCHANGED <<owner, evidence>>

\* The owner sets the value directly.
OwnerSets == owner' \in Values /\ overridden' = FALSE /\ UNCHANGED evidence

Next == Record \/ Forget \/ Override \/ Restore \/ OwnerSets

Spec == Init /\ [][Next]_vars

\* An override can be undone: what is on record is what the owner wants.
Recoverable == overridden => evidence = owner
=============================================================================
