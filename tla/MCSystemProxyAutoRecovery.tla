---------------------- MODULE MCSystemProxyAutoRecovery ----------------------
(* Instances of SystemProxyAutoRecovery for TLC. *)
EXTENDS SystemProxyAutoRecovery

CONSTANTS s1, s2

\* Not ready, matching, and wrong while protection is wanted or not, for either
\* scope and either controller: as the coordination's comment and the tests have
\* it, both may look at the same state and so share a budget.
AllObservations ==
    [c \in Controllers |-> { o \in Observation : (~o.ready \/ o.matches) => ~o.protect }]

\* A conflict that nothing repairs, in the scope of each controller.
Conflict ==
    [c \in Controllers |->
        { [scope |-> IF c = SystemProxy THEN s1 ELSE s2,
           ready |-> TRUE, protect |-> TRUE, matches |-> FALSE] }]

AnyWorld == {AllObservations, Conflict}

HopelessWorld == {Conflict}
=============================================================================
