------------------------- MODULE MCTunDNSTransaction -------------------------
(* An instance of TunDNSTransaction for TLC. *)
EXTENDS TunDNSTransaction

\* Two networks, with different resolvers and search domains
MCProfiles ==
    {[addr |-> "home", domains |-> "lan"], [addr |-> "office", domains |-> "corp"]}
=============================================================================
