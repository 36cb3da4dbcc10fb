-------------------------- MODULE SystemProxyHistory --------------------------
(***************************************************************************)
(* SystemProxyManager with a history variable: the setting ClashFX took     *)
(* over from.  To leave races aside, nobody else changes the setting while  *)
(* an operation is running.                                                 *)
(***************************************************************************)
EXTENDS SystemProxyManager

VARIABLE before   \* what the last enable replaced, until someone else changes it

HistoryInit == Init /\ before = IF live = ClashFX THEN defaults.saved ELSE live

HistoryNext ==
    /\ Next
    /\ running # 0 /\ writer' = 0 => live' = live
    /\ before' = CASE live' = live -> before
                   [] live' # live /\ live' = ClashFX -> live
                   [] live' # live /\ live = ClashFX /\ writer' # 0 -> before
                   [] OTHER -> Nothing

HistorySpec == HistoryInit /\ [][HistoryNext]_<<vars, before>>

\* "Before taking over, ClashFX now captures each existing network service's
\* ... state.  Turning System Proxy off or quitting restores that exact state":
\* a restore that succeeds brings back what the last enable replaced.
RestoresTakenOver ==
    [][\A c \in Calls :
          calls[c].stage = "verifying" /\ calls'[c].stage = "ok"
              => before \in {live, Nothing}
      ]_<<vars, before>>
=============================================================================
