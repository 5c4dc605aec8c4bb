----------------------------- MODULE LoginLifecycle -----------------------------
(***************************************************************************)
(* What the session table promises, without tokens, requests or            *)
(* transactions: every login is open until it is closed, and a login that  *)
(* was closed - logged out, revoked, or swept away by a password change or *)
(* an account deletion - never opens again, whatever refresh requests were *)
(* on their way.                                                           *)
(***************************************************************************)
CONSTANT Logins

VARIABLE status     \* login -> unborn, open or closed

StatusOK == status \in [Logins -> {"unborn", "open", "closed"}]

Init == status = [l \in Logins |-> "unborn"]

Open(l) ==
    /\ status[l] = "unborn"
    /\ status' = [status EXCEPT ![l] = "open"]

Close(closing) ==
    /\ \A l \in closing : status[l] = "open"
    /\ status' = [l \in Logins |-> IF l \in closing THEN "closed" ELSE status[l]]

Next ==
    \/ \E l \in Logins : Open(l)
    \/ \E closing \in SUBSET Logins : Close(closing)

Spec == Init /\ [][Next]_status

================================================================================
