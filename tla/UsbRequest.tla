----------------------------- MODULE UsbRequest -----------------------------
(***************************************************************************)
(* What a control transfer of nut.cpp promises its caller, without the     *)
(* transfer object, the semaphore and the callback that carry it out: the  *)
(* device acts on the request at most once and only while the caller       *)
(* waits, and "true" means that it has acted.  "false" may mean either:    *)
(* the caller must be ready for a command that was executed although its   *)
(* transfer failed.                                                        *)
(***************************************************************************)
VARIABLES busy,     \* the caller is inside the request
          acted,    \* the device has acted on the request
          ok        \* what the last request returned

vars == <<busy, acted, ok>>

Init == busy = FALSE /\ acted = FALSE /\ ok = FALSE

Begin == /\ ~busy
         /\ busy' = TRUE
         /\ acted' = FALSE
         /\ UNCHANGED ok

Act == /\ busy /\ ~acted
       /\ acted' = TRUE
       /\ UNCHANGED <<busy, ok>>

End == /\ busy
       /\ busy' = FALSE
       /\ ok' \in (IF acted THEN BOOLEAN ELSE {FALSE})
       /\ UNCHANGED acted

Next == Begin \/ Act \/ End

Spec == Init /\ [][Next]_vars
=============================================================================
