--------------------------- MODULE MCRegistration ---------------------------
(* Registration on small instances: two connections of one phone, or three. *)
EXTENDS Registration, TLC

CONSTANTS s1, s2, s3

OneSession == {s1}
TwoSessions == {s1, s2}
ThreeSessions == {s1, s2, s3}
Swaps == Permutations(Session)

NoReloads == {}
CliReloads == {"cli"}
ModuleReloads == {"module"}
AnyReloads == {"cli", "module"}

(* One connection meets everything; the second comes before any reload, unload *)
(* or call.  A phone that has vanished meets one reload.  Only steps of phones *)
(* and choices of the administrator lead out of here, none that Fairness asks  *)
(* for, so as a constraint it cuts no fair behaviour short.                    *)
Calm ==
    /\ pc[s2] # "none" => pc[s1] # "none" /\ reloads = 0 /\ running /\ ~onCall
    /\ silent # {} => reloads <= 1
=============================================================================
