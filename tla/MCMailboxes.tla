---------------------------- MODULE MCMailboxes ----------------------------
(* Mailboxes for TLC. *)
EXTENDS Mailboxes, TLC

CONSTANTS l1, l2, m1, m2

Swaps == {f @@ g @@ h : f \in Permutations(Session), g \in Permutations(Mail),
                        h \in Permutations(Line)}
=============================================================================
