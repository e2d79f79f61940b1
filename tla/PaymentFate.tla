---------------------------- MODULE PaymentFate ----------------------------
(***************************************************************************)
(* What a user who signs a bundle on one device and confirms it later on   *)
(* another is promised: the bundle is paid at most once, a bundle that     *)
(* can no longer be paid never becomes payable again, two bundles are not  *)
(* paid in one step, and one that all have signed and sent is settled,     *)
(* one way or the other.                                                   *)
(***************************************************************************)
EXTENDS FiniteSets

CONSTANT Send

VARIABLE fate     \* of the bundle of each send

Fates == {"draft", "signed", "paid", "void"}

\* Nothing follows paid or void.
MayFollow(before, after) ==
    \/ after = before
    \/ before = "draft"
    \/ before = "signed" /\ after \in {"paid", "void"}

Undecided == fate = [s \in Send |-> "draft"]

Decide ==
    /\ fate' \in [Send -> Fates]
    /\ \A s \in Send : MayFollow(fate[s], fate'[s])
    /\ \A s, u \in Send :
          fate'[s] = "paid" /\ fate'[u] = "paid" /\ fate[s] # "paid" /\ fate[u] # "paid"
             => s = u

\* A signed bundle does not stay undecided for ever.
Settle(s) == fate[s] = "signed" /\ Decide /\ fate'[s] # "signed"

Promise ==
    /\ Undecided
    /\ [][Decide]_fate
    /\ \A s \in Send : WF_fate(Settle(s))

=============================================================================
