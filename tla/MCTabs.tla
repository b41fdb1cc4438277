------------------------------- MODULE MCTabs -------------------------------
(***************************************************************************)
(* Instances of Tabs for TLC.                                              *)
(***************************************************************************)
EXTENDS Tabs, TLC

CONSTANTS t1, t2, u1, u2

MCTab == {t1, t2}
MCUser == {u1, u2}
MCKind == {"ORDER", "LOGIN", "LOGOUT"}

\* Nothing tells the members of these sets apart.
MCSymmetry == Permutations(Tab) \cup Permutations(User)

\* Few events, with sessions that come and go without one
MCFewEvents == emitted[t1] + emitted[t2] <= 2
=============================================================================
