------------------------- MODULE MCDashboardSession -------------------------
(* Instances of DashboardSession for TLC. *)
EXTENDS DashboardSession, TLC

CONSTANTS t1, t2, r1, r2, out

\* The first tab makes two requests, the second one, and one of them is a logout.
TwoTabs == [r \in Req |-> IF r = out THEN t2 ELSE t1]
=============================================================================
