----------------------------- MODULE MCIaacSync -----------------------------
(* Instances of IaacSync for TLC: two teams and an rbac. *)
EXTENDS IaacSync

CONSTANTS team1, team2, rbac1

MCResources == {team1, team2, rbac1}
MCKinds == {"Team", "Rbac"}
MCKindOf == [r \in MCResources |-> IF r = rbac1 THEN "Rbac" ELSE "Team"]
=============================================================================
