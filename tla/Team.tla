-------------------------------- MODULE Team --------------------------------
(***************************************************************************)
(* What the team of one project promises: who may add a member, remove one *)
(* or change roles, each as one atomic step.  Next follows the notes of    *)
(* docs/user-guide-pl.md:166-169; Departs is what the service lets through *)
(* beyond them.  It abstracts the member functions of                      *)
(* modules/projects/services.py; Membership is the detailed specification, *)
(* statement by statement.                                                 *)
(***************************************************************************)
CONSTANTS
    Users,      \* accounts
    Admins      \* accounts with the Administrator role

Owner == "project_owner"

ScrumMaster == "scrum_master"

Managers == {Owner, ScrumMaster}

(* "developer" stands for every role no check asks for. *)
Roles == Managers \cup {"developer"}

RoleSets == (SUBSET Roles) \ {{}}

VARIABLES
    team,       \* member -> the roles of the member
    asking      \* the users with a request that is not answered yet

vars == <<team, asking>>

(* The roles a caller acts with: an administrator who is not a member acts *)
(* as an owner, one who is a member only has the roles of the membership.  *)
Standing(c) ==
    IF c \in DOMAIN team THEN team[c] ELSE IF c \in Admins THEN {Owner} ELSE {}

MayManage(c) == Standing(c) \cap Managers # {}

-----------------------------------------------------------------------------
Init ==
    /\ \E u \in Users : team = [x \in {u} |-> {Owner}]
    /\ asking = {}

Ask(c) ==
    /\ c \notin asking
    /\ asking' = asking \cup {c}
    /\ UNCHANGED team

(* The answer to c, which may be a refusal. *)
Answer(c) ==
    /\ c \in asking
    /\ asking' = asking \ {c}

Refuse(c) ==
    /\ Answer(c)
    /\ UNCHANGED team

(* u becomes a member, which the service allows every Scrum Master.        *)
Joins(c, u, R) ==
    /\ Answer(c)
    /\ MayManage(c)
    /\ u \notin DOMAIN team
    /\ team' = [x \in DOMAIN team \cup {u} |-> IF x = u THEN R ELSE team[x]]

(* Note 1: a Scrum Master does not add a Project Owner. *)
Add(c, u, R) ==
    /\ Joins(c, u, R)
    /\ Owner \in R => Owner \in Standing(c)

Remove(c, u) ==
    /\ Answer(c)
    /\ MayManage(c)
    /\ u \in DOMAIN team
    /\ Owner \notin team[u]
    /\ Owner \in Standing(c) \/ ScrumMaster \notin team[u]
    /\ team' = [x \in DOMAIN team \ {u} |-> team[x]]

(* Only owners touch the owner role, and the last owner keeps it. *)
TakesRoles(c, u, R) ==
    /\ Answer(c)
    /\ MayManage(c)
    /\ u \in DOMAIN team
    /\ Owner \in team[u] \cup R => Owner \in Standing(c)
    /\ Owner \in R \/ Owner \notin team[u] \/ \E x \in DOMAIN team \ {u} : Owner \in team[x]
    /\ team' = [team EXCEPT ![u] = R]

(* The only Scrum Master, not an owner, would cease to be one. *)
LeavesNone(c, u, R) ==
    /\ c = u
    /\ ScrumMaster \notin R /\ Owner \notin Standing(c)
    /\ \A x \in DOMAIN team \ {u} : ScrumMaster \notin team[x]

(* Note 3: the only Scrum Master does not drop the role. *)
Change(c, u, R) == TakesRoles(c, u, R) /\ ~LeavesNone(c, u, R)

Next ==
    \E c \in Users :
        \/ Ask(c) \/ Refuse(c)
        \/ \E u \in Users :
              \/ \E R \in RoleSets : Add(c, u, R) \/ Change(c, u, R)
              \/ Remove(c, u)

(* The service has no condition for note 1, nor for the end of note 3. *)
OwnerByScrumMaster(c, u, R) ==
    /\ Joins(c, u, R)
    /\ Owner \in R /\ Owner \notin Standing(c)

LastScrumMasterLeaves(c, u, R) == TakesRoles(c, u, R) /\ LeavesNone(c, u, R)

Departs ==
    \E c \in Users, u \in Users, R \in RoleSets :
        OwnerByScrumMaster(c, u, R) \/ LastScrumMasterLeaves(c, u, R)

Spec == Init /\ [][Next \/ Departs]_vars

-----------------------------------------------------------------------------
(* "a project must have at least one Owner" (services.py:553). *)
HasOwner == \E u \in DOMAIN team : Owner \in team[u]
=============================================================================
