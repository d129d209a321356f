------------------------------- MODULE Family -------------------------------
(* The family groups: two tables say who is in one, the auth groups and the  *)
(* memberships with a role, and every handler writes them one after the      *)
(* other, each statement a transaction of its own (users/services/groups.py).*)
EXTENDS FiniteSets, Functions

CONSTANTS
    Users,
    Groups,
    Default,   \* the group named DEFAULT_FAMILY_GROUP_NAME, one for everybody
    Visits     \* requests that change a family

ASSUME FamilyAssumption == Default \in Groups

VARIABLES
    existing,  \* the groups there are
    joined,    \* the pairs <<user, group>> of the auth groups
    role,      \* the memberships: from pairs to roles
    invited,   \* the groups with an invite link
    visit,     \* what each request is about, and its next statement
    torn       \* pairs on which a worker died or two requests crossed

familyVars == <<existing, joined, role, invited, visit, torn>>

Role == {"owner", "viewer"}
Pairs == Users \X Groups
New == [at |-> "new"]
Over == [at |-> "over"]

FamilyTypeOK ==
    /\ existing \subseteq Groups
    /\ joined \subseteq Users \X existing
    /\ DOMAIN role \subseteq Users \X existing
    /\ \A p \in DOMAIN role : role[p] \in Role
    /\ invited \subseteq existing
    /\ visit \in [Visits -> {New, Over} \cup
            [at : {"add", "read", "role", "create", "save", "leave", "drop"},
             pair : Pairs, gives : Role \cup {"invite", "nothing"}]]
    /\ torn \subseteq Pairs

FamilyInit ==
    /\ existing = {} /\ joined = {} /\ invited = {} /\ torn = {}
    /\ role = [p \in {} |-> "owner"]
    /\ visit = [v \in Visits |-> New]

(* A row put into a table under its key, over the one there is.              *)
Put(table, key, row) ==
    [k \in DOMAIN table \cup {key} |-> IF k = key THEN row ELSE table[k]]

Busy(p) == {v \in Visits : visit[v].at \notin {"new", "over"} /\ visit[v].pair = p}
Owns(u, g) == <<u, g>> \in DOMAIN role /\ role[<<u, g>>] = "owner"
Owned(u) == {g \in existing : Owns(u, g)}
Member(u, g) == <<u, g>> \in DOMAIN role

(* A request enters its handler; one that meets another leaves a mark.       *)
Enter(v, at, p, gives) ==
    /\ visit[v] = New
    /\ visit' = [visit EXCEPT ![v] = [at |-> at, pair |-> p, gives |-> gives]]
    /\ torn' = IF Busy(p) = {} THEN torn ELSE torn \cup {p}
Continue(v, at) == visit' = [visit EXCEPT ![v].at = at]
Finish(v) == visit' = [visit EXCEPT ![v] = Over]

-----------------------------------------------------------------------------
(* get_or_create_default_family_group, on every page of the families.        *)
EnsureDefault(v, u) ==
    /\ Owned(u) = {}
    /\ Enter(v, IF <<u, Default>> \in joined THEN "role" ELSE "add",
             <<u, Default>>, "owner")
    /\ existing' = existing \cup {Default}
    /\ UNCHANGED <<joined, role, invited>>

(* get_family_groups: a link for every group its user owns.                  *)
ShowFamily(u) ==
    /\ Owned(u) # {}
    /\ invited' = invited \cup Owned(u)
    /\ UNCHANGED <<existing, joined, role, visit, torn>>

(* create_group; a name is unique, a key is not used twice.                  *)
CreateGroup(v, u, g) ==
    /\ g \notin existing
    /\ \A w \in Visits : visit[w] \notin {New, Over} => visit[w].pair[2] # g
    /\ existing' = existing \cup {g}
    /\ Enter(v, "add", <<u, g>>, "owner")
    /\ UNCHANGED <<joined, role, invited>>

(* GroupDeleteView offers the groups its user owns, the default one excepted.*)
DeleteGroup(u, g) ==
    /\ Owns(u, g) /\ g # Default
    /\ existing' = existing \ {g}
    /\ joined' = {p \in joined : p[2] # g}
    /\ role' = Restrict(role, {p \in DOMAIN role : p[2] # g})
    /\ invited' = invited \ {g}
    /\ torn' = {p \in torn : p[2] # g}
    /\ UNCHANGED visit

(* AddUserToGroupView, add_user_to_group.                                    *)
AddUser(v, u, w, g) ==
    /\ Owns(u, g) /\ <<w, g>> \notin joined
    /\ Enter(v, "add", <<w, g>>, "viewer")
    /\ UNCHANGED <<existing, joined, role, invited>>

(* DeleteUserFromGroupView, remove_user_from_group.                          *)
RemoveUser(v, u, w, g) ==
    /\ Owns(u, g) /\ <<w, g>> \in joined
    /\ Enter(v, "leave", <<w, g>>, "nothing")
    /\ UNCHANGED <<existing, joined, role, invited>>

(* JoinFamilyGroupView, accept_family_invite; an invite makes a viewer.      *)
AcceptInvite(v, w, g) ==
    /\ g \in invited
    /\ Enter(v, "add", <<w, g>>, "invite")
    /\ UNCHANGED <<existing, joined, role, invited>>

-----------------------------------------------------------------------------
(* The statements.  One that names a deleted group fails, and the handler    *)
(* with it; all that names a group's rows finds none then.                   *)
Alive(v) == visit[v].pair[2] \in existing

(* user.groups.add.                                                          *)
Join(v) ==
    /\ visit[v].at = "add"
    /\ IF Alive(v)
       THEN /\ joined' = joined \cup {visit[v].pair}
            /\ Continue(v, IF visit[v].gives = "invite" THEN "read" ELSE "role")
       ELSE Finish(v) /\ UNCHANGED joined
    /\ UNCHANGED <<existing, role, invited, torn>>

(* update_or_create.                                                         *)
GiveRole(v) ==
    /\ visit[v].at = "role"
    /\ role' = IF Alive(v) THEN Put(role, visit[v].pair, visit[v].gives) ELSE role
    /\ Finish(v)
    /\ UNCHANGED <<existing, joined, invited, torn>>

(* The membership of a guest: made, or brought to the invite's role, unless  *)
(* it is its owner's.  One made or deleted since fails the statement.        *)
ReadMembership(v) ==
    /\ visit[v].at = "read"
    /\ LET p == visit[v].pair IN
       IF p \notin DOMAIN role THEN Continue(v, "create")
       ELSE IF role[p] = "owner" THEN Finish(v)
       ELSE Continue(v, "save")
    /\ UNCHANGED <<existing, joined, role, invited, torn>>

WriteMembership(v) ==
    /\ visit[v].at \in {"create", "save"}
    /\ LET p == visit[v].pair
           found == p \in DOMAIN role
       IN  role' = IF Alive(v) /\ (found <=> visit[v].at = "save")
                   THEN Put(role, p, "viewer") ELSE role
    /\ Finish(v)
    /\ UNCHANGED <<existing, joined, invited, torn>>

(* user.groups.remove, then the membership.                                  *)
Leave(v) ==
    /\ visit[v].at = "leave"
    /\ joined' = joined \ {visit[v].pair}
    /\ Continue(v, "drop")
    /\ UNCHANGED <<existing, role, invited, torn>>

(* A faulty form: the role stays.                                            *)
Drop_NotTheRole(v) ==
    /\ visit[v].at = "drop"
    /\ Finish(v)
    /\ UNCHANGED <<existing, joined, role, invited, torn>>

Drop(v) ==
    /\ visit[v].at = "drop"
    /\ role' = Restrict(role, DOMAIN role \ {visit[v].pair})
    /\ Finish(v)
    /\ UNCHANGED <<existing, joined, invited, torn>>

(* The worker dies between two statements.                                   *)
Die(v) ==
    /\ visit[v].at \notin {"new", "over"}
    /\ Finish(v)
    /\ torn' = torn \cup {visit[v].pair}
    /\ UNCHANGED <<existing, joined, role, invited>>

FamilyNext ==
    \/ \E u \in Users : ShowFamily(u)
    \/ \E u \in Users, g \in Groups : DeleteGroup(u, g)
    \/ \E v \in Visits :
        \/ \E u \in Users : EnsureDefault(v, u)
        \/ \E u \in Users, g \in Groups : CreateGroup(v, u, g)
        \/ \E u, w \in Users, g \in Groups : AddUser(v, u, w, g)
        \/ \E u, w \in Users, g \in Groups : RemoveUser(v, u, w, g)
        \/ \E w \in Users, g \in Groups : AcceptInvite(v, w, g)
        \/ Join(v) \/ GiveRole(v) \/ ReadMembership(v) \/ WriteMembership(v)
        \/ Leave(v) \/ Drop(v) \/ Die(v)

FamilySpec == FamilyInit /\ [][FamilyNext]_familyVars

-----------------------------------------------------------------------------
(* The two tables agree on who is in a group, but where a request is under   *)
(* way, a worker died between two statements or two requests crossed.  The   *)
(* pages of money read the memberships, the forms that add and remove users  *)
(* read the auth groups: a pair in one table only is shown and not managed.  *)
MembershipAgrees ==
    \A p \in Pairs :
        Busy(p) = {} /\ p \notin torn => (p \in joined <=> p \in DOMAIN role)
=============================================================================
