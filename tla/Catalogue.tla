------------------------------ MODULE Catalogue ------------------------------
(***************************************************************************)
(* The engine's catalogue: namespaces, roles, privileges and the roles of  *)
(* users, kept twice, as rows of the schema kwild_engine and as the        *)
(* in-memory accessController and namespaces of the interpreter, by which  *)
(* alone statements are judged (node/engine/interpreter: roles.go,         *)
(* planner.go, sql.go).  A statement is an operator that takes both sides  *)
(* and returns what it makes of them, with ok FALSE when it fails; what it *)
(* leaves behind when it fails is the interpreter's business (Engine).     *)
(*                                                                         *)
(* Of the privileges the model follows one that can be granted per         *)
(* namespace and that a statement needs: CREATE.  The statements that need *)
(* ROLES, USE or DROP are left to the owner.                               *)
(***************************************************************************)
EXTENDS FiniteSets

CONSTANTS Roles,        \* names of roles, but for the owner role
          Default,      \* the role everybody has; built in
          Users,        \* identifiers of callers
          FirstOwner,   \* the user the genesis makes the owner
          Spaces,       \* names of namespaces
          Main,         \* the default namespace
          OwnerRole,    \* the role "owner": one user, every privilege
          Everywhere    \* the nil namespace of a global grant or revoke

ASSUME CatalogueAssumption ==
    /\ Default \in Roles /\ OwnerRole \notin Roles
    /\ FirstOwner \in Users
    /\ Main \in Spaces /\ Everywhere \notin Spaces

Scopes == Spaces \union {Everywhere}
Kinds == {"user", "extension"}

(***************************************************************************)
(* Rows:  spaces, roles, privs (the granted column by role and namespace), *)
(* users (user_roles).  Memory:  spaces (namespaces and knownNamespaces),  *)
(* perms by role (globalPrivileges, namespacePrivileges,                   *)
(* namespaceDenials), users (userRoles).                                   *)
(***************************************************************************)
Perms == [global : BOOLEAN, can : SUBSET Spaces, denied : SUBSET Spaces]

FirstRows == [spaces |-> [ns \in {Main} |-> "user"],
              roles  |-> {Default},
              privs  |-> <<>>,
              users  |-> {<<FirstOwner, OwnerRole>>}]

\* A map with one entry written, and without some of its entries
Put(f, x, v) == [y \in DOMAIN f \union {x} |-> IF y = x THEN v ELSE f[y]]
Without(f, S) == [x \in DOMAIN f \ S |-> f[x]]

\* newAccessController and NewInterpreter: global rows first, then the rows of
\* each namespace on top of them.
Granted(rows, role, ns) == /\ <<role, ns>> \in DOMAIN rows.privs
                           /\ rows.privs[<<role, ns>>]
Denied(rows, role, ns) == /\ <<role, ns>> \in DOMAIN rows.privs
                          /\ ~rows.privs[<<role, ns>>]

LoadPerms(rows, role) ==
    LET global == <<role, Everywhere>> \in DOMAIN rows.privs
    IN  [global |-> global,
         can    |-> {ns \in DOMAIN rows.spaces :
                        \/ Granted(rows, role, ns)
                        \/ global /\ ~Denied(rows, role, ns)},
         denied |-> {ns \in DOMAIN rows.spaces : Denied(rows, role, ns)}]

LoadCatalogue(rows) ==
    [spaces |-> rows.spaces,
     perms  |-> [role \in rows.roles |-> LoadPerms(rows, role)],
     users  |-> [u \in {ur[1] : ur \in rows.users} |->
                    {ur[2] : ur \in {x \in rows.users : x[1] = u}}]]

-----------------------------------------------------------------------------

RolesOf(cat, u) == IF u \in DOMAIN cat.users THEN cat.users[u] ELSE {}
IsOwner(cat, u) == OwnerRole \in RolesOf(cat, u)

HasPrivilege(cat, u, ns) ==
    \/ IsOwner(cat, u)
    \/ ns \in cat.perms[Default].can
    \/ \E role \in RolesOf(cat, u) : ns \in cat.perms[role].can

CanDo(perms, ns) == IF ns = Everywhere THEN perms.global ELSE ns \in perms.can

Refused == [ok |-> FALSE]
Result(ok, cat, rows) ==
    IF ok THEN [ok |-> TRUE, cat |-> cat, rows |-> rows] ELSE Refused

\* CREATE ROLE: newPerm, a role without privileges
CreateRole(cat, rows, caller, role) ==
    Result(/\ IsOwner(cat, caller)
           /\ role # Default
           /\ role \notin DOMAIN cat.perms,
           [cat EXCEPT !.perms =
                Put(@, role, [global |-> FALSE, can |-> {}, denied |-> {}])],
           [rows EXCEPT !.roles = @ \union {role}])

\* Mutant of DeleteRole: the rows of its privileges stay.
DeleteRoleWithoutCascade(cat, rows, caller, role) ==
    Result(/\ IsOwner(cat, caller)
           /\ role # Default
           /\ role \in DOMAIN cat.perms,
           [cat EXCEPT !.perms = Without(@, {role}),
                       !.users = [u \in DOMAIN @ |-> @[u] \ {role}]],
           [rows EXCEPT !.roles = @ \ {role},
                        !.users = {ur \in @ : ur[2] # role}])

\* DROP ROLE: its privileges go by ON DELETE CASCADE.  user_roles refers to the
\* role without a foreign key; the rows left there name an id no role has again,
\* and every query joins them with roles, so the model drops them too.
DeleteRole(cat, rows, caller, role) ==
    Result(/\ IsOwner(cat, caller)
           /\ role # Default
           /\ role \in DOMAIN cat.perms,
           [cat EXCEPT !.perms = Without(@, {role}),
                       !.users = [u \in DOMAIN @ |-> @[u] \ {role}]],
           [rows EXCEPT !.roles = @ \ {role},
                        !.privs = Without(@, {role} \X Scopes),
                        !.users = {ur \in @ : ur[2] # role}])

\* Mutant of Grant: a global grant hands denied namespaces out again.
GrantOverDenials(perms, ns, spaces) ==
    IF ns = Everywhere
    THEN [perms EXCEPT !.global = TRUE, !.can = spaces]
    ELSE [perms EXCEPT !.can = @ \union {ns}, !.denied = @ \ {ns}]

\* perms.grant: a global grant spares the namespaces with a denial, a grant on
\* a namespace lifts its denial.
Grant(perms, ns, spaces) ==
    IF ns = Everywhere
    THEN [perms EXCEPT !.global = TRUE, !.can = @ \union (spaces \ perms.denied)]
    ELSE [perms EXCEPT !.can = @ \union {ns}, !.denied = @ \ {ns}]

GrantPrivileges(cat, rows, caller, role, ns, ifNot) ==
    Result(/\ IsOwner(cat, caller)
           /\ role \in DOMAIN cat.perms
           /\ ns \in DOMAIN cat.spaces \union {Everywhere}
           /\ ifNot \/ ~CanDo(cat.perms[role], ns),
           [cat EXCEPT !.perms[role] = Grant(@, ns, DOMAIN cat.spaces)],
           [rows EXCEPT !.privs = Put(@, <<role, ns>>, TRUE)])

\* perms.revoke: a global revoke forgets every row of the role, denials too;
\* a revoke on a namespace leaves a denial.
Revoke(perms, ns) ==
    IF ns = Everywhere
    THEN [global |-> FALSE, can |-> {}, denied |-> {}]
    ELSE [perms EXCEPT !.can = @ \ {ns}, !.denied = @ \union {ns}]

RevokePrivileges(cat, rows, caller, role, ns, ifGranted) ==
    Result(/\ IsOwner(cat, caller)
           /\ role \in DOMAIN cat.perms
           /\ ns \in DOMAIN cat.spaces \union {Everywhere}
           /\ ifGranted \/ CanDo(cat.perms[role], ns),
           [cat EXCEPT !.perms[role] = Revoke(@, ns)],
           [rows EXCEPT !.privs =
                IF ns = Everywhere THEN Without(@, {role} \X Scopes)
                                   ELSE Put(@, <<role, ns>>, FALSE)])

\* userRoles and user_roles with one assignment more or less.  A user whose
\* last role is taken keeps an empty list in memory.
Assigned(cat, rows, role, u) ==
    [cat  |-> [cat EXCEPT !.users = Put(@, u, RolesOf(cat, u) \union {role})],
     rows |-> [rows EXCEPT !.users = @ \union {<<u, role>>}]]

Unassigned(cat, rows, role, u) ==
    [cat  |-> [cat EXCEPT !.users[u] = @ \ {role}],
     rows |-> [rows EXCEPT !.users = @ \ {<<u, role>>}]]

AssignRole(cat, rows, caller, role, u, ifNot) ==
    LET new == Assigned(cat, rows, role, u)
    IN  Result(/\ IsOwner(cat, caller)
               /\ role # Default
               /\ role \in DOMAIN cat.perms
               /\ ifNot \/ role \notin RolesOf(cat, u),
               new.cat, new.rows)

UnassignRole(cat, rows, caller, role, u, ifGranted) ==
    LET new == Unassigned(cat, rows, role, u)
    IN  Result(/\ IsOwner(cat, caller)
               /\ role # Default
               /\ role \in DOMAIN cat.perms
               /\ u \in DOMAIN cat.users
               /\ ifGranted \/ role \in cat.users[u],
               new.cat, new.rows)

\* TRANSFER OWNERSHIP: the old owner loses the role before the new one gets it
TransferOwnership(cat, rows, caller, to) ==
    LET old == Unassigned(cat, rows, OwnerRole, caller)
        new == Assigned(old.cat, old.rows, OwnerRole, to)
    IN  Result(IsOwner(cat, caller), new.cat, new.rows)

\* registerNamespace: the roles with the global privilege get the new namespace
Registered(perms, ns) ==
    [perms EXCEPT !.can = IF perms.global THEN @ \union {ns} ELSE @ \ {ns}]

RegisterNamespace(cat, ns, kind) ==
    [cat EXCEPT !.spaces = Put(@, ns, kind),
                !.perms  = [role \in DOMAIN @ |-> Registered(@[role], ns)]]

Unregistered(perms, ns) ==
    [perms EXCEPT !.can = @ \ {ns}, !.denied = @ \ {ns}]

UnregisterNamespace(cat, ns) ==
    [cat EXCEPT !.spaces = Without(@, {ns}),
                !.perms  = [role \in DOMAIN @ |-> Unregistered(@[role], ns)]]

CreateNamespaceRow(rows, ns, kind) == [rows EXCEPT !.spaces = Put(@, ns, kind)]

\* dropNamespace: the privileges on it go by ON DELETE CASCADE
DropNamespaceRow(rows, ns) ==
    [rows EXCEPT !.spaces = Without(@, {ns}),
                 !.privs  = Without(@, Roles \X {ns})]

CreateNamespace(cat, rows, caller, ns) ==
    Result(/\ HasPrivilege(cat, caller, Main)
           /\ ns \notin DOMAIN cat.spaces,
           RegisterNamespace(cat, ns, "user"),
           CreateNamespaceRow(rows, ns, "user"))

DropNamespace(cat, rows, caller, ns) ==
    Result(/\ IsOwner(cat, caller)
           /\ ns \in DOMAIN cat.spaces
           /\ ns # Main
           /\ cat.spaces[ns] # "extension",
           UnregisterNamespace(cat, ns),
           DropNamespaceRow(rows, ns))

=============================================================================
