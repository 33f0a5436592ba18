---------------------------- MODULE EngineProofs ----------------------------
(***************************************************************************)
(* The engine's memory and its rows, proved for every set of users, roles, *)
(* namespaces, holders and validators and every bound.                     *)
(*                                                                         *)
(* LiveMatchesReload and EpochsInTurn are not inductive by themselves:     *)
(* between the writes of a resolution or of the end-block hook to the rows *)
(* and to memory, the two differ, and a rollback needs to know of the      *)
(* committed rows what is known of the running ones.  IInv adds            *)
(*   - of both versions of the rows, that they are well formed and that    *)
(*     their epochs are in turn (RowInv);                                  *)
(*   - of memory, that it is the rows' image but for exactly what the      *)
(*     phase has still to write, as long as nothing is counted as drift    *)
(*     (MemInv, InfoAgrees), with the catalogue related to the rows part   *)
(*     by part (CatAgrees), which is what a statement changes;             *)
(*   - that there are no more epochs than statements (Paced), so that      *)
(*     votes name epochs within the bound.                                 *)
(* The counters of the signers and the mempools (SignInv) and the          *)
(* conservation of tokens, with the lemmas on sums of Sums, are proved on  *)
(* top of it.                                                              *)
(***************************************************************************)
EXTENDS Engine, Sums

Owned == Roles \union {OwnerRole}

\* Rows of the catalogue: privileges name a role and a namespace that exist,
\* members a role that exists.
CatRowsOK(r) ==
    /\ r = [spaces |-> r.spaces, roles |-> r.roles, privs |-> r.privs,
            users |-> r.users]
    /\ r.spaces \in [DOMAIN r.spaces -> Kinds]
    /\ DOMAIN r.spaces \subseteq Spaces
    /\ r.roles \subseteq Roles
    /\ r.privs \in [DOMAIN r.privs -> BOOLEAN]
    /\ DOMAIN r.privs \subseteq r.roles \X (DOMAIN r.spaces \union {Everywhere})
    /\ r.users \subseteq Users \X (r.roles \union {OwnerRole})

CatOK(c) ==
    /\ c = [spaces |-> c.spaces, perms |-> c.perms, users |-> c.users]
    /\ c.spaces \in [DOMAIN c.spaces -> Kinds]
    /\ DOMAIN c.spaces \subseteq Spaces
    /\ c.perms \in [DOMAIN c.perms -> Perms]
    /\ c.users \in [DOMAIN c.users -> SUBSET Owned]

\* The catalogue in memory is the one the rows describe; a user without roles
\* may have an entry or none.
SpacesAgree(c, r) == c.spaces = r.spaces
PermAgrees(p, r, role) ==
    /\ p.global <=> <<role, Everywhere>> \in DOMAIN r.privs
    /\ \A ns \in Spaces : ns \in p.can <=>
           /\ ns \in DOMAIN r.spaces
           /\ \/ Granted(r, role, ns)
              \/ <<role, Everywhere>> \in DOMAIN r.privs /\ ~Denied(r, role, ns)
    /\ \A ns \in Spaces : ns \in p.denied <=>
           ns \in DOMAIN r.spaces /\ Denied(r, role, ns)
PermsAgree(c, r) ==
    /\ DOMAIN c.perms = r.roles
    /\ \A role \in r.roles : PermAgrees(c.perms[role], r, role)
UsersAgree(c, r) ==
    /\ \A x \in r.users : x[1] \in DOMAIN c.users
    /\ \A u \in DOMAIN c.users :
           c.users[u] = {role \in Owned : <<u, role>> \in r.users}

CatAgrees(c, r) ==
    /\ CatOK(c) /\ CatRowsOK(r)
    /\ SpacesAgree(c, r) /\ PermsAgree(c, r) /\ UsersAgree(c, r)

Keeps(res) == res.ok => CatAgrees(res.cat, res.rows)

\* A statement that is refused has nothing to establish.
LEMMA ResultKeeps ==
  ASSUME NEW ok \in BOOLEAN, NEW c, NEW r, ok => CatAgrees(c, r)
  PROVE  Keeps(Result(ok, c, r))
<1>1. CASE ok
  <2>1. /\ Result(ok, c, r).cat = c
        /\ Result(ok, c, r).rows = r
    BY <1>1 DEF Result
  <2> QED BY <1>1, <2>1, Zenon DEF Keeps
<1>2. CASE ~ok
  <2>1. Result(ok, c, r) = [ok |-> FALSE]
    BY <1>2 DEF Result, Refused
  <2> QED BY <1>2, <2>1 DEF Keeps
<1> QED BY <1>1, <1>2

\* CREATE ROLE: a new role has no privileges in memory nor in the rows.
LEMMA CreateRoleKeeps ==
  ASSUME NEW c, NEW r, CatAgrees(c, r), NEW caller \in Users, NEW role \in Roles
  PROVE  Keeps(CreateRole(c, r, caller, role))
<1> DEFINE ok == /\ IsOwner(c, caller) /\ role # Default /\ role \notin DOMAIN c.perms
           empty == [global |-> FALSE, can |-> {}, denied |-> {}]
           c2 == [c EXCEPT !.perms = Put(@, role, empty)]
           r2 == [r EXCEPT !.roles = @ \union {role}]
<1>1. SUFFICES ASSUME ok PROVE CatAgrees(c2, r2)
  BY ResultKeeps DEF CreateRole, IsOwner
<1> USE DEF CatAgrees
<1>2. /\ c2 = [spaces |-> c.spaces, perms |-> c2.perms, users |-> c.users]
      /\ c2.spaces = c.spaces /\ c2.users = c.users
      /\ c2.perms = Put(c.perms, role, empty)
  BY DEF CatOK
<1>3. /\ r2 = [spaces |-> r.spaces, roles |-> r2.roles, privs |-> r.privs, users |-> r.users]
      /\ r2.spaces = r.spaces /\ r2.users = r.users /\ r2.privs = r.privs
      /\ r2.roles = r.roles \union {role}
  BY DEF CatRowsOK
<1>4. /\ DOMAIN c2.perms = DOMAIN c.perms \union {role}
      /\ \A x \in DOMAIN c.perms : c2.perms[x] = c.perms[x]
      /\ c2.perms[role] = empty
      /\ c2.perms \in [DOMAIN c2.perms -> Perms]
  <2>1. empty \in Perms BY DEF Perms
  <2>2. c.perms \in [DOMAIN c.perms -> Perms] BY DEF CatOK
  <2> HIDE DEF empty
  <2> DEFINE g == Put(c.perms, role, empty)
  <2>3. /\ g \in [DOMAIN c.perms \union {role} -> Perms]
        /\ DOMAIN g = DOMAIN c.perms \union {role}
        /\ g[role] = empty
        /\ \A y \in DOMAIN c.perms \ {role} : g[y] = c.perms[y]
    <3> HIDE DEF g
    <3> QED BY <2>1, <2>2 DEF g, Put
  <2>4. c2.perms = g BY <1>2
  <2> QED BY <1>1, <2>3, <2>4
<1> HIDE DEF c2, r2
<1>5. CatOK(c2) BY <1>2, <1>4 DEF CatOK
<1>6. CatRowsOK(r2) BY <1>3 DEF CatRowsOK
<1>7. PermsAgree(c2, r2)
  <2>1. \A ns : <<role, ns>> \notin DOMAIN r2.privs
    BY <1>1, <1>3 DEF CatRowsOK, PermsAgree
  <2>2. PermAgrees(empty, r2, role)
    BY <2>1 DEF PermAgrees, Granted, Denied
  <2>3. \A x \in r.roles : PermAgrees(c.perms[x], r2, x)
    BY <1>3 DEF PermAgrees, PermsAgree, Granted, Denied
  <2> QED BY <2>2, <2>3, <1>3, <1>4 DEF PermsAgree
<1>8. SpacesAgree(c2, r2) /\ UsersAgree(c2, r2)
  BY <1>2, <1>3 DEF SpacesAgree, UsersAgree
<1> QED BY <1>5, <1>6, <1>7, <1>8

\* DROP ROLE: the role's privileges and members go from both.
LEMMA DeleteRoleKeeps ==
  ASSUME NEW c, NEW r, CatAgrees(c, r), NEW caller \in Users, NEW role \in Roles
  PROVE  Keeps(DeleteRole(c, r, caller, role))
<1> DEFINE ok == /\ IsOwner(c, caller) /\ role # Default /\ role \in DOMAIN c.perms
           c2 == [c EXCEPT !.perms = Without(@, {role}),
                           !.users = [u \in DOMAIN @ |-> @[u] \ {role}]]
           r2 == [r EXCEPT !.roles = @ \ {role},
                           !.privs = Without(@, {role} \X Scopes),
                           !.users = {ur \in @ : ur[2] # role}]
<1>1. SUFFICES ASSUME ok PROVE CatAgrees(c2, r2)
  BY ResultKeeps DEF DeleteRole, IsOwner
<1> USE DEF CatAgrees
<1>2. /\ c2 = [spaces |-> c.spaces, perms |-> c2.perms, users |-> c2.users]
      /\ c2.spaces = c.spaces
      /\ c2.perms = [x \in DOMAIN c.perms \ {role} |-> c.perms[x]]
      /\ c2.users = [u \in DOMAIN c.users |-> c.users[u] \ {role}]
  <2> DEFINE us == [u \in DOMAIN c.users |-> c.users[u] \ {role}]
             ps == Without(c.perms, {role})
  <2>1. c2 = [c EXCEPT !.perms = ps, !.users = us] OBVIOUS
  <2> HIDE DEF us, ps, c2
  <2>2. c2 = [spaces |-> c.spaces, perms |-> ps, users |-> us]
    BY <2>1 DEF CatOK
  <2> QED BY <2>2 DEF us, ps, Without
<1>3. /\ r2 = [spaces |-> r.spaces, roles |-> r2.roles, privs |-> r2.privs, users |-> r2.users]
      /\ r2.spaces = r.spaces
      /\ r2.roles = r.roles \ {role}
      /\ r2.privs = [x \in DOMAIN r.privs \ ({role} \X Scopes) |-> r.privs[x]]
      /\ r2.users = {ur \in r.users : ur[2] # role}
  <2> DEFINE us == {ur \in r.users : ur[2] # role}
             ps == Without(r.privs, {role} \X Scopes)
             rs == r.roles \ {role}
  <2>1. r2 = [r EXCEPT !.roles = rs, !.privs = ps, !.users = us] OBVIOUS
  <2> HIDE DEF us, ps, rs, r2
  <2>2. r2 = [spaces |-> r.spaces, roles |-> rs, privs |-> ps, users |-> us]
    BY <2>1 DEF CatRowsOK
  <2> QED BY <2>2 DEF us, ps, rs, Without
<1> HIDE DEF c2, r2
<1>5. CatOK(c2) BY <1>2 DEF CatOK
<1>6. CatRowsOK(r2)
  <2>1. r2.privs \in [DOMAIN r2.privs -> BOOLEAN]
    BY <1>3 DEF CatRowsOK
  <2>2. DOMAIN r2.privs \subseteq r2.roles \X (DOMAIN r2.spaces \union {Everywhere})
    BY <1>3 DEF CatRowsOK, Scopes
  <2>3. r2.users \subseteq Users \X (r2.roles \union {OwnerRole})
    BY <1>3 DEF CatRowsOK
  <2> QED BY <1>3, <2>1, <2>2, <2>3 DEF CatRowsOK
<1>7. PermsAgree(c2, r2)
  <2> SUFFICES ASSUME NEW x \in r2.roles
               PROVE  PermAgrees(c2.perms[x], r2, x)
    BY <1>2, <1>3 DEF PermsAgree
  <2>1. \A ns : /\ <<x, ns>> \in DOMAIN r2.privs <=> <<x, ns>> \in DOMAIN r.privs
                /\ <<x, ns>> \in DOMAIN r.privs => r2.privs[<<x, ns>>] = r.privs[<<x, ns>>]
    BY <1>3
  <2>2. c2.perms[x] = c.perms[x] /\ PermAgrees(c.perms[x], r, x)
    BY <1>2, <1>3 DEF PermsAgree
  <2> QED BY <2>1, <2>2, <1>3 DEF PermAgrees, Granted, Denied
<1>8. UsersAgree(c2, r2)
  <2>1. \A u : <<u, role>> \notin r2.users
    BY <1>3
  <2>2. \A u, x : x # role => (<<u, x>> \in r2.users <=> <<u, x>> \in r.users)
    BY <1>3
  <2>3. ASSUME NEW u \in DOMAIN c2.users
        PROVE  c2.users[u] = {x \in Owned : <<u, x>> \in r2.users}
    <3>1. c2.users[u] = c.users[u] \ {role} /\ u \in DOMAIN c.users
      BY <1>2
    <3>2. c.users[u] = {x \in Owned : <<u, x>> \in r.users}
      BY <3>1 DEF UsersAgree
    <3> QED BY <2>1, <2>2, <3>1, <3>2
  <2>4. \A x \in r2.users : x[1] \in DOMAIN c2.users
    BY <1>2, <1>3 DEF UsersAgree
  <2> QED BY <2>3, <2>4 DEF UsersAgree
<1>9. SpacesAgree(c2, r2)
  BY <1>2, <1>3 DEF SpacesAgree
<1> QED BY <1>5, <1>6, <1>7, <1>8, <1>9

\* The privileges a statement does not name stay as they are.
LEMMA OtherPermsAgree ==
  ASSUME NEW r, NEW r2, NEW role, NEW p, PermAgrees(p, r, role), r2.spaces = r.spaces,
         \A ns : /\ <<role, ns>> \in DOMAIN r2.privs <=> <<role, ns>> \in DOMAIN r.privs
                 /\ <<role, ns>> \in DOMAIN r.privs
                       => r2.privs[<<role, ns>>] = r.privs[<<role, ns>>]
  PROVE  PermAgrees(p, r2, role)
  BY DEF PermAgrees, Granted, Denied

\* What a grant or a revoke has to establish
LEMMA PrivilegesKeep ==
  ASSUME NEW c, NEW r, CatAgrees(c, r), NEW role \in DOMAIN c.perms,
         NEW p \in Perms, NEW privs, privs \in [DOMAIN privs -> BOOLEAN],
         DOMAIN privs \subseteq r.roles \X (DOMAIN r.spaces \union {Everywhere}),
         \A x, ns : x # role =>
             /\ <<x, ns>> \in DOMAIN privs <=> <<x, ns>> \in DOMAIN r.privs
             /\ <<x, ns>> \in DOMAIN r.privs => privs[<<x, ns>>] = r.privs[<<x, ns>>],
         PermAgrees(p, [r EXCEPT !.privs = privs], role)
  PROVE  CatAgrees([c EXCEPT !.perms[role] = p], [r EXCEPT !.privs = privs])
<1> DEFINE c2 == [c EXCEPT !.perms[role] = p]
           r2 == [r EXCEPT !.privs = privs]
<1> USE DEF CatAgrees
<1>2. /\ c2 = [spaces |-> c.spaces, perms |-> c2.perms, users |-> c.users]
      /\ c2.spaces = c.spaces /\ c2.users = c.users
      /\ c2.perms = [c.perms EXCEPT ![role] = p]
  BY DEF CatOK
<1>3. /\ r2 = [spaces |-> r.spaces, roles |-> r.roles, privs |-> privs, users |-> r.users]
      /\ r2.spaces = r.spaces /\ r2.roles = r.roles /\ r2.users = r.users
      /\ r2.privs = privs
  BY DEF CatRowsOK
<1>4. PermAgrees(p, r2, role) OBVIOUS
<1> HIDE DEF c2, r2
<1>5. CatOK(c2) BY <1>2 DEF CatOK
<1>6. CatRowsOK(r2) BY <1>3 DEF CatRowsOK
<1>7. PermsAgree(c2, r2)
  <2> SUFFICES ASSUME NEW x \in r.roles, x # role
               PROVE  PermAgrees(c2.perms[x], r2, x)
    BY <1>2, <1>3, <1>4 DEF PermsAgree, CatOK
  <2>1. c2.perms[x] = c.perms[x] /\ PermAgrees(c.perms[x], r, x)
    BY <1>2 DEF PermsAgree, CatOK
  <2> QED BY <2>1, <1>3, OtherPermsAgree
<1>8. SpacesAgree(c2, r2) /\ UsersAgree(c2, r2)
  BY <1>2, <1>3 DEF SpacesAgree, UsersAgree
<1> QED BY <1>5, <1>6, <1>7, <1>8 DEF c2, r2

\* GRANT, on a namespace or everywhere: a grant everywhere keeps the denials.
LEMMA GrantKeeps ==
  ASSUME NEW c, NEW r, CatAgrees(c, r), NEW caller \in Users, NEW role \in Roles,
         NEW ns \in Scopes, NEW ifNot \in BOOLEAN
  PROVE  Keeps(GrantPrivileges(c, r, caller, role, ns, ifNot))
<1> DEFINE ok == /\ IsOwner(c, caller)
                 /\ role \in DOMAIN c.perms
                 /\ ns \in DOMAIN c.spaces \union {Everywhere}
                 /\ ifNot \/ ~CanDo(c.perms[role], ns)
           old == c.perms[role]
           p == Grant(old, ns, DOMAIN c.spaces)
           privs == Put(r.privs, <<role, ns>>, TRUE)
           r2 == [r EXCEPT !.privs = privs]
<1>1. SUFFICES ASSUME ok PROVE CatAgrees([c EXCEPT !.perms[role] = p], r2)
  BY ResultKeeps DEF GrantPrivileges, IsOwner
<1>2. /\ old \in Perms /\ PermAgrees(old, r, role) /\ role \in r.roles
      /\ DOMAIN c.spaces = DOMAIN r.spaces /\ DOMAIN r.spaces \subseteq Spaces
  BY <1>1 DEF CatAgrees, CatOK, PermsAgree, SpacesAgree
<1>3. p \in Perms
  BY <1>1, <1>2 DEF Grant, Perms
<1>4. /\ privs \in [DOMAIN privs -> BOOLEAN]
      /\ DOMAIN privs = DOMAIN r.privs \union {<<role, ns>>}
      /\ privs[<<role, ns>>] = TRUE
      /\ \A x \in DOMAIN r.privs : x # <<role, ns>> => privs[x] = r.privs[x]
  BY DEF CatAgrees, CatRowsOK, Put
<1> HIDE DEF privs
<1>5. DOMAIN privs \subseteq r.roles \X (DOMAIN r.spaces \union {Everywhere})
  BY <1>1, <1>2, <1>4 DEF CatAgrees, CatRowsOK
<1>6. r2.privs = privs /\ r2.spaces = r.spaces
  BY DEF CatAgrees, CatRowsOK
<1> HIDE DEF r2
<1>7. PermAgrees(p, r2, role)
  <2>1. CASE ns = Everywhere
    <3>1. /\ p.global = TRUE
          /\ p.can = old.can \union (DOMAIN c.spaces \ old.denied)
          /\ p.denied = old.denied
      BY <1>2, <2>1 DEF Grant, Perms
    <3>2. \A x \in Spaces : /\ Granted(r2, role, x) <=> Granted(r, role, x)
                            /\ Denied(r2, role, x) <=> Denied(r, role, x)
      BY <1>4, <1>6, <2>1, CatalogueAssumption DEF Granted, Denied
    <3>3. <<role, Everywhere>> \in DOMAIN r2.privs
      BY <1>4, <1>6, <2>1
    <3> HIDE DEF p, old
    <3> QED BY <1>2, <1>6, <3>1, <3>2, <3>3 DEF PermAgrees
  <2>2. CASE ns # Everywhere
    <3>1. /\ p.global = old.global
          /\ p.can = old.can \union {ns}
          /\ p.denied = old.denied \ {ns}
      BY <1>2, <2>2 DEF Grant, Perms
    <3>2. \A x \in Spaces : x # ns => /\ Granted(r2, role, x) <=> Granted(r, role, x)
                                      /\ Denied(r2, role, x) <=> Denied(r, role, x)
      BY <1>4, <1>6 DEF Granted, Denied
    <3>3. Granted(r2, role, ns) /\ ~Denied(r2, role, ns)
      BY <1>4, <1>6 DEF Granted, Denied
    <3>4. <<role, Everywhere>> \in DOMAIN r2.privs <=> <<role, Everywhere>> \in DOMAIN r.privs
      BY <1>4, <1>6, <2>2
    <3>5. ns \in DOMAIN r.spaces
      BY <1>1, <1>2, <2>2
    <3> HIDE DEF p, old
    <3> QED BY <1>2, <1>6, <3>1, <3>2, <3>3, <3>4, <3>5 DEF PermAgrees
  <2> QED BY <2>1, <2>2
<1>8. \A x, y : x # role =>
             /\ <<x, y>> \in DOMAIN privs <=> <<x, y>> \in DOMAIN r.privs
             /\ <<x, y>> \in DOMAIN r.privs => privs[<<x, y>>] = r.privs[<<x, y>>]
  BY <1>4
<1> HIDE DEF p
<1> QED BY <1>1, <1>3, <1>4, <1>5, <1>7, <1>8, PrivilegesKeep DEF r2

\* REVOKE: on one namespace of a role that may everywhere, it leaves a denial.
LEMMA RevokeKeeps ==
  ASSUME NEW c, NEW r, CatAgrees(c, r), NEW caller \in Users, NEW role \in Roles,
         NEW ns \in Scopes, NEW ifGranted \in BOOLEAN
  PROVE  Keeps(RevokePrivileges(c, r, caller, role, ns, ifGranted))
<1> DEFINE ok == /\ IsOwner(c, caller)
                 /\ role \in DOMAIN c.perms
                 /\ ns \in DOMAIN c.spaces \union {Everywhere}
                 /\ ifGranted \/ CanDo(c.perms[role], ns)
           old == c.perms[role]
           p == Revoke(old, ns)
           privs == IF ns = Everywhere THEN Without(r.privs, {role} \X Scopes)
                                       ELSE Put(r.privs, <<role, ns>>, FALSE)
           r2 == [r EXCEPT !.privs = privs]
<1>0. ok \in BOOLEAN
  BY DEF CanDo, IsOwner, CatAgrees, CatOK, Perms
<1>1. SUFFICES ASSUME ok PROVE CatAgrees([c EXCEPT !.perms[role] = p], r2)
  BY <1>0, ResultKeeps DEF RevokePrivileges, IsOwner
<1>2. /\ old \in Perms /\ PermAgrees(old, r, role) /\ role \in r.roles
      /\ DOMAIN c.spaces = DOMAIN r.spaces /\ DOMAIN r.spaces \subseteq Spaces
  BY <1>1 DEF CatAgrees, CatOK, PermsAgree, SpacesAgree
<1>3. p \in Perms
  BY <1>1, <1>2 DEF Revoke, Perms
<1>6. r2.privs = privs /\ r2.spaces = r.spaces
  BY DEF CatAgrees, CatRowsOK
<1>7. /\ privs \in [DOMAIN privs -> BOOLEAN]
      /\ DOMAIN privs \subseteq r.roles \X (DOMAIN r.spaces \union {Everywhere})
      /\ \A x, y : x # role =>
             /\ <<x, y>> \in DOMAIN privs <=> <<x, y>> \in DOMAIN r.privs
             /\ <<x, y>> \in DOMAIN r.privs => privs[<<x, y>>] = r.privs[<<x, y>>]
      /\ PermAgrees(p, r2, role)
  <2>1. CASE ns = Everywhere
    <3>1. privs = [x \in DOMAIN r.privs \ ({role} \X Scopes) |-> r.privs[x]]
      BY <2>1 DEF Without
    <3> HIDE DEF privs, r2
    <3>2. /\ privs \in [DOMAIN privs -> BOOLEAN]
          /\ DOMAIN privs \subseteq DOMAIN r.privs
          /\ \A y \in Scopes : <<role, y>> \notin DOMAIN privs
          /\ \A x, y : x # role =>
               /\ <<x, y>> \in DOMAIN privs <=> <<x, y>> \in DOMAIN r.privs
               /\ <<x, y>> \in DOMAIN r.privs => privs[<<x, y>>] = r.privs[<<x, y>>]
      BY <3>1 DEF CatAgrees, CatRowsOK
    <3>3. ~p.global /\ p.can = {} /\ p.denied = {}
      BY <2>1 DEF Revoke
    <3>4. DOMAIN privs \subseteq r.roles \X (DOMAIN r.spaces \union {Everywhere})
      BY <3>2 DEF CatAgrees, CatRowsOK
    <3> HIDE DEF p
    <3>5. PermAgrees(p, r2, role)
      BY <3>2, <3>3, <1>6 DEF PermAgrees, Granted, Denied, Scopes
    <3> QED BY <3>2, <3>4, <3>5
  <2>2. CASE ns # Everywhere
    <3>1. privs = Put(r.privs, <<role, ns>>, FALSE)
      BY <2>2
    <3> HIDE DEF privs, r2
    <3>2. /\ privs \in [DOMAIN privs -> BOOLEAN]
          /\ DOMAIN privs = DOMAIN r.privs \union {<<role, ns>>}
          /\ ~privs[<<role, ns>>]
          /\ \A x \in DOMAIN r.privs : x # <<role, ns>> => privs[x] = r.privs[x]
      BY <3>1 DEF CatAgrees, CatRowsOK, Put
    <3>3. ns \in DOMAIN r.spaces
      BY <1>1, <1>2, <2>2
    <3>4. DOMAIN privs \subseteq r.roles \X (DOMAIN r.spaces \union {Everywhere})
      BY <3>2, <3>3, <1>2 DEF CatAgrees, CatRowsOK
    <3>5. /\ p.global = old.global
          /\ p.can = old.can \ {ns}
          /\ p.denied = old.denied \union {ns}
      BY <1>2, <2>2 DEF Revoke, Perms
    <3>6. \A x \in Spaces : x # ns => /\ Granted(r2, role, x) <=> Granted(r, role, x)
                                      /\ Denied(r2, role, x) <=> Denied(r, role, x)
      BY <3>2, <1>6 DEF Granted, Denied
    <3>7. Denied(r2, role, ns) /\ ~Granted(r2, role, ns)
      BY <3>2, <1>6 DEF Granted, Denied
    <3>8. <<role, Everywhere>> \in DOMAIN r2.privs <=> <<role, Everywhere>> \in DOMAIN r.privs
      BY <3>2, <1>6, <2>2
    <3> HIDE DEF p, old
    <3>9. PermAgrees(p, r2, role)
      BY <1>2, <1>6, <3>3, <3>5, <3>6, <3>7, <3>8 DEF PermAgrees
    <3>10. \A x, y : x # role =>
               /\ <<x, y>> \in DOMAIN privs <=> <<x, y>> \in DOMAIN r.privs
               /\ <<x, y>> \in DOMAIN r.privs => privs[<<x, y>>] = r.privs[<<x, y>>]
      BY <3>2
    <3> QED BY <3>2, <3>4, <3>9, <3>10
  <2> QED BY <2>1, <2>2
<1> HIDE DEF p, privs
<1> QED BY <1>1, <1>3, <1>7, PrivilegesKeep

\* A member is added to memory and rows alike.
LEMMA AssignedAgrees ==
  ASSUME NEW c, NEW r, CatAgrees(c, r), NEW u \in Users,
         NEW role \in r.roles \union {OwnerRole}
  PROVE  CatAgrees(Assigned(c, r, role, u).cat, Assigned(c, r, role, u).rows)
<1> DEFINE has == RolesOf(c, u)
           us == Put(c.users, u, has \union {role})
           rs == r.users \union {<<u, role>>}
           c2 == [c EXCEPT !.users = us]
           r2 == [r EXCEPT !.users = rs]
<1>1. SUFFICES CatAgrees(c2, r2)
  BY DEF Assigned
<1> USE DEF CatAgrees
<1>2. role \in Owned
  BY DEF CatRowsOK, Owned
<1>3. has = {x \in Owned : <<u, x>> \in r.users}
  <2>1. CASE u \in DOMAIN c.users
    BY <2>1 DEF RolesOf, UsersAgree
  <2>2. CASE u \notin DOMAIN c.users
    BY <2>2 DEF RolesOf, UsersAgree
  <2> QED BY <2>1, <2>2
<1> HIDE DEF has
<1>4. /\ us \in [DOMAIN us -> SUBSET Owned]
      /\ DOMAIN us = DOMAIN c.users \union {u}
      /\ us[u] = has \union {role}
      /\ \A x \in DOMAIN c.users : x # u => us[x] = c.users[x]
  BY <1>2, <1>3 DEF CatOK, Put
<1> HIDE DEF us
<1>5. /\ c2 = [spaces |-> c.spaces, perms |-> c.perms, users |-> us]
      /\ r2 = [spaces |-> r.spaces, roles |-> r.roles, privs |-> r.privs, users |-> rs]
  <2>1. c2 = [c EXCEPT !.users = us]
    BY DEF CatOK
  <2>2. c2 = [spaces |-> c.spaces, perms |-> c.perms, users |-> us]
    <3> HIDE DEF us, c2
    <3> QED BY <2>1 DEF CatOK
  <2> HIDE DEF rs
  <2>3. r2 = [spaces |-> r.spaces, roles |-> r.roles, privs |-> r.privs, users |-> rs]
    BY DEF CatRowsOK
  <2> QED BY <2>2, <2>3
<1> HIDE DEF c2, r2
<1>6. CatOK(c2) BY <1>4, <1>5 DEF CatOK
<1>7. CatRowsOK(r2) BY <1>5 DEF CatRowsOK
<1>8. PermsAgree(c2, r2)
  <2>1. \A x \in r.roles : PermAgrees(c.perms[x], r2, x)
    BY <1>5 DEF PermsAgree, PermAgrees, Granted, Denied
  <2> QED BY <2>1, <1>5 DEF PermsAgree
<1>9. SpacesAgree(c2, r2) BY <1>5 DEF SpacesAgree
<1>10. UsersAgree(c2, r2)
  <2>1. \A x \in rs : x[1] \in DOMAIN us
    BY <1>4 DEF UsersAgree
  <2>2. ASSUME NEW v \in DOMAIN us
        PROVE  us[v] = {x \in Owned : <<v, x>> \in rs}
    <3>1. CASE v = u
      BY <3>1, <1>2, <1>3, <1>4
    <3>2. CASE v # u
      <4>1. us[v] = {x \in Owned : <<v, x>> \in r.users}
        BY <3>2, <1>4 DEF UsersAgree
      <4> QED BY <3>2, <4>1
    <3> QED BY <3>1, <3>2
  <2> QED BY <2>1, <2>2, <1>5 DEF UsersAgree
<1> QED BY <1>6, <1>7, <1>8, <1>9, <1>10

\* A member is taken from memory and rows alike.
LEMMA UnassignedAgrees ==
  ASSUME NEW c, NEW r, CatAgrees(c, r), NEW u \in DOMAIN c.users, NEW role
  PROVE  CatAgrees(Unassigned(c, r, role, u).cat, Unassigned(c, r, role, u).rows)
<1> DEFINE us == [c.users EXCEPT ![u] = @ \ {role}]
           rs == r.users \ {<<u, role>>}
           c2 == [c EXCEPT !.users[u] = @ \ {role}]
           r2 == [r EXCEPT !.users = rs]
<1>1. SUFFICES CatAgrees(c2, r2)
  BY DEF Unassigned
<1> USE DEF CatAgrees
<1>4. /\ us \in [DOMAIN us -> SUBSET Owned]
      /\ DOMAIN us = DOMAIN c.users
      /\ us[u] = c.users[u] \ {role}
      /\ \A x \in DOMAIN c.users : x # u => us[x] = c.users[x]
  BY DEF CatOK
<1>5. /\ c2 = [spaces |-> c.spaces, perms |-> c.perms, users |-> us]
      /\ r2 = [spaces |-> r.spaces, roles |-> r.roles, privs |-> r.privs, users |-> rs]
  <2>1. c2 = [c EXCEPT !.users = us]
    BY DEF CatOK
  <2>2. c2 = [spaces |-> c.spaces, perms |-> c.perms, users |-> us]
    <3> HIDE DEF us, c2
    <3> QED BY <2>1 DEF CatOK
  <2> HIDE DEF rs
  <2>3. r2 = [spaces |-> r.spaces, roles |-> r.roles, privs |-> r.privs, users |-> rs]
    BY DEF CatRowsOK
  <2> QED BY <2>2, <2>3
<1> HIDE DEF us, c2, r2
<1>6. CatOK(c2) BY <1>4, <1>5 DEF CatOK
<1>7. CatRowsOK(r2) BY <1>5 DEF CatRowsOK
<1>8. PermsAgree(c2, r2)
  <2>1. \A x \in r.roles : PermAgrees(c.perms[x], r2, x)
    BY <1>5 DEF PermsAgree, PermAgrees, Granted, Denied
  <2> QED BY <2>1, <1>5 DEF PermsAgree
<1>9. SpacesAgree(c2, r2) BY <1>5 DEF SpacesAgree
<1>10. UsersAgree(c2, r2)
  <2>1. \A x \in rs : x[1] \in DOMAIN us
    BY <1>4 DEF UsersAgree
  <2>2. ASSUME NEW v \in DOMAIN us
        PROVE  us[v] = {x \in Owned : <<v, x>> \in rs}
    <3>0. c.users[v] = {x \in Owned : <<v, x>> \in r.users}
      BY <1>4 DEF UsersAgree
    <3>1. CASE v = u
      BY <3>0, <3>1, <1>4
    <3>2. CASE v # u
      BY <3>0, <3>2, <1>4
    <3> QED BY <3>1, <3>2
  <2> QED BY <2>1, <2>2, <1>5 DEF UsersAgree
<1> QED BY <1>6, <1>7, <1>8, <1>9, <1>10

\* GRANT and REVOKE of a role
LEMMA AssignKeeps ==
  ASSUME NEW c, NEW r, CatAgrees(c, r), NEW caller \in Users, NEW role \in Roles,
         NEW u \in Users, NEW if \in BOOLEAN
  PROVE  /\ Keeps(AssignRole(c, r, caller, role, u, if))
         /\ Keeps(UnassignRole(c, r, caller, role, u, if))
<1>1. Keeps(AssignRole(c, r, caller, role, u, if))
  <2> DEFINE ok == /\ IsOwner(c, caller) /\ role # Default /\ role \in DOMAIN c.perms
                   /\ if \/ role \notin RolesOf(c, u)
             new == Assigned(c, r, role, u)
  <2>1. ASSUME ok PROVE CatAgrees(new.cat, new.rows)
    <3>1. role \in r.roles
      BY <2>1 DEF CatAgrees, PermsAgree
    <3> QED BY <3>1, AssignedAgrees
  <2> HIDE DEF new
  <2>2. Keeps(Result(ok, new.cat, new.rows))
    BY <2>1, ResultKeeps DEF IsOwner
  <2> QED BY <2>2 DEF AssignRole, new
<1>2. Keeps(UnassignRole(c, r, caller, role, u, if))
  <2> DEFINE ok == /\ IsOwner(c, caller) /\ role # Default /\ role \in DOMAIN c.perms
                   /\ u \in DOMAIN c.users
                   /\ if \/ role \in c.users[u]
             new == Unassigned(c, r, role, u)
  <2>1. ASSUME ok PROVE CatAgrees(new.cat, new.rows)
    BY <2>1, UnassignedAgrees
  <2> HIDE DEF new
  <2>2. Keeps(Result(ok, new.cat, new.rows))
    BY <2>1, ResultKeeps DEF IsOwner
  <2> QED BY <2>2 DEF UnassignRole, new
<1> QED BY <1>1, <1>2

\* TRANSFER OWNERSHIP: the role of the owner changes hands.
LEMMA TransferKeeps ==
  ASSUME NEW c, NEW r, CatAgrees(c, r), NEW caller \in Users, NEW to \in Users
  PROVE  Keeps(TransferOwnership(c, r, caller, to))
<1> DEFINE old == Unassigned(c, r, OwnerRole, caller)
           new == Assigned(old.cat, old.rows, OwnerRole, to)
<1>1. ASSUME IsOwner(c, caller) PROVE CatAgrees(new.cat, new.rows)
  <2>1. caller \in DOMAIN c.users
    BY <1>1 DEF IsOwner, RolesOf
  <2>2. CatAgrees(old.cat, old.rows)
    BY <2>1, UnassignedAgrees
  <2> HIDE DEF old
  <2> QED BY <2>2, AssignedAgrees
<1> HIDE DEF new
<1>2. Keeps(Result(IsOwner(c, caller), new.cat, new.rows))
  <2>1. IsOwner(c, caller) \in BOOLEAN BY DEF IsOwner
  <2> QED BY <1>1, <2>1, ResultKeeps
<1> QED BY <1>2 DEF TransferOwnership, new

\* A new namespace is within reach of the roles that may everywhere.
LEMMA RegisterAgrees ==
  ASSUME NEW c, NEW r, CatAgrees(c, r), NEW ns \in Spaces, NEW kind \in Kinds,
         ns \notin DOMAIN c.spaces
  PROVE  CatAgrees(RegisterNamespace(c, ns, kind), CreateNamespaceRow(r, ns, kind))
<1> DEFINE sp == Put(c.spaces, ns, kind)
           ps == [role \in DOMAIN c.perms |->
                    Registered(c.perms[role], ns)]
           c2 == RegisterNamespace(c, ns, kind)
           r2 == CreateNamespaceRow(r, ns, kind)
<1> USE DEF CatAgrees
<1>1. c2 = [c EXCEPT !.spaces = sp, !.perms = ps]
  BY DEF RegisterNamespace
<1>2. r2 = [r EXCEPT !.spaces = sp]
  BY DEF CreateNamespaceRow, SpacesAgree
<1>3. /\ sp \in [DOMAIN sp -> Kinds]
      /\ DOMAIN sp = DOMAIN c.spaces \union {ns}
  BY DEF CatOK, Put
<1>4. ASSUME NEW role \in DOMAIN c.perms
      PROVE  /\ ps[role] \in Perms
             /\ ps[role].global = c.perms[role].global
             /\ ps[role].denied = c.perms[role].denied
             /\ ps[role].can = IF c.perms[role].global THEN c.perms[role].can \union {ns}
                                                       ELSE c.perms[role].can \ {ns}
  <2>1. c.perms[role] \in Perms BY DEF CatOK
  <2> QED BY <2>1 DEF Perms, Registered
<1>5. ps \in [DOMAIN c.perms -> Perms]
  BY <1>4
<1> HIDE DEF sp, ps, c2, r2
<1>6. c2 = [spaces |-> sp, perms |-> ps, users |-> c.users]
  BY <1>1 DEF CatOK
<1>7. r2 = [spaces |-> sp, roles |-> r.roles, privs |-> r.privs, users |-> r.users]
  BY <1>2 DEF CatRowsOK
<1>8. CatOK(c2)
  BY <1>3, <1>5, <1>6 DEF CatOK
<1>9. CatRowsOK(r2)
  <2>1. DOMAIN r.privs \subseteq r.roles \X (DOMAIN sp \union {Everywhere})
    BY <1>3 DEF CatRowsOK, SpacesAgree
  <2> QED BY <1>3, <1>7, <2>1 DEF CatRowsOK, CatOK, SpacesAgree
<1>10. PermsAgree(c2, r2)
  <2> SUFFICES ASSUME NEW role \in r.roles
               PROVE  PermAgrees(ps[role], r2, role)
    BY <1>5, <1>6, <1>7 DEF PermsAgree
  <2>1. role \in DOMAIN c.perms /\ PermAgrees(c.perms[role], r, role)
    BY DEF PermsAgree
  <2>2. <<role, ns>> \notin DOMAIN r.privs
    BY CatalogueAssumption DEF CatRowsOK, SpacesAgree
  <2>3. ~Granted(r2, role, ns) /\ ~Denied(r2, role, ns)
    BY <2>2, <1>7 DEF Granted, Denied
  <2>4. \A x : /\ Granted(r2, role, x) <=> Granted(r, role, x)
               /\ Denied(r2, role, x) <=> Denied(r, role, x)
    BY <1>7 DEF Granted, Denied
  <2>5. DOMAIN r2.spaces = DOMAIN r.spaces \union {ns} /\ r2.privs = r.privs
    BY <1>3, <1>7 DEF SpacesAgree
  <2> DEFINE old == c.perms[role]
             p == ps[role]
  <2>6. /\ p.global = old.global /\ p.denied = old.denied
        /\ p.can = IF old.global THEN old.can \union {ns} ELSE old.can \ {ns}
    BY <2>1, <1>4
  <2>7. PermAgrees(old, r, role) BY <2>1
  <2> HIDE DEF old, p
  <2>8. PermAgrees(p, r2, role)
    BY <2>3, <2>4, <2>5, <2>6, <2>7 DEF PermAgrees
  <2> QED BY <2>8 DEF p
<1>11. SpacesAgree(c2, r2) /\ UsersAgree(c2, r2)
  BY <1>6, <1>7 DEF SpacesAgree, UsersAgree
<1> QED BY <1>8, <1>9, <1>10, <1>11 DEF c2, r2

\* A dropped namespace takes its grants and its denials along.
LEMMA UnregisterAgrees ==
  ASSUME NEW c, NEW r, CatAgrees(c, r), NEW ns \in DOMAIN c.spaces
  PROVE  CatAgrees(UnregisterNamespace(c, ns), DropNamespaceRow(r, ns))
<1> DEFINE sp == Without(c.spaces, {ns})
           ps == [role \in DOMAIN c.perms |->
                    Unregistered(c.perms[role], ns)]
           pr == Without(r.privs, Roles \X {ns})
           c2 == UnregisterNamespace(c, ns)
           r2 == DropNamespaceRow(r, ns)
<1> USE DEF CatAgrees
<1>1. c2 = [c EXCEPT !.spaces = sp, !.perms = ps]
  BY DEF UnregisterNamespace
<1>2. r2 = [r EXCEPT !.spaces = sp, !.privs = pr]
  BY DEF DropNamespaceRow, SpacesAgree
<1>3. /\ sp \in [DOMAIN sp -> Kinds]
      /\ DOMAIN sp = DOMAIN c.spaces \ {ns}
  BY DEF CatOK, Without
<1>4. ASSUME NEW role \in DOMAIN c.perms
      PROVE  /\ ps[role] \in Perms
             /\ ps[role].global = c.perms[role].global
             /\ ps[role].denied = c.perms[role].denied \ {ns}
             /\ ps[role].can = c.perms[role].can \ {ns}
  <2>1. c.perms[role] \in Perms BY DEF CatOK
  <2> QED BY <2>1 DEF Perms, Unregistered
<1>5. ps \in [DOMAIN c.perms -> Perms]
  BY <1>4
<1>6. pr = [x \in DOMAIN r.privs \ (Roles \X {ns}) |-> r.privs[x]]
  BY DEF Without
<1> HIDE DEF sp, ps, pr, c2, r2
<1>7. c2 = [spaces |-> sp, perms |-> ps, users |-> c.users]
  BY <1>1 DEF CatOK
<1>8. r2 = [spaces |-> sp, roles |-> r.roles, privs |-> pr, users |-> r.users]
  BY <1>2 DEF CatRowsOK
<1>9. CatOK(c2)
  BY <1>3, <1>5, <1>7 DEF CatOK
<1>10. CatRowsOK(r2)
  <2>1. DOMAIN pr \subseteq r.roles \X (DOMAIN sp \union {Everywhere})
    BY <1>3, <1>6 DEF CatRowsOK, SpacesAgree
  <2>2. pr \in [DOMAIN pr -> BOOLEAN]
    BY <1>6 DEF CatRowsOK
  <2> QED BY <1>3, <1>8, <2>1, <2>2 DEF CatRowsOK, CatOK, SpacesAgree
<1>11. PermsAgree(c2, r2)
  <2> SUFFICES ASSUME NEW role \in r.roles
               PROVE  PermAgrees(ps[role], r2, role)
    BY <1>5, <1>7, <1>8 DEF PermsAgree
  <2>1. role \in DOMAIN c.perms /\ PermAgrees(c.perms[role], r, role)
    BY DEF PermsAgree
  <2>2. \A x : x # ns => /\ <<role, x>> \in DOMAIN pr <=> <<role, x>> \in DOMAIN r.privs
                         /\ <<role, x>> \in DOMAIN r.privs
                               => pr[<<role, x>>] = r.privs[<<role, x>>]
    BY <1>6
  <2>3. \A x : x # ns => /\ Granted(r2, role, x) <=> Granted(r, role, x)
                         /\ Denied(r2, role, x) <=> Denied(r, role, x)
    BY <2>2, <1>8 DEF Granted, Denied
  <2>4. ns # Everywhere
    BY CatalogueAssumption DEF CatOK
  <2>5. <<role, Everywhere>> \in DOMAIN r2.privs <=> <<role, Everywhere>> \in DOMAIN r.privs
    BY <2>2, <2>4, <1>8
  <2>6. DOMAIN r2.spaces = DOMAIN r.spaces \ {ns}
    BY <1>3, <1>8 DEF SpacesAgree
  <2> DEFINE old == c.perms[role]
             p == ps[role]
  <2>7. /\ p.global = old.global /\ p.denied = old.denied \ {ns}
        /\ p.can = old.can \ {ns}
    BY <2>1, <1>4
  <2>8. PermAgrees(old, r, role) BY <2>1
  <2> HIDE DEF old, p
  <2>9. PermAgrees(p, r2, role)
    BY <2>3, <2>5, <2>6, <2>7, <2>8 DEF PermAgrees
  <2> QED BY <2>9 DEF p
<1>12. SpacesAgree(c2, r2) /\ UsersAgree(c2, r2)
  BY <1>7, <1>8 DEF SpacesAgree, UsersAgree
<1> QED BY <1>9, <1>10, <1>11, <1>12 DEF c2, r2

\* CREATE and DROP NAMESPACE
LEMMA NamespaceKeeps ==
  ASSUME NEW c, NEW r, CatAgrees(c, r), NEW caller \in Users, NEW ns \in Spaces
  PROVE  /\ Keeps(CreateNamespace(c, r, caller, ns))
         /\ Keeps(DropNamespace(c, r, caller, ns))
<1>1. Keeps(CreateNamespace(c, r, caller, ns))
  <2> DEFINE ok == HasPrivilege(c, caller, Main) /\ ns \notin DOMAIN c.spaces
             c2 == RegisterNamespace(c, ns, "user")
             r2 == CreateNamespaceRow(r, ns, "user")
  <2>1. ASSUME ok PROVE CatAgrees(c2, r2)
    BY <2>1, RegisterAgrees DEF Kinds
  <2>2. ok \in BOOLEAN OBVIOUS
  <2> HIDE DEF ok, c2, r2
  <2>3. Keeps(Result(ok, c2, r2))
    BY <2>1, <2>2, ResultKeeps
  <2> QED BY <2>3 DEF CreateNamespace, ok, c2, r2
<1>2. Keeps(DropNamespace(c, r, caller, ns))
  <2> DEFINE ok == /\ IsOwner(c, caller) /\ ns \in DOMAIN c.spaces
                   /\ ns # Main /\ c.spaces[ns] # "extension"
             c2 == UnregisterNamespace(c, ns)
             r2 == DropNamespaceRow(r, ns)
  <2>1. ASSUME ok PROVE CatAgrees(c2, r2)
    BY <2>1, UnregisterAgrees
  <2>2. ok \in BOOLEAN OBVIOUS
  <2> HIDE DEF ok, c2, r2
  <2>3. Keeps(Result(ok, c2, r2))
    BY <2>1, <2>2, ResultKeeps
  <2> QED BY <2>3 DEF DropNamespace, ok, c2, r2
<1> QED BY <1>1, <1>2

-----------------------------------------------------------------------------
(* Agreement by parts is what a reload of the rows gives. *)

\* A role as newAccessController reads it agrees with its rows.
LEMMA PermLoaded ==
  ASSUME NEW r, CatRowsOK(r), NEW role, NEW p \in Perms
  PROVE  PermAgrees(p, r, role) <=> p = LoadPerms(r, role)
<1> DEFINE g == <<role, Everywhere>> \in DOMAIN r.privs
           cn == {ns \in DOMAIN r.spaces :
                    Granted(r, role, ns) \/ (g /\ ~Denied(r, role, ns))}
           dn == {ns \in DOMAIN r.spaces : Denied(r, role, ns)}
<1>1. LoadPerms(r, role) = [global |-> g, can |-> cn, denied |-> dn]
  BY DEF LoadPerms
<1>2. p = [global |-> p.global, can |-> p.can, denied |-> p.denied]
      /\ p.global \in BOOLEAN /\ p.can \subseteq Spaces /\ p.denied \subseteq Spaces
  BY DEF Perms
<1>3. DOMAIN r.spaces \subseteq Spaces
  BY DEF CatRowsOK
<1>4. PermAgrees(p, r, role) <=> (p.global <=> g) /\ p.can = cn /\ p.denied = dn
  BY <1>2, <1>3 DEF PermAgrees
<1>5. (p.global <=> g) <=> p.global = g
  BY <1>2
<1> HIDE DEF g, cn, dn
<1>6. p = [global |-> g, can |-> cn, denied |-> dn] <=>
        p.global = g /\ p.can = cn /\ p.denied = dn
  BY <1>2
<1> QED BY <1>1, <1>4, <1>5, <1>6

\* The users' roles, read from the rows
LEMMA UsersLoaded ==
  ASSUME NEW c, NEW r, CatOK(c), CatRowsOK(r)
  PROVE  UsersAgree(c, r) <=>
           [u \in {x \in DOMAIN c.users : c.users[x] # {}} |-> c.users[u]]
             = LoadCatalogue(r).users
<1> DEFINE us == [u \in {x \in DOMAIN c.users : c.users[x] # {}} |-> c.users[u]]
           ld == LoadCatalogue(r).users
           ms == {ur[1] : ur \in r.users}
<1>1. ld = [u \in ms |-> {ur[2] : ur \in {x \in r.users : x[1] = u}}]
  BY DEF LoadCatalogue
<1>2. \A x \in r.users : x = <<x[1], x[2]>> /\ x[2] \in Owned
  BY DEF CatRowsOK, Owned
<1>3. \A u : {ur[2] : ur \in {x \in r.users : x[1] = u}}
              = {role \in Owned : <<u, role>> \in r.users}
  BY <1>2
<1>4. /\ DOMAIN ld = ms
      /\ \A u \in ms : /\ ld[u] = {role \in Owned : <<u, role>> \in r.users}
                       /\ ld[u] # {}
  BY <1>1, <1>2, <1>3
<1>5. \A u : u \in ms <=> \E role \in Owned : <<u, role>> \in r.users
  BY <1>2
<1>6. c.users = [u \in DOMAIN c.users |-> c.users[u]]
  BY DEF CatOK
<1>7. ASSUME UsersAgree(c, r) PROVE us = ld
  <2>1. \A u \in DOMAIN c.users : c.users[u] = {role \in Owned : <<u, role>> \in r.users}
    BY <1>7 DEF UsersAgree
  <2>2. ms \subseteq DOMAIN c.users
    BY <1>7 DEF UsersAgree
  <2>3. {x \in DOMAIN c.users : c.users[x] # {}} = ms
    BY <2>1, <2>2, <1>5
  <2>4. \A u \in ms : us[u] = ld[u]
    BY <2>1, <2>2, <2>3, <1>4
  <2> HIDE DEF ms
  <2> QED BY <1>1, <2>3, <2>4
<1>8. ASSUME us = ld PROVE UsersAgree(c, r)
  <2>1. {x \in DOMAIN c.users : c.users[x] # {}} = ms
    <3>1. DOMAIN us = {x \in DOMAIN c.users : c.users[x] # {}} OBVIOUS
    <3> HIDE DEF us, ld, ms
    <3> QED BY <3>1, <1>4, <1>8
  <2>2. \A u \in ms : c.users[u] = {role \in Owned : <<u, role>> \in r.users}
    <3>1. \A u \in ms : us[u] = c.users[u] BY <2>1
    <3> HIDE DEF us, ld, ms
    <3> QED BY <3>1, <1>4, <1>8
  <2>3. \A u \in DOMAIN c.users \ ms : c.users[u] = {role \in Owned : <<u, role>> \in r.users}
    BY <2>1, <1>5
  <2>4. \A x \in r.users : x[1] \in DOMAIN c.users
    BY <2>1
  <2> HIDE DEF ms
  <2> QED BY <2>2, <2>3, <2>4 DEF UsersAgree
<1> QED BY <1>7, <1>8

\* What a start reads from the rows agrees with them.
LEMMA CatalogueLoaded ==
  ASSUME NEW c, NEW r, CatOK(c), CatRowsOK(r)
  PROVE  CatAgrees(c, r) <=>
           [c EXCEPT !.users = [u \in {x \in DOMAIN c.users : c.users[x] # {}} |->
                                   c.users[u]]]
             = LoadCatalogue(r)
<1> DEFINE us == [u \in {x \in DOMAIN c.users : c.users[x] # {}} |-> c.users[u]]
           ld == LoadCatalogue(r)
           c2 == [c EXCEPT !.users = us]
<1>1. /\ ld = [spaces |-> r.spaces, perms |-> ld.perms, users |-> ld.users]
      /\ ld.spaces = r.spaces
      /\ ld.perms = [role \in r.roles |-> LoadPerms(r, role)]
  BY DEF LoadCatalogue
<1>2. UsersAgree(c, r) <=> us = ld.users
  BY UsersLoaded
<1>3. PermsAgree(c, r) <=> c.perms = ld.perms
  <2>1. c.perms = [role \in DOMAIN c.perms |-> c.perms[role]]
        /\ \A role \in DOMAIN c.perms : c.perms[role] \in Perms
    BY DEF CatOK
  <2>2. \A role \in DOMAIN c.perms :
           PermAgrees(c.perms[role], r, role) <=> c.perms[role] = LoadPerms(r, role)
    BY <2>1, PermLoaded
  <2> DEFINE ps == c.perms
             lp == ld.perms
  <2>3. PermsAgree(c, r) <=> /\ DOMAIN ps = r.roles
                             /\ \A role \in r.roles : ps[role] = LoadPerms(r, role)
    BY <2>2 DEF PermsAgree
  <2>4. ps = [role \in DOMAIN ps |-> ps[role]] BY <2>1
  <2>5. lp = [role \in r.roles |-> LoadPerms(r, role)] BY <1>1
  <2> HIDE DEF ps, lp
  <2>6. ps = lp <=> /\ DOMAIN ps = r.roles
                    /\ \A role \in r.roles : ps[role] = LoadPerms(r, role)
    BY <2>4, <2>5
  <2> QED BY <2>3, <2>6 DEF ps, lp
<1> HIDE DEF us, ld
<1>4. c2 = [spaces |-> c.spaces, perms |-> c.perms, users |-> us]
  BY DEF CatOK
<1>5. c2 = ld <=> c.spaces = r.spaces /\ c.perms = ld.perms /\ us = ld.users
  BY <1>1, <1>4
<1>6. CatAgrees(c, r) <=> c.spaces = r.spaces /\ PermsAgree(c, r) /\ UsersAgree(c, r)
  BY DEF CatAgrees, SpacesAgree
<1> QED BY <1>2, <1>3, <1>5, <1>6 DEF us, ld

\* Equality with a reload is agreement part by part.
LEMMA AgreesByParts ==
  ASSUME NEW m, NEW rows, m = [cat |-> m.cat, info |-> m.info],
         CatOK(m.cat), CatRowsOK(rows.cat)
  PROVE  Agrees(m, rows) <=>
           CatAgrees(m.cat, rows.cat) /\ m.info = LoadInfo(rows.br)
<1> DEFINE c == m.cat
           us == [u \in {x \in DOMAIN c.users : c.users[x] # {}} |-> c.users[u]]
           c2 == [c EXCEPT !.users = us]
           ld == LoadCatalogue(rows.cat)
           li == LoadInfo(rows.br)
<1>1. Agrees(m, rows) <=> [m EXCEPT !.cat.users = us] = [cat |-> ld, info |-> li]
  BY DEF Agrees, Load
<1>2. CatAgrees(c, rows.cat) <=> c2 = ld
  BY CatalogueLoaded
<1> HIDE DEF us, ld, li
<1>3. [m EXCEPT !.cat.users = us] = [cat |-> c2, info |-> m.info]
  OBVIOUS
<1> HIDE DEF c2
<1>4. [cat |-> c2, info |-> m.info] = [cat |-> ld, info |-> li] <=> c2 = ld /\ m.info = li
  OBVIOUS
<1> QED BY <1>1, <1>2, <1>3, <1>4 DEF li

\* Agreement of the catalogue is equality with a reload of its rows.
LEMMA LoadAgrees ==
  ASSUME NEW r, CatRowsOK(r)
  PROVE  CatAgrees(LoadCatalogue(r), r)
<1> DEFINE ld == LoadCatalogue(r)
           ms == {ur[1] : ur \in r.users}
<1>1. ld = [spaces |-> r.spaces,
            perms |-> [role \in r.roles |-> LoadPerms(r, role)],
            users |-> [u \in ms |-> {ur[2] : ur \in {x \in r.users : x[1] = u}}]]
  BY DEF LoadCatalogue
<1>2. \A role : LoadPerms(r, role) \in Perms
  BY DEF LoadPerms, Perms, CatRowsOK, Granted, Denied
<1>3. \A x \in r.users : x = <<x[1], x[2]>> /\ x[2] \in Owned
  BY DEF CatRowsOK, Owned
<1>4. \A u : {ur[2] : ur \in {x \in r.users : x[1] = u}}
              = {role \in Owned : <<u, role>> \in r.users}
  BY <1>3
<1>5. ld.spaces = r.spaces BY <1>1
<1>6. ld.perms = [role \in r.roles |-> LoadPerms(r, role)]
  BY <1>1
<1>7. DOMAIN ld.users = ms /\ ld.users = [u \in DOMAIN ld.users |-> ld.users[u]]
      /\ \A u \in ms : ld.users[u] = {role \in Owned : <<u, role>> \in r.users}
  BY <1>1, <1>4
<1>8. ld = [spaces |-> ld.spaces, perms |-> ld.perms, users |-> ld.users]
  BY <1>1
<1>9. \A x \in r.users : x[1] \in ms OBVIOUS
<1> HIDE DEF ld, ms
<1>10. CatOK(ld)
  BY <1>2, <1>5, <1>6, <1>7, <1>8 DEF CatOK, CatRowsOK
<1>11. PermsAgree(ld, r)
  BY <1>2, <1>6, PermLoaded DEF PermsAgree
<1>12. UsersAgree(ld, r)
  BY <1>7, <1>9 DEF UsersAgree
<1> QED BY <1>5, <1>10, <1>11, <1>12 DEF CatAgrees, SpacesAgree, ld

-----------------------------------------------------------------------------
(* The bridge's rows and its cached record *)

EpochRows == [paid : Nat, ended : BOOLEAN, root : Nat, votes : SUBSET Validators,
              confirmed : BOOLEAN]
Infos == [exists : BOOLEAN, synced : BOOLEAN, active : BOOLEAN, network : Nat,
          epoch : Nat]
BrRows == [exists : BOOLEAN, synced : BOOLEAN, active : BOOLEAN, network : Nat,
           balance : [Holders -> Nat], epochs : Seq(EpochRows),
           deposited : Nat, processed : BOOLEAN]

BridgeOK(br) ==
    /\ br \in BrRows
    /\ ~br.exists => ~br.synced /\ ~br.active /\ br.epochs = <<>>
    /\ br.exists => Len(br.epochs) > 0
    /\ ~br.synced => br.network = 0
    /\ InTurn(br)

\* The cached record in the course of a block: the state-poll resolution and
\* the end-block hook write the rows before the record.
InfoAgrees(info, br, ph) ==
    /\ info.exists <=> br.exists
    /\ info.active <=> br.active
    /\ info.synced <=> (br.synced /\ ph \notin {"sync", "orphan"})
    /\ info.network = br.network
    /\ info.epoch = IF ph = "hook" THEN Len(br.epochs) - 1 ELSE Len(br.epochs)

\* Every epoch but the open one took a statement that paid into it.
Paced(br, n) ==
    Len(br.epochs) + (IF Len(br.epochs) > 0 /\ br.epochs[Len(br.epochs)].paid > 0
                      THEN 1 ELSE 0) <= n

\* The one open epoch is the last: getStoredRewardInstances finds it.
LEMMA OpenIsLast ==
  ASSUME NEW br, BridgeOK(br), br.exists
  PROVE  Max(Open(br)) = Len(br.epochs)
<1>1. Open(br) = {Len(br.epochs)} /\ Len(br.epochs) \in Nat
  BY DEF BridgeOK, InTurn, BrRows
<1> DEFINE n == Len(br.epochs)
<1> HIDE DEF n
<1>2. Max({n}) = n
  <2>1. Max({n}) = CHOOSE x \in {n} : \A y \in {n} : x >= y
    BY DEF Max
  <2>2. n >= n BY <1>1 DEF n
  <2> QED BY <2>1, <2>2
<1> QED BY <1>1, <1>2 DEF n

\* Agreement of the cached record is equality with a reload of its rows.
LEMMA InfoLoaded ==
  ASSUME NEW info \in Infos, NEW br, BridgeOK(br), NEW ph,
         ph \notin {"sync", "orphan", "hook"}
  PROVE  info = LoadInfo(br) <=> InfoAgrees(info, br, ph)
<1>1. info = [exists |-> info.exists, synced |-> info.synced, active |-> info.active,
              network |-> info.network, epoch |-> info.epoch]
      /\ info.exists \in BOOLEAN /\ info.synced \in BOOLEAN /\ info.active \in BOOLEAN
  BY DEF Infos
<1>2. br.exists \in BOOLEAN /\ br.synced \in BOOLEAN /\ br.active \in BOOLEAN
  BY DEF BridgeOK, BrRows
<1>3. CASE br.exists
  <2>1. LoadInfo(br) = [exists |-> TRUE, synced |-> br.synced, active |-> br.active,
                        network |-> br.network, epoch |-> Len(br.epochs)]
    BY <1>3, OpenIsLast DEF LoadInfo, BridgeOK
  <2>2. info = LoadInfo(br) <=>
          /\ info.exists = TRUE /\ info.synced = br.synced /\ info.active = br.active
          /\ info.network = br.network /\ info.epoch = Len(br.epochs)
    BY <1>1, <2>1
  <2> QED BY <1>1, <1>2, <1>3, <2>2 DEF InfoAgrees
<1>4. CASE ~br.exists
  <2>1. LoadInfo(br) = [exists |-> FALSE, synced |-> FALSE, active |-> FALSE,
                        network |-> 0, epoch |-> 0]
    BY <1>4 DEF LoadInfo, NoInfo
  <2>2. info = LoadInfo(br) <=>
          /\ info.exists = FALSE /\ info.synced = FALSE /\ info.active = FALSE
          /\ info.network = 0 /\ info.epoch = 0
    BY <1>1, <2>1
  <2>3. ~br.synced /\ ~br.active /\ br.network = 0 /\ Len(br.epochs) = 0
    BY <1>4 DEF BridgeOK
  <2> QED BY <1>1, <1>2, <1>4, <2>2, <2>3 DEF InfoAgrees
<1> QED BY <1>2, <1>3, <1>4

\* A record read from the rows is well formed.
LEMMA LoadInfoType ==
  ASSUME NEW br, BridgeOK(br)
  PROVE  LoadInfo(br) \in Infos
<1>1. CASE br.exists
  BY <1>1, OpenIsLast DEF LoadInfo, BridgeOK, BrRows, Infos
<1>2. CASE ~br.exists
  BY <1>2 DEF LoadInfo, NoInfo, Infos
<1> QED BY <1>1, <1>2

Cached(info, br) == info \in Infos /\ BridgeOK(br) /\ InfoAgrees(info, br, "exec")
BridgeKeeps(res, n) == res.ok => Cached(res.info, res.br) /\ Paced(res.br, n)

\* A method that fails has nothing to establish.
LEMMA OutcomeKeeps ==
  ASSUME NEW ok \in BOOLEAN, NEW info, NEW br, NEW n,
         ok => Cached(info, br) /\ Paced(br, n)
  PROVE  BridgeKeeps(Outcome(ok, info, br), n)
<1>1. CASE ok
  <2>1. Outcome(ok, info, br).info = info /\ Outcome(ok, info, br).br = br
    BY <1>1 DEF Outcome
  <2> QED BY <1>1, <2>1, Zenon DEF BridgeKeeps
<1>2. CASE ~ok
  <2>1. Outcome(ok, info, br) = [ok |-> FALSE]
    BY <1>2 DEF Outcome, Failed
  <2> QED BY <1>2, <2>1 DEF BridgeKeeps
<1> QED BY <1>1, <1>2

\* Steps that leave the epochs alone
LEMMA SameEpochs ==
  ASSUME NEW br, NEW br2 \in BrRows, BridgeOK(br), br2.epochs = br.epochs,
         br2.exists = br.exists,
         ~br2.exists => ~br2.synced /\ ~br2.active,
         ~br2.synced => br2.network = 0, NEW n, Paced(br, n)
  PROVE  BridgeOK(br2) /\ Paced(br2, n)
<1>1. Open(br2) = Open(br)
  BY DEF Open
<1>2. InTurn(br2)
  BY <1>1 DEF InTurn, BridgeOK
<1> QED BY <1>2 DEF BridgeOK, Paced

\* One statement more leaves room for the same epochs.
LEMMA PacedMore ==
  ASSUME NEW br, BridgeOK(br), NEW n \in Nat, Paced(br, n)
  PROVE  Paced(br, n + 1)
<1> DEFINE l == Len(br.epochs)
           p == IF l > 0 /\ br.epochs[l].paid > 0 THEN 1 ELSE 0
<1>1. l \in Nat BY DEF BridgeOK, BrRows
<1>2. p \in Nat OBVIOUS
<1>3. l + p <= n BY DEF Paced
<1> HIDE DEF l, p
<1>4. l + p <= n + 1 BY <1>1, <1>2, <1>3
<1> QED BY <1>4 DEF Paced, l, p

\* An epoch with a reward more is an epoch.
LEMMA PaidIsEpoch ==
  ASSUME NEW e \in EpochRows
  PROVE  [e EXCEPT !.paid = @ + 1] \in EpochRows
  BY DEF EpochRows

\* The same in the sequence of epochs
LEMMA PaidIsEpochs ==
  ASSUME NEW es \in Seq(EpochRows), NEW k \in DOMAIN es
  PROVE  [es EXCEPT ![k].paid = @ + 1] \in Seq(EpochRows)
<1> DEFINE e == [es[k] EXCEPT !.paid = @ + 1]
<1>0. es[k] \in EpochRows OBVIOUS
<1>1. e \in EpochRows BY <1>0, PaidIsEpoch
<1> HIDE DEF e
<1>2. [es EXCEPT ![k] = e] \in Seq(EpochRows)
  BY <1>1
<1> QED BY <1>2 DEF e

\* A reward goes to the open epoch, the last one.
LEMMA PaidIntoLast ==
  ASSUME NEW br, NEW br2 \in BrRows, BridgeOK(br), NEW k, k = Len(br.epochs),
         br2.epochs = [br.epochs EXCEPT ![k].paid = @ + 1],
         br2.exists, br.exists, ~br2.synced => br2.network = 0,
         NEW n \in Nat, Paced(br, n)
  PROVE  BridgeOK(br2) /\ Paced(br2, n + 1) /\ Len(br2.epochs) = Len(br.epochs)
<1> DEFINE es == br.epochs
           fs == br2.epochs
<1>1. /\ es \in Seq(EpochRows) /\ k \in 1..Len(es) /\ Len(es) \in Nat
      /\ Open(br) = {k}
  BY DEF BridgeOK, BrRows, InTurn
<1>2. /\ Len(fs) = Len(es) /\ DOMAIN fs = DOMAIN es
      /\ fs \in Seq(EpochRows)
      /\ \A j \in DOMAIN es : j # k => fs[j] = es[j]
      /\ fs[k] = [es[k] EXCEPT !.paid = @ + 1]
  <2> DEFINE e == [es[k] EXCEPT !.paid = @ + 1]
  <2>0. es[k] \in EpochRows
    <3> HIDE DEF es
    <3> QED BY <1>1
  <2>1. e \in EpochRows
    BY <2>0, PaidIsEpoch
  <2>2. fs = [es EXCEPT ![k] = e] OBVIOUS
  <2> HIDE DEF e
  <2>3. fs \in Seq(EpochRows) /\ Len(fs) = Len(es)
    <3> HIDE DEF fs, es
    <3> QED BY <1>1, <2>1, <2>2
  <2>4. /\ DOMAIN fs = DOMAIN es /\ fs[k] = e
        /\ \A j \in DOMAIN es : j # k => fs[j] = es[j]
    <3> HIDE DEF fs, es
    <3> QED BY <1>1, <2>1, <2>2
  <2> QED BY <2>3, <2>4 DEF e
<1>3. /\ fs[k].ended = es[k].ended /\ fs[k].confirmed = es[k].confirmed
      /\ fs[k].votes = es[k].votes
  BY <1>1, <1>2 DEF EpochRows
<1>4. ~es[k].ended /\ ~es[k].confirmed
  BY <1>1 DEF Open
<1>5. Open(br2) = Open(br)
  BY <1>2, <1>3 DEF Open
<1>6. InTurn(br2)
  <2>1. ASSUME NEW j \in DOMAIN fs
        PROVE  /\ fs[j].ended => fs[j].root = fs[j].paid
               /\ fs[j].confirmed => fs[j].ended /\ PowerOf(fs[j].votes) >= Threshold
               /\ fs[j].ended /\ ~fs[j].confirmed => j = Len(fs) - 1
    <3>1. CASE j = k
      BY <3>1, <1>3, <1>4
    <3>2. CASE j # k
      BY <3>2, <1>2 DEF BridgeOK, InTurn
    <3> QED BY <3>1, <3>2
  <2> QED BY <2>1, <1>1, <1>2, <1>5 DEF InTurn
<1>7. BridgeOK(br2)
  BY <1>1, <1>2, <1>6 DEF BridgeOK
<1>8. Paced(br2, n + 1)
  <2> DEFINE l == Len(es)
             p == IF l > 0 /\ es[l].paid > 0 THEN 1 ELSE 0
             q == IF Len(fs) > 0 /\ fs[Len(fs)].paid > 0 THEN 1 ELSE 0
  <2>1. l \in Nat /\ p \in {0, 1} /\ q \in {0, 1} /\ Len(fs) = l
    BY <1>1, <1>2
  <2>2. l + p <= n BY DEF Paced
  <2>3. Paced(br2, n + 1) <=> Len(fs) + q <= n + 1 BY DEF Paced
  <2> HIDE DEF l, p, q, fs
  <2>4. Len(fs) + q <= n + 1 BY <2>1, <2>2
  <2> QED BY <2>3, <2>4
<1> QED BY <1>2, <1>7, <1>8

\* transfer: from a balance to another one
LEMMA TransferBridgeKeeps ==
  ASSUME NEW info, NEW br, Cached(info, br), NEW n \in Nat, Paced(br, n),
         NEW h \in Holders, NEW to \in Holders, h # to
  PROVE  BridgeKeeps(Transfer(info, br, h, to), n + 1)
<1> DEFINE ok == br.balance[h] >= 1
           b1 == [br.balance EXCEPT ![h] = @ - 1]
           b2 == [b1 EXCEPT ![to] = @ + 1]
           br2 == [br EXCEPT !.balance = b2]
<1>1. ASSUME ok PROVE Cached(info, br2) /\ Paced(br2, n + 1)
  <2>1. br.balance \in [Holders -> Nat] BY DEF Cached, BridgeOK, BrRows
  <2>2. b1 \in [Holders -> Nat] BY <1>1, <2>1
  <2> HIDE DEF b1
  <2>3. b2 \in [Holders -> Nat] BY <2>2
  <2> HIDE DEF b2
  <2>4. /\ br2 \in BrRows /\ br2.epochs = br.epochs /\ br2.exists = br.exists
        /\ br2.synced = br.synced /\ br2.active = br.active /\ br2.network = br.network
    BY <2>3 DEF Cached, BridgeOK, BrRows
  <2> HIDE DEF br2
  <2>5. BridgeOK(br2) /\ Paced(br2, n)
    BY <2>4, SameEpochs DEF Cached, BridgeOK
  <2>6. Paced(br2, n + 1)
    BY <2>5, PacedMore
  <2> QED BY <2>4, <2>5, <2>6 DEF Cached, InfoAgrees
<1>2. ok \in BOOLEAN OBVIOUS
<1> HIDE DEF ok, br2
<1>3. BridgeKeeps(Outcome(ok, info, br2), n + 1)
  BY <1>1, <1>2, OutcomeKeeps
<1>4. Transfer(info, br, h, to) = Outcome(ok, info, br2)
  <2>1. br2 = [br EXCEPT !.balance[h] = @ - 1, !.balance[to] = @ + 1]
    BY DEF br2, b1, b2, Cached, BridgeOK, BrRows
  <2> QED BY <2>1 DEF Transfer, ok
<1> QED BY <1>3, <1>4

\* lock: the cached balance of the network follows its row.
LEMMA LockKeeps ==
  ASSUME NEW info, NEW br, Cached(info, br), NEW n \in Nat, Paced(br, n),
         NEW h \in Holders
  PROVE  BridgeKeeps(LockTokens(info, br, h), n + 1)
<1> DEFINE ok == br.balance[h] >= 1 /\ Usable(info)
           info2 == [info EXCEPT !.network = @ + 1]
           br2 == [br EXCEPT !.balance[h] = @ - 1, !.network = @ + 1]
<1>1. ASSUME ok PROVE Cached(info2, br2) /\ Paced(br2, n + 1)
  <2>1. /\ br2 \in BrRows /\ br2.epochs = br.epochs /\ br2.exists = br.exists
        /\ br2.synced = br.synced /\ br2.active = br.active
        /\ br2.network = br.network + 1
    <3> DEFINE b2 == [br.balance EXCEPT ![h] = @ - 1]
    <3>1. b2 \in [Holders -> Nat]
      BY <1>1 DEF Cached, BridgeOK, BrRows
    <3>2. br2 = [br EXCEPT !.balance = b2, !.network = @ + 1]
      BY DEF Cached, BridgeOK, BrRows
    <3>3. br \in BrRows BY DEF Cached, BridgeOK
    <3> HIDE DEF b2, br2
    <3>0. br.network + 1 \in Nat BY <3>3 DEF BrRows
    <3>4. br2 \in BrRows /\ br2.network = br.network + 1
      BY <3>0, <3>1, <3>2, <3>3 DEF BrRows
    <3>5. br2.exists = br.exists /\ br2.synced = br.synced /\ br2.active = br.active
          /\ br2.epochs = br.epochs
      BY <3>2, <3>3 DEF BrRows
    <3> QED BY <3>4, <3>5
  <2>2. /\ info2 \in Infos /\ info2.network = info.network + 1
        /\ info2.exists = info.exists /\ info2.synced = info.synced
        /\ info2.active = info.active /\ info2.epoch = info.epoch
    BY DEF Cached, Infos
  <2> HIDE DEF br2, info2
  <2>3. br.synced /\ br.exists
    BY <1>1 DEF Usable, Cached, InfoAgrees
  <2>4. BridgeOK(br2) /\ Paced(br2, n)
    BY <2>1, <2>3, SameEpochs DEF Cached, BridgeOK
  <2>5. Paced(br2, n + 1)
    BY <2>4, PacedMore
  <2> QED BY <2>1, <2>2, <2>4, <2>5 DEF Cached, InfoAgrees
<1>2. ok \in BOOLEAN BY DEF Usable, Cached, Infos
<1> HIDE DEF ok, br2, info2
<1>3. BridgeKeeps(Outcome(ok, info2, br2), n + 1)
  BY <1>1, <1>2, OutcomeKeeps
<1> QED BY <1>3 DEF LockTokens, ok, br2, info2

\* unlock: the cached balance that it is judged by is that of the row.
LEMMA UnlockKeeps ==
  ASSUME NEW info, NEW br, Cached(info, br), NEW n \in Nat, Paced(br, n),
         NEW h \in Holders
  PROVE  BridgeKeeps(Unlock(info, br, h), n + 1)
<1> DEFINE ok == Usable(info) /\ info.network >= 1 /\ br.network >= 1
           info2 == [info EXCEPT !.network = @ - 1]
           br2 == [br EXCEPT !.network = @ - 1, !.balance[h] = @ + 1]
<1>1. ASSUME ok PROVE Cached(info2, br2) /\ Paced(br2, n + 1)
  <2>0. info.network \in Nat /\ info.network >= 1 /\ info.network = br.network
    BY <1>1 DEF Cached, Infos, InfoAgrees
  <2>1. /\ br2 \in BrRows /\ br2.epochs = br.epochs /\ br2.exists = br.exists
        /\ br2.synced = br.synced /\ br2.active = br.active
        /\ br2.network = br.network - 1
    <3> DEFINE b2 == [br.balance EXCEPT ![h] = @ + 1]
    <3>1. b2 \in [Holders -> Nat]
      BY DEF Cached, BridgeOK, BrRows
    <3>2. br2 = [br EXCEPT !.network = @ - 1, !.balance = b2]
      BY DEF Cached, BridgeOK, BrRows
    <3>3. br \in BrRows BY DEF Cached, BridgeOK
    <3>4. br.network - 1 \in Nat BY <2>0
    <3> HIDE DEF b2, br2
    <3>5. br2 \in BrRows /\ br2.network = br.network - 1
      BY <3>1, <3>2, <3>3, <3>4 DEF BrRows
    <3>6. br2.exists = br.exists /\ br2.synced = br.synced /\ br2.active = br.active
          /\ br2.epochs = br.epochs
      BY <3>2, <3>3 DEF BrRows
    <3> QED BY <3>5, <3>6
  <2>2. /\ info2 \in Infos /\ info2.network = info.network - 1
        /\ info2.exists = info.exists /\ info2.synced = info.synced
        /\ info2.active = info.active /\ info2.epoch = info.epoch
    BY <2>0 DEF Cached, Infos
  <2> HIDE DEF br2, info2
  <2>3. br.synced /\ br.exists
    BY <1>1 DEF Usable, Cached, InfoAgrees
  <2>4. BridgeOK(br2) /\ Paced(br2, n)
    BY <2>1, <2>3, SameEpochs DEF Cached, BridgeOK
  <2>5. Paced(br2, n + 1)
    BY <2>4, PacedMore
  <2> QED BY <2>1, <2>2, <2>4, <2>5 DEF Cached, InfoAgrees
<1>2. ok \in BOOLEAN BY DEF Usable, Cached, Infos, BridgeOK, BrRows
<1> HIDE DEF ok, br2, info2
<1>3. BridgeKeeps(Outcome(ok, info2, br2), n + 1)
  BY <1>1, <1>2, OutcomeKeeps
<1> QED BY <1>3 DEF Unlock, ok, br2, info2

\* issue: the cached epoch is the open one, so that no closed epoch is paid into.
LEMMA IssueKeeps ==
  ASSUME NEW info, NEW br, Cached(info, br), NEW n \in Nat, Paced(br, n)
  PROVE  BridgeKeeps(IssueTokens(info, br), n + 1)
<1> DEFINE ok == /\ Usable(info) /\ info.network >= 1 /\ br.network >= 1
                 /\ info.epoch \in DOMAIN br.epochs
           info2 == [info EXCEPT !.network = @ - 1]
           br2 == [br EXCEPT !.network = @ - 1, !.epochs[info.epoch].paid = @ + 1]
<1>1. ASSUME ok PROVE Cached(info2, br2) /\ Paced(br2, n + 1)
  <2>0. /\ info.network \in Nat /\ info.network >= 1 /\ info.network = br.network
        /\ info.epoch = Len(br.epochs) /\ info.epoch \in DOMAIN br.epochs
        /\ br.synced /\ br.exists
    BY <1>1 DEF Cached, Infos, InfoAgrees, Usable
  <2>1. /\ br2 \in BrRows /\ br2.exists = br.exists
        /\ br2.epochs = [br.epochs EXCEPT ![info.epoch].paid = @ + 1]
        /\ br2.synced = br.synced /\ br2.active = br.active
        /\ br2.network = br.network - 1
    <3> DEFINE es == [br.epochs EXCEPT ![info.epoch].paid = @ + 1]
    <3>1. es \in Seq(EpochRows)
      BY <2>0, PaidIsEpochs DEF Cached, BridgeOK, BrRows
    <3>2. br2 = [br EXCEPT !.network = @ - 1, !.epochs = es]
      BY DEF Cached, BridgeOK, BrRows
    <3>3. br \in BrRows BY DEF Cached, BridgeOK
    <3>0. br.network - 1 \in Nat BY <2>0
    <3> HIDE DEF es, br2
    <3>4. br2 \in BrRows /\ br2.epochs = es
      BY <3>0, <3>1, <3>2, <3>3 DEF BrRows
    <3>5. br2.exists = br.exists /\ br2.synced = br.synced /\ br2.active = br.active
          /\ br2.network = br.network - 1
      BY <3>2, <3>3 DEF BrRows
    <3> QED BY <3>4, <3>5 DEF es
  <2>2. /\ info2 \in Infos /\ info2.network = info.network - 1
        /\ info2.exists = info.exists /\ info2.synced = info.synced
        /\ info2.active = info.active /\ info2.epoch = info.epoch
    BY <2>0 DEF Cached, Infos
  <2> HIDE DEF br2, info2
  <2>4. BridgeOK(br2) /\ Paced(br2, n + 1) /\ Len(br2.epochs) = Len(br.epochs)
    BY <2>0, <2>1, PaidIntoLast DEF Cached
  <2> QED BY <2>1, <2>2, <2>4 DEF Cached, InfoAgrees
<1>2. ok \in BOOLEAN BY DEF Usable, Cached, Infos, BridgeOK, BrRows
<1> HIDE DEF ok, br2, info2
<1>3. BridgeKeeps(Outcome(ok, info2, br2), n + 1)
  BY <1>1, <1>2, OutcomeKeeps
<1> QED BY <1>3 DEF IssueTokens, ok, br2, info2

\* bridge: a reward paid from a balance
LEMMA LockAndIssueKeeps ==
  ASSUME NEW info, NEW br, Cached(info, br), NEW n \in Nat, Paced(br, n),
         NEW h \in Holders
  PROVE  BridgeKeeps(LockAndIssueTokens(info, br, h), n + 1)
<1> DEFINE ok == /\ br.balance[h] >= 1 /\ Usable(info) /\ info.epoch \in DOMAIN br.epochs
           br2 == [br EXCEPT !.balance[h] = @ - 1, !.epochs[info.epoch].paid = @ + 1]
<1>1. ASSUME ok PROVE Cached(info, br2) /\ Paced(br2, n + 1)
  <2>0. /\ info.epoch = Len(br.epochs) /\ info.epoch \in DOMAIN br.epochs
        /\ br.synced /\ br.exists
    BY <1>1 DEF Cached, Infos, InfoAgrees, Usable
  <2>1. /\ br2 \in BrRows /\ br2.exists = br.exists
        /\ br2.epochs = [br.epochs EXCEPT ![info.epoch].paid = @ + 1]
        /\ br2.synced = br.synced /\ br2.active = br.active
        /\ br2.network = br.network
    <3> DEFINE es == [br.epochs EXCEPT ![info.epoch].paid = @ + 1]
               b2 == [br.balance EXCEPT ![h] = @ - 1]
    <3>0. br \in BrRows BY DEF Cached, BridgeOK
    <3>1. es \in Seq(EpochRows)
      BY <2>0, <3>0, PaidIsEpochs DEF BrRows
    <3>2. b2 \in [Holders -> Nat]
      BY <1>1, <3>0 DEF BrRows
    <3>3. br2 = [br EXCEPT !.balance = b2, !.epochs = es]
      BY <3>0 DEF BrRows
    <3> HIDE DEF es, b2, br2
    <3>4. br2 \in BrRows /\ br2.epochs = es
      BY <3>0, <3>1, <3>2, <3>3 DEF BrRows
    <3>5. br2.exists = br.exists /\ br2.synced = br.synced /\ br2.active = br.active
          /\ br2.network = br.network
      BY <3>0, <3>3 DEF BrRows
    <3> QED BY <3>4, <3>5 DEF es
  <2> HIDE DEF br2
  <2>4. BridgeOK(br2) /\ Paced(br2, n + 1) /\ Len(br2.epochs) = Len(br.epochs)
    BY <2>0, <2>1, PaidIntoLast DEF Cached
  <2> QED BY <2>1, <2>4 DEF Cached, InfoAgrees
<1>2. ok \in BOOLEAN BY DEF Usable, Cached, Infos
<1> HIDE DEF ok, br2
<1>3. BridgeKeeps(Outcome(ok, info, br2), n + 1)
  BY <1>1, <1>2, OutcomeKeeps
<1> QED BY <1>3 DEF LockAndIssueTokens, ok, br2

\* prepare: a new instance has an epoch; a disabled one keeps what it had.
LEMMA PrepareKeeps ==
  ASSUME NEW info, NEW br, Cached(info, br), NEW n \in Nat, Paced(br, n),
         NEW p \in BOOLEAN
  PROVE  BridgeKeeps(Prepare(info, br, p), n + 1)
<1> DEFINE ok == /\ ~(info.exists /\ info.active)
                 /\ (info.exists /\ info.synced) \/ ~p
           new == [NoInfo EXCEPT !.exists = TRUE, !.active = TRUE, !.epoch = 1]
           info2 == IF ~info.exists THEN new ELSE [info EXCEPT !.active = info.synced]
           newbr == [br EXCEPT !.exists = TRUE, !.active = TRUE, !.epochs = <<NewEpoch>>]
           br2 == IF ~info.exists THEN newbr
                  ELSE [br EXCEPT !.active = IF info.synced THEN TRUE ELSE @]
<1>0. /\ info \in Infos /\ br \in BrRows /\ BridgeOK(br) /\ InfoAgrees(info, br, "exec")
      /\ info.exists \in BOOLEAN /\ info.synced \in BOOLEAN /\ info.active \in BOOLEAN
      /\ br.exists \in BOOLEAN /\ br.synced \in BOOLEAN /\ br.active \in BOOLEAN
  BY DEF Cached, Infos, BridgeOK, BrRows
<1>1. ASSUME ok PROVE Cached(info2, br2) /\ Paced(br2, n + 1)
  <2>1. CASE ~info.exists
    <3>1. ~br.exists /\ ~br.synced /\ br.network = 0
      BY <1>0, <2>1 DEF InfoAgrees, BridgeOK
    <3>2. NewEpoch \in EpochRows
      BY DEF NewEpoch, EpochRows, NoRoot
    <3>3. <<NewEpoch>> \in Seq(EpochRows) /\ Len(<<NewEpoch>>) = 1
          /\ DOMAIN <<NewEpoch>> = {1} /\ <<NewEpoch>>[1] = NewEpoch
      <4> HIDE DEF NewEpoch
      <4> QED BY <3>2
    <3> DEFINE es == <<NewEpoch>>
    <3>4. newbr = [br EXCEPT !.exists = TRUE, !.active = TRUE, !.epochs = es]
      OBVIOUS
    <3>5. es \in Seq(EpochRows) /\ Len(es) = 1 /\ DOMAIN es = {1} /\ es[1] = NewEpoch
      BY <3>3
    <3>6. br2 = newbr /\ info2 = new
      BY <2>1
    <3> HIDE DEF es, newbr, br2, new, info2
    <3>7. /\ br2 \in BrRows /\ br2.exists /\ br2.active /\ br2.epochs = es
          /\ br2.synced = br.synced /\ br2.network = br.network
      BY <1>0, <3>4, <3>5, <3>6 DEF BrRows
    <3>8. ~NewEpoch.ended /\ ~NewEpoch.confirmed /\ NewEpoch.paid = 0
      BY DEF NewEpoch
    <3>9. Open(br2) = {1}
      BY <3>5, <3>7, <3>8 DEF Open
    <3>10. InTurn(br2)
      BY <3>5, <3>7, <3>8, <3>9 DEF InTurn
    <3> DEFINE l == Len(br2.epochs)
    <3>15. l = 1 /\ br2.epochs[l].paid = 0
      BY <3>5, <3>7, <3>8
    <3>11. BridgeOK(br2)
      BY <3>1, <3>7, <3>10, <3>15 DEF BridgeOK
    <3>12. Paced(br2, n + 1)
      <4>1. 1 + 0 <= n + 1 OBVIOUS
      <4> QED BY <3>15, <4>1 DEF Paced
    <3>13. /\ info2 \in Infos /\ info2.exists /\ info2.active /\ ~info2.synced
           /\ info2.network = 0 /\ info2.epoch = 1
      BY <3>6 DEF new, NoInfo, Infos
    <3>14. InfoAgrees(info2, br2, "exec")
      BY <3>1, <3>5, <3>7, <3>13 DEF InfoAgrees
    <3> QED BY <3>11, <3>12, <3>13, <3>14 DEF Cached
  <2>2. CASE info.exists
    <3>1. info2 = [info EXCEPT !.active = info.synced]
      BY <2>2
    <3>2. br2 = [br EXCEPT !.active = IF info.synced THEN TRUE ELSE br.active]
      BY <2>2
    <3> HIDE DEF info2, br2
    <3>3. /\ info2 \in Infos /\ info2.exists = info.exists /\ info2.active = info.synced
          /\ info2.synced = info.synced /\ info2.network = info.network
          /\ info2.epoch = info.epoch
      BY <1>0, <3>1 DEF Infos
    <3>4. /\ br2 \in BrRows /\ br2.exists = br.exists /\ br2.epochs = br.epochs
          /\ br2.synced = br.synced /\ br2.network = br.network
          /\ br2.active <=> (info.synced \/ br.active)
      BY <1>0, <3>2 DEF BrRows
    <3>5. ~br.active /\ br.exists
      BY <1>0, <1>1, <2>2 DEF InfoAgrees
    <3>6. BridgeOK(br2) /\ Paced(br2, n)
      BY <1>0, <3>4, <3>5, SameEpochs DEF BridgeOK
    <3>7. Paced(br2, n + 1)
      BY <3>6, PacedMore
    <3>8. InfoAgrees(info2, br2, "exec")
      BY <1>0, <3>3, <3>4, <3>5 DEF InfoAgrees
    <3> QED BY <3>3, <3>6, <3>7, <3>8 DEF Cached
  <2> QED BY <1>0, <2>1, <2>2
<1>2. ok \in BOOLEAN OBVIOUS
<1> HIDE DEF ok, info2, br2
<1>3. BridgeKeeps(Outcome(ok, info2, br2), n + 1)
  BY <1>1, <1>2, OutcomeKeeps
<1> QED BY <1>3 DEF Prepare, ok, info2, br2

\* disable: only the flag changes.
LEMMA DisableKeeps ==
  ASSUME NEW info, NEW br, Cached(info, br), NEW n \in Nat, Paced(br, n)
  PROVE  BridgeKeeps(Disable(info, br), n + 1)
<1> DEFINE ok == info.exists
           info2 == [info EXCEPT !.active = FALSE]
           br2 == IF info.active THEN [br EXCEPT !.active = FALSE] ELSE br
<1>0. /\ info \in Infos /\ br \in BrRows /\ BridgeOK(br) /\ InfoAgrees(info, br, "exec")
      /\ info.exists \in BOOLEAN
  BY DEF Cached, Infos, BridgeOK
<1>1. ASSUME ok PROVE Cached(info2, br2) /\ Paced(br2, n + 1)
  <2>1. /\ info2 \in Infos /\ info2.exists = info.exists /\ ~info2.active
        /\ info2.synced = info.synced /\ info2.network = info.network
        /\ info2.epoch = info.epoch
    BY <1>0 DEF Infos
  <2>2. /\ br2 \in BrRows /\ br2.exists = br.exists /\ br2.epochs = br.epochs
        /\ br2.synced = br.synced /\ br2.network = br.network /\ ~br2.active
    <3>1. CASE info.active BY <1>0, <3>1 DEF BrRows
    <3>2. CASE ~info.active BY <1>0, <3>2 DEF InfoAgrees
    <3> QED BY <3>1, <3>2
  <2> HIDE DEF info2, br2
  <2>3. BridgeOK(br2) /\ Paced(br2, n)
    BY <1>0, <2>2, SameEpochs DEF BridgeOK
  <2>4. Paced(br2, n + 1)
    BY <2>3, PacedMore
  <2>5. InfoAgrees(info2, br2, "exec")
    BY <1>0, <2>1, <2>2 DEF InfoAgrees
  <2> QED BY <2>1, <2>3, <2>4, <2>5 DEF Cached
<1> HIDE DEF ok, info2, br2
<1>2. ok \in BOOLEAN BY <1>0 DEF ok
<1>3. BridgeKeeps(Outcome(ok, info2, br2), n + 1)
  BY <1>1, <1>2, OutcomeKeeps
<1> QED BY <1>3 DEF Disable, ok, info2, br2

\* A deposit changes a balance and nothing that is cached.
LEMMA DepositKeeps ==
  ASSUME NEW br, BridgeOK(br), NEW h \in Holders, NEW n, Paced(br, n)
  PROVE  LET br2 == Deposit(br, h)
         IN  /\ BridgeOK(br2) /\ Paced(br2, n)
             /\ br2.epochs = br.epochs /\ br2.exists = br.exists
             /\ br2.synced = br.synced /\ br2.active = br.active
             /\ br2.network = br.network
<1> DEFINE b2 == [br.balance EXCEPT ![h] = @ + 1]
           br2 == Deposit(br, h)
<1>1. br \in BrRows BY DEF BridgeOK
<1>2. b2 \in [Holders -> Nat] /\ br.deposited + 1 \in Nat
  BY <1>1 DEF BrRows
<1>3. br2 = [br EXCEPT !.balance = b2, !.deposited = @ + 1]
  BY <1>1 DEF Deposit, BrRows
<1> HIDE DEF b2, br2
<1>4. br2 \in BrRows
  BY <1>1, <1>2, <1>3 DEF BrRows
<1>5. /\ br2.epochs = br.epochs /\ br2.exists = br.exists
      /\ br2.synced = br.synced /\ br2.active = br.active
      /\ br2.network = br.network
  BY <1>1, <1>3 DEF BrRows
<1>6. BridgeOK(br2) /\ Paced(br2, n)
  BY <1>4, <1>5, SameEpochs DEF BridgeOK
<1> QED BY <1>5, <1>6 DEF br2

\* What a vote leaves alone: all but the votes and the confirmation of an epoch
\* that ended.
SameBut(br2, br) ==
    /\ br2.exists = br.exists /\ br2.synced = br.synced /\ br2.active = br.active
    /\ br2.network = br.network /\ Len(br2.epochs) = Len(br.epochs)
    /\ br2.balance = br.balance /\ br2.deposited = br.deposited
    /\ DOMAIN br2.epochs = DOMAIN br.epochs
    /\ \A k \in DOMAIN br.epochs : br2.epochs[k].paid = br.epochs[k].paid

\* voteEpoch: confirmed is written with two thirds of the power only.
LEMMA VoteKeeps ==
  ASSUME NEW info, NEW br, BridgeOK(br), NEW n, Paced(br, n), NEW k, NEW v \in Validators,
         VoteEpoch(info, br, k, v).ok
  PROVE  LET br2 == VoteEpoch(info, br, k, v).br
         IN  BridgeOK(br2) /\ Paced(br2, n) /\ SameBut(br2, br)
<1> DEFINE es == br.epochs
           vs == es[k].votes \union {v}
           cf == PowerOf(vs) >= Threshold
           ok == /\ k \in DOMAIN es /\ es[k].ended /\ ~es[k].confirmed
           e == [es[k] EXCEPT !.votes = vs, !.confirmed = cf]
           fs == [es EXCEPT ![k] = e]
           br2 == VoteEpoch(info, br, k, v).br
           br3 == [br EXCEPT !.epochs[k].votes = vs, !.epochs[k].confirmed = cf]
<1>1. br \in BrRows /\ es \in Seq(EpochRows)
  BY DEF BridgeOK, BrRows
<1>2. VoteEpoch(info, br, k, v) = Outcome(ok, info, br3)
  BY DEF VoteEpoch
<1>3. ok
  <2>1. CASE ~ok
    <3>1. VoteEpoch(info, br, k, v) = [ok |-> FALSE]
      BY <1>2, <2>1 DEF Outcome, Failed
    <3> QED BY <3>1
  <2> QED BY <2>1
<1>4. br2 = br3
  BY <1>2, <1>3 DEF Outcome
<1>5. cf \in BOOLEAN OBVIOUS
<1>6. es[k] \in EpochRows /\ vs \subseteq Validators
  <2>1. es[k] \in EpochRows
    <3> HIDE DEF es
    <3> QED BY <1>1, <1>3
  <2>2. es[k].votes \subseteq Validators
    BY <2>1 DEF EpochRows
  <2> QED BY <2>1, <2>2
<1> HIDE DEF cf, vs
<1>7. br3 = [br EXCEPT !.epochs = fs]
  <2> HIDE DEF es
  <2>1. [[es EXCEPT ![k].votes = vs] EXCEPT ![k].confirmed = cf] = fs
    BY <1>1, <1>3, <1>6 DEF EpochRows
  <2>2. br3 = [br EXCEPT !.epochs = [[es EXCEPT ![k].votes = vs] EXCEPT ![k].confirmed = cf]]
    BY <1>1 DEF BrRows, es
  <2> QED BY <2>1, <2>2
<1>8. e \in EpochRows /\ e.votes = vs /\ e.confirmed = cf /\ e.ended = es[k].ended
      /\ e.paid = es[k].paid /\ e.root = es[k].root
  <2> DEFINE x == es[k]
  <2> HIDE DEF x
  <2>1. e = [x EXCEPT !.votes = vs, !.confirmed = cf] BY DEF x
  <2>2. x \in EpochRows BY <1>6 DEF x
  <2> HIDE DEF e
  <2> QED BY <1>5, <1>6, <2>1, <2>2 DEF EpochRows, x
<1> HIDE DEF e
<1>9. fs \in Seq(EpochRows) /\ Len(fs) = Len(es) /\ DOMAIN fs = DOMAIN es
      /\ fs[k] = e /\ \A j \in DOMAIN es : j # k => fs[j] = es[j]
  <2> HIDE DEF es
  <2> QED BY <1>1, <1>3, <1>8
<1>10. /\ br2.exists = br.exists /\ br2.synced = br.synced /\ br2.active = br.active
       /\ br2.network = br.network /\ br2.epochs = fs /\ br2 \in BrRows
       /\ br2.balance = br.balance /\ br2.deposited = br.deposited
  <2>1. br2 = [br EXCEPT !.epochs = fs] BY <1>4, <1>7
  <2>2. fs \in Seq(EpochRows) BY <1>9
  <2> HIDE DEF br2, br3, fs, es
  <2> QED BY <1>1, <2>1, <2>2 DEF BrRows
<1> HIDE DEF br2, br3, fs
<1>11. Open(br2) = Open(br)
  <2>1. \A j \in DOMAIN fs : (~fs[j].ended /\ ~fs[j].confirmed)
                               <=> (~es[j].ended /\ ~es[j].confirmed)
    BY <1>3, <1>8, <1>9
  <2> QED BY <2>1, <1>9, <1>10 DEF Open
<1>12. InTurn(br2)
  <2>1. ASSUME NEW j \in DOMAIN fs
        PROVE  /\ fs[j].ended => fs[j].root = fs[j].paid
               /\ fs[j].confirmed => fs[j].ended /\ PowerOf(fs[j].votes) >= Threshold
               /\ fs[j].ended /\ ~fs[j].confirmed => j = Len(fs) - 1
    <3>0. /\ es[j].ended => es[j].root = es[j].paid
          /\ es[j].confirmed => es[j].ended /\ PowerOf(es[j].votes) >= Threshold
          /\ es[j].ended /\ ~es[j].confirmed => j = Len(es) - 1
      BY <1>9 DEF BridgeOK, InTurn
    <3>1. CASE j = k
      BY <3>0, <3>1, <1>3, <1>8, <1>9 DEF cf
    <3>2. CASE j # k
      BY <3>0, <3>2, <1>9
    <3> QED BY <3>1, <3>2
  <2>2. br2.exists => Open(br2) = {Len(fs)}
    BY <1>9, <1>10, <1>11 DEF BridgeOK, InTurn
  <2> QED BY <2>1, <2>2, <1>10 DEF InTurn
<1>13. BridgeOK(br2)
  BY <1>9, <1>10, <1>12 DEF BridgeOK
<1>14. Paced(br2, n)
  <2> DEFINE l == Len(es)
  <2>1. l > 0 => fs[l].paid = es[l].paid
    BY <1>1, <1>8, <1>9
  <2> QED BY <2>1, <1>9, <1>10 DEF Paced
<1>15. SameBut(br2, br)
  <2>1. \A j \in DOMAIN es : fs[j].paid = es[j].paid
    BY <1>8, <1>9
  <2> QED BY <1>9, <1>10, <2>1 DEF SameBut
<1> QED BY <1>13, <1>14, <1>15 DEF br2

\* finalizeEpoch and createEpoch: the root covers what was paid, and the next
\* epoch opens.
LEMMA EndEpochKeeps ==
  ASSUME NEW info, NEW br, Cached(info, br), NEW n \in Nat, Paced(br, n), Due(info, br)
  PROVE  LET br2 == EndEpoch(info, br)
         IN  /\ BridgeOK(br2) /\ Paced(br2, n) /\ br2.exists
             /\ br2.synced = br.synced /\ br2.active = br.active
             /\ br2.network = br.network /\ Len(br2.epochs) = Len(br.epochs) + 1
             /\ br2.balance = br.balance /\ br2.deposited = br.deposited
             /\ br2.epochs[Len(br.epochs) + 1].paid = 0
             /\ \A j \in DOMAIN br.epochs : br2.epochs[j].paid = br.epochs[j].paid
<1> DEFINE es == br.epochs
           k == Len(es)
           e == [es[k] EXCEPT !.ended = TRUE, !.root = es[k].paid]
           gs == [es EXCEPT ![k] = e]
           fs == Append(gs, NewEpoch)
           br2 == EndEpoch(info, br)
<1>1. /\ br \in BrRows /\ es \in Seq(EpochRows) /\ BridgeOK(br)
      /\ info.epoch = k /\ k \in DOMAIN es /\ k \in Nat /\ k > 0
      /\ k > 1 => es[k - 1].confirmed
      /\ es[k].paid > 0 /\ br.exists
  BY DEF Cached, BridgeOK, BrRows, InfoAgrees, Due, PreviousConfirmed
<1>2. br2 = [br EXCEPT !.epochs = fs]
  BY <1>1 DEF EndEpoch
<1>3. es[k] \in EpochRows
  <2> HIDE DEF es
  <2> QED BY <1>1
<1>4. /\ e \in EpochRows /\ e.ended /\ e.root = es[k].paid /\ e.paid = es[k].paid
      /\ e.confirmed = es[k].confirmed
  <2> DEFINE x == es[k]
  <2> HIDE DEF x
  <2>1. e = [x EXCEPT !.ended = TRUE, !.root = x.paid] BY DEF x
  <2>2. x \in EpochRows BY <1>3 DEF x
  <2> HIDE DEF e
  <2> QED BY <2>1, <2>2 DEF EpochRows, x
<1>5. NewEpoch \in EpochRows /\ ~NewEpoch.ended /\ ~NewEpoch.confirmed /\ NewEpoch.paid = 0
  BY DEF NewEpoch, EpochRows, NoRoot
<1>6. Open(br) = {k}
  BY <1>1 DEF BridgeOK, InTurn
<1>7. \A j \in DOMAIN es : ~es[j].ended /\ ~es[j].confirmed <=> j = k
  BY <1>6 DEF Open
<1>8. \A j \in DOMAIN es :
          /\ es[j].ended => es[j].root = es[j].paid
          /\ es[j].confirmed => es[j].ended /\ PowerOf(es[j].votes) >= Threshold
          /\ es[j].ended /\ ~es[j].confirmed => j = k - 1
  BY <1>1 DEF BridgeOK, InTurn
<1> HIDE DEF e
<1>9. /\ gs \in Seq(EpochRows) /\ Len(gs) = k /\ DOMAIN gs = DOMAIN es
      /\ gs[k] = e /\ \A j \in DOMAIN es : j # k => gs[j] = es[j]
  <2> HIDE DEF es
  <2> QED BY <1>1, <1>4
<1> HIDE DEF gs
<1>10. /\ fs \in Seq(EpochRows) /\ Len(fs) = k + 1 /\ DOMAIN fs = 1..(k + 1)
       /\ fs[k + 1] = NewEpoch /\ fs[k] = e
       /\ \A j \in 1..(k + 1) : j # k /\ j # k + 1 => fs[j] = es[j] /\ j \in DOMAIN es
  <2>1. DOMAIN es = 1..k
    <3> HIDE DEF es
    <3> QED BY <1>1
  <2> DEFINE m == k
             ne == NewEpoch
  <2>2. /\ m \in Nat /\ m > 0 /\ gs \in Seq(EpochRows) /\ Len(gs) = m /\ gs[m] = e
        /\ ne \in EpochRows
        /\ \A j \in 1..m : j # m => gs[j] = es[j]
    BY <1>1, <1>5, <1>9, <2>1
  <2> HIDE DEF m, es, NewEpoch, ne
  <2>3. /\ Append(gs, ne) \in Seq(EpochRows) /\ Len(Append(gs, ne)) = m + 1
        /\ DOMAIN Append(gs, ne) = 1..(m + 1)
        /\ Append(gs, ne)[m + 1] = ne /\ Append(gs, ne)[m] = e
        /\ \A j \in 1..(m + 1) : j # m /\ j # m + 1 =>
               Append(gs, ne)[j] = es[j] /\ j \in 1..m
    BY <2>2
  <2> QED BY <2>1, <2>3 DEF m, ne
<1> HIDE DEF fs
<1>11. /\ br2 \in BrRows /\ br2.exists = br.exists /\ br2.synced = br.synced
       /\ br2.active = br.active /\ br2.network = br.network /\ br2.epochs = fs
       /\ br2.balance = br.balance /\ br2.deposited = br.deposited
  <2> HIDE DEF br2, es
  <2> QED BY <1>1, <1>2, <1>10 DEF BrRows
<1> HIDE DEF br2
<1>12. \A j \in DOMAIN fs : ~fs[j].ended /\ ~fs[j].confirmed <=> j = k + 1
  BY <1>1, <1>4, <1>5, <1>7, <1>10
<1>13. Open(br2) = {k + 1}
  BY <1>1, <1>10, <1>11, <1>12 DEF Open
<1>14. ASSUME NEW j \in DOMAIN fs
       PROVE  /\ fs[j].ended => fs[j].root = fs[j].paid
              /\ fs[j].confirmed => fs[j].ended /\ PowerOf(fs[j].votes) >= Threshold
              /\ fs[j].ended /\ ~fs[j].confirmed => j = Len(fs) - 1
  <2>1. CASE j = k + 1
    BY <2>1, <1>5, <1>10
  <2>2. CASE j = k
    BY <2>2, <1>1, <1>4, <1>7, <1>10
  <2>3. CASE j # k /\ j # k + 1
    <3>1. fs[j] = es[j] /\ j \in DOMAIN es
      BY <2>3, <1>10
    <3>2. ~(es[j].ended /\ ~es[j].confirmed)
      <4>1. j = k - 1 => k > 1
        <5>1. j \in 1..(k + 1) BY <1>10
        <5> HIDE DEF k
        <5> QED BY <5>1, <1>1
      <4> QED BY <1>1, <1>8, <3>1, <4>1
    <3> QED BY <3>1, <3>2, <1>8
  <2> QED BY <2>1, <2>2, <2>3
<1>15. InTurn(br2)
  BY <1>10, <1>11, <1>13, <1>14 DEF InTurn
<1>16. BridgeOK(br2)
  BY <1>1, <1>10, <1>11, <1>15 DEF BridgeOK
<1>17. Paced(br2, n)
  <2>1. k + 1 <= n
    BY <1>1 DEF Paced
  <2> QED BY <1>1, <1>5, <1>10, <1>11, <2>1 DEF Paced
<1>18. fs[k + 1].paid = 0
  BY <1>5, <1>10
<1>19. ASSUME NEW j \in DOMAIN es PROVE fs[j].paid = es[j].paid
  <2>1. j \in 1..(k + 1) /\ j # k + 1
    <3>1. j \in 1..k
      <4> HIDE DEF es
      <4> QED BY <1>1
    <3> HIDE DEF k
    <3> QED BY <1>1, <3>1
  <2>2. CASE j = k BY <2>2, <1>4, <1>10
  <2>3. CASE j # k BY <2>1, <2>3, <1>10
  <2> QED BY <2>2, <2>3
<1> QED BY <1>1, <1>10, <1>11, <1>16, <1>17, <1>18, <1>19 DEF br2

-----------------------------------------------------------------------------
(* The inductive invariant *)

RowInv(rows, n) ==
    /\ rows = [cat |-> rows.cat, br |-> rows.br]
    /\ CatRowsOK(rows.cat) /\ BridgeOK(rows.br) /\ Paced(rows.br, n)

RowsInv == RowInv(db, count["statements"]) /\ RowInv(tx, count["statements"])

MemOK(m) == m = [cat |-> m.cat, info |-> m.info] /\ CatOK(m.cat) /\ m.info \in Infos

\* Memory, and the copy of a reader: where nothing has come apart, memory is
\* the rows' image but for what a resolution or the hook has still to write.
MemInv ==
    /\ MemOK(mem)
    /\ reader # NoCopy => MemOK(reader) /\ reader.cat = mem.cat
    /\ drift = {} => CatAgrees(mem.cat, tx.cat) /\ InfoAgrees(mem.info, tx.br, phase)

PhaseInv ==
    /\ phase \in Phases
    /\ phase \in {"sync", "orphan"} => tx.br.exists /\ tx.br.synced /\ tx.br.network = 0

RestInv ==
    /\ poller \in BOOLEAN /\ polled \in BOOLEAN
    /\ drift \subseteq {"sync", "race", "rollback"}
    /\ signers \subseteq Validators
    /\ count \in [Bounds -> Nat] /\ count["statements"] <= MaxStatements

IInv == RowsInv /\ MemInv /\ PhaseInv /\ RestInv

\* The genesis state has the invariant.
LEMMA InitInv == Init => IInv
<1> SUFFICES ASSUME Init PROVE IInv OBVIOUS
<1> USE DEF Init
<1>1. CatRowsOK(FirstRows)
  BY CatalogueAssumption DEF CatRowsOK, FirstRows, Kinds
<1>2. BridgeOK(NoRows) /\ Paced(NoRows, 0)
  <2>1. NoRows \in BrRows
    BY DEF NoRows, BrRows
  <2>2. InTurn(NoRows)
    BY DEF NoRows, InTurn
  <2>3. /\ ~NoRows.exists /\ ~NoRows.synced /\ ~NoRows.active /\ NoRows.epochs = <<>>
        /\ NoRows.network = 0
    BY DEF NoRows
  <2> QED BY <2>1, <2>2, <2>3 DEF BridgeOK, Paced
<1>3. db.cat = FirstRows /\ db.br = NoRows /\ tx = db /\ db = [cat |-> db.cat, br |-> db.br]
  BY DEF FirstState
<1>4. count["statements"] = 0 /\ count \in [Bounds -> Nat]
  BY DEF Bounds
<1>5. RowsInv
  BY <1>1, <1>2, <1>3, <1>4 DEF RowsInv, RowInv
<1>6. mem.cat = LoadCatalogue(FirstRows) /\ mem.info = LoadInfo(NoRows)
      /\ mem = [cat |-> mem.cat, info |-> mem.info]
  BY <1>3 DEF Load
<1>7. CatAgrees(mem.cat, tx.cat)
  BY <1>1, <1>3, <1>6, LoadAgrees
<1>8. mem.info \in Infos /\ InfoAgrees(mem.info, tx.br, phase)
  <2>1. mem.info \in Infos
    BY <1>2, <1>6, LoadInfoType
  <2> QED BY <1>2, <1>3, <1>6, <2>1, InfoLoaded
<1>9. MemInv
  BY <1>6, <1>7, <1>8 DEF MemInv, MemOK, CatAgrees
<1>10. PhaseInv
  BY DEF PhaseInv, Phases
<1>11. RestInv
  <2>1. count["statements"] <= MaxStatements
    <3>1. MaxStatements \in Nat BY EngineAssumption
    <3> QED BY <1>4, <3>1
  <2>2. poller \in BOOLEAN /\ polled \in BOOLEAN OBVIOUS
  <2>3. drift = {} /\ signers = {} OBVIOUS
  <2> QED BY <1>4, <2>1, <2>2, <2>3 DEF RestInv
<1> QED BY <1>5, <1>9, <1>10, <1>11 DEF IInv

\* A statement is counted ...
LEMMA StatementCounted ==
  ASSUME RestInv, count["statements"] < MaxStatements, Used("statements")
  PROVE  /\ count' \in [Bounds -> Nat] /\ count["statements"] \in Nat
         /\ count'["statements"] = count["statements"] + 1
         /\ count'["statements"] <= MaxStatements
  BY EngineAssumption DEF RestInv, Used, Bounds

\* ... and what uses up another bound is not.
LEMMA OtherCounted ==
  ASSUME RestInv, NEW b \in Bounds \ {"statements"}, Used(b)
  PROVE  /\ count' \in [Bounds -> Nat]
         /\ count'["statements"] = count["statements"]
  BY DEF RestInv, Used, Bounds

\* What a transaction of the block has to establish
LEMMA StatementKeeps ==
  ASSUME IInv, CanExecute, Used("statements"),
         CatAgrees(mem'.cat, tx'.cat), Cached(mem'.info, tx'.br),
         Paced(tx'.br, count["statements"] + 1),
         mem' = [cat |-> mem'.cat, info |-> mem'.info],
         tx' = [cat |-> tx'.cat, br |-> tx'.br],
         poller' \in BOOLEAN, signers' \subseteq Validators,
         UNCHANGED <<db, phase, reader, polled, drift>>
  PROVE  IInv'
<1> DEFINE n == count["statements"]
<1>1. n \in Nat /\ count'["statements"] = n + 1 /\ count' \in [Bounds -> Nat]
      /\ count'["statements"] <= MaxStatements
  BY StatementCounted DEF CanExecute, IInv
<1>2. RowInv(db', n + 1)
  BY <1>1, PacedMore DEF IInv, RowsInv, RowInv
<1>3. RowInv(tx', n + 1)
  BY DEF RowInv, Cached, CatAgrees
<1>4. RowsInv'
  BY <1>1, <1>2, <1>3 DEF RowsInv
<1>5. phase = "exec" /\ reader' = NoCopy
  BY DEF CanExecute, CanWrite
<1>6. MemInv'
  <2>1. MemOK(mem')
    BY DEF MemOK, Cached, CatAgrees
  <2>2. InfoAgrees(mem'.info, tx'.br, phase')
    BY <1>5 DEF Cached
  <2> QED BY <1>5, <2>1, <2>2 DEF MemInv
<1>7. PhaseInv'
  BY <1>5 DEF PhaseInv, Phases
<1>8. RestInv'
  BY <1>1 DEF RestInv, IInv
<1> QED BY <1>4, <1>6, <1>7, <1>8 DEF IInv

\* The rows and the record that a transaction starts from
LEMMA BeforeStatement ==
  ASSUME IInv, CanWrite, phase \in {"exec", "resolve"}
  PROVE  /\ CatAgrees(mem.cat, tx.cat) /\ Cached(mem.info, tx.br)
         /\ Paced(tx.br, count["statements"]) /\ count["statements"] \in Nat
         /\ mem = [cat |-> mem.cat, info |-> mem.info]
         /\ tx = [cat |-> tx.cat, br |-> tx.br]
<1>1. CatAgrees(mem.cat, tx.cat) /\ InfoAgrees(mem.info, tx.br, phase)
  BY DEF IInv, MemInv, CanWrite
<1>2. InfoAgrees(mem.info, tx.br, "exec")
  BY <1>1 DEF InfoAgrees
<1> QED BY <1>1, <1>2 DEF IInv, RowsInv, RowInv, MemInv, MemOK, Cached, RestInv, Bounds

\* A statement of the catalogue
LEMMA ExecutesInv ==
  ASSUME IInv, NEW r, Executes(r), Keeps(r)
  PROVE  IInv'
<1> USE DEF Executes
<1>1. phase = "exec" /\ CanWrite /\ CanExecute
  BY DEF CanExecute
<1>2. /\ Cached(mem.info, tx.br) /\ Paced(tx.br, count["statements"])
      /\ count["statements"] \in Nat
      /\ mem = [cat |-> mem.cat, info |-> mem.info]
      /\ tx = [cat |-> tx.cat, br |-> tx.br]
  BY <1>1, BeforeStatement
<1>3. /\ mem'.cat = r.cat /\ mem'.info = mem.info
      /\ mem' = [cat |-> mem'.cat, info |-> mem'.info]
  BY <1>2
<1>4. /\ tx'.cat = r.rows /\ tx'.br = tx.br
      /\ tx' = [cat |-> tx'.cat, br |-> tx'.br]
  BY <1>2
<1>5. CatAgrees(mem'.cat, tx'.cat)
  BY <1>3, <1>4 DEF Keeps
<1>6. Paced(tx'.br, count["statements"] + 1)
  BY <1>2, <1>4, PacedMore DEF Cached
<1>7. poller' \in BOOLEAN /\ signers' \subseteq Validators
  BY DEF IInv, RestInv, voting
<1> QED BY <1>1, <1>2, <1>3, <1>4, <1>5, <1>6, <1>7, StatementKeeps

\* A method of the bridge
LEMMA CallsInv ==
  ASSUME IInv, NEW r, Calls(r), BridgeKeeps(r, count["statements"] + 1)
  PROVE  IInv'
<1> USE DEF Calls
<1>1. phase = "exec" /\ CanWrite /\ CanExecute
  BY DEF CanExecute
<1>2. /\ CatAgrees(mem.cat, tx.cat)
      /\ mem = [cat |-> mem.cat, info |-> mem.info]
      /\ tx = [cat |-> tx.cat, br |-> tx.br]
  BY <1>1, BeforeStatement
<1>3. /\ mem'.cat = mem.cat /\ mem'.info = r.info
      /\ mem' = [cat |-> mem'.cat, info |-> mem'.info]
  BY <1>2
<1>4. /\ tx'.cat = tx.cat /\ tx'.br = r.br
      /\ tx' = [cat |-> tx'.cat, br |-> tx'.br]
  BY <1>2
<1>5. Cached(mem'.info, tx'.br) /\ Paced(tx'.br, count["statements"] + 1)
  BY <1>3, <1>4 DEF BridgeKeeps
<1>7. poller' \in BOOLEAN /\ signers' \subseteq Validators
  BY DEF IInv, RestInv, voting
<1> QED BY <1>1, <1>2, <1>3, <1>4, <1>5, <1>7, StatementKeeps

\* Statements on roles, privileges, members, the owner and namespaces
LEMMA StatementsInv ==
  ASSUME IInv,
         \/ RoleStatement \/ PrivilegeStatement \/ MemberStatement
         \/ OwnerStatement \/ NamespaceStatement
  PROVE  IInv'
<1>1. ASSUME NEW r, Executes(r) PROVE CatAgrees(mem.cat, tx.cat)
  BY <1>1, BeforeStatement DEF Executes, CanExecute
<1>2. CASE RoleStatement
  <2>1. PICK caller \in Users, role \in Roles :
          \/ Executes(CreateRole(mem.cat, tx.cat, caller, role))
          \/ Executes(DeleteRole(mem.cat, tx.cat, caller, role))
    BY <1>2 DEF RoleStatement
  <2>2. CatAgrees(mem.cat, tx.cat)
    BY <1>1, <2>1
  <2> QED BY <2>1, <2>2, CreateRoleKeeps, DeleteRoleKeeps, ExecutesInv
<1>3. CASE PrivilegeStatement
  <2>1. PICK caller \in Users, role \in Roles, ns \in Scopes, if \in BOOLEAN :
          \/ Executes(GrantPrivileges(mem.cat, tx.cat, caller, role, ns, if))
          \/ Executes(RevokePrivileges(mem.cat, tx.cat, caller, role, ns, if))
    BY <1>3 DEF PrivilegeStatement
  <2>2. CatAgrees(mem.cat, tx.cat)
    BY <1>1, <2>1
  <2> QED BY <2>1, <2>2, GrantKeeps, RevokeKeeps, ExecutesInv
<1>4. CASE MemberStatement
  <2>1. PICK caller \in Users, u \in Users, role \in Roles, if \in BOOLEAN :
          \/ Executes(AssignRole(mem.cat, tx.cat, caller, role, u, if))
          \/ Executes(UnassignRole(mem.cat, tx.cat, caller, role, u, if))
    BY <1>4 DEF MemberStatement
  <2>2. CatAgrees(mem.cat, tx.cat)
    BY <1>1, <2>1
  <2> QED BY <2>1, <2>2, AssignKeeps, ExecutesInv
<1>5. CASE OwnerStatement
  <2>1. PICK caller \in Users, u \in Users :
          Executes(TransferOwnership(mem.cat, tx.cat, caller, u))
    BY <1>5 DEF OwnerStatement
  <2>2. CatAgrees(mem.cat, tx.cat)
    BY <1>1, <2>1
  <2> QED BY <2>1, <2>2, TransferKeeps, ExecutesInv
<1>6. CASE NamespaceStatement
  <2>1. PICK caller \in Users, ns \in Spaces :
          \/ Executes(CreateNamespace(mem.cat, tx.cat, caller, ns))
          \/ Executes(DropNamespace(mem.cat, tx.cat, caller, ns))
    BY <1>6 DEF NamespaceStatement
  <2>2. CatAgrees(mem.cat, tx.cat)
    BY <1>1, <2>1
  <2> QED BY <2>1, <2>2, NamespaceKeeps, ExecutesInv
<1> QED BY <1>2, <1>3, <1>4, <1>5, <1>6

\* transfer, lock, unlock, issue and bridge
LEMMA BridgeCallInv ==
  ASSUME IInv, BridgeCall
  PROVE  IInv'
<1>1. PICK h \in Holders, to \in Holders :
        \/ h # to /\ Calls(Transfer(mem.info, tx.br, h, to))
        \/ Calls(LockTokens(mem.info, tx.br, h))
        \/ Calls(Unlock(mem.info, tx.br, h))
        \/ Calls(IssueTokens(mem.info, tx.br))
        \/ Calls(LockAndIssueTokens(mem.info, tx.br, h))
  BY DEF BridgeCall
<1>2. ASSUME NEW r, Calls(r)
      PROVE  /\ Cached(mem.info, tx.br) /\ Paced(tx.br, count["statements"])
             /\ count["statements"] \in Nat
  BY <1>2, BeforeStatement DEF Calls, CanExecute
<1>3. /\ Cached(mem.info, tx.br) /\ Paced(tx.br, count["statements"])
      /\ count["statements"] \in Nat
  BY <1>1, <1>2
<1> QED BY <1>1, <1>3, TransferBridgeKeeps, LockKeeps, UnlockKeeps, IssueKeeps,
           LockAndIssueKeeps, CallsInv

\* USE, whether the transaction fails after prepare or not
LEMMA UseInv ==
  ASSUME IInv, NEW caller \in Users, NEW ns \in Spaces, NEW fails \in BOOLEAN,
         Use(caller, ns, fails)
  PROVE  IInv'
<1> DEFINE r == Prepare(mem.info, tx.br, poller)
           n == count["statements"]
<1>1. /\ CanExecute /\ Used("statements") /\ ns \notin DOMAIN mem.cat.spaces
      /\ poller' = PollerAfterPrepare(mem.info, poller)
      /\ UNCHANGED <<db, phase, reader, polled, drift, signers>>
  BY DEF Use, voting
<1>2. /\ CatAgrees(mem.cat, tx.cat) /\ Cached(mem.info, tx.br)
      /\ Paced(tx.br, n) /\ n \in Nat
      /\ mem = [cat |-> mem.cat, info |-> mem.info]
      /\ tx = [cat |-> tx.cat, br |-> tx.br]
  BY <1>1, BeforeStatement DEF CanExecute
<1>3. poller' \in BOOLEAN /\ signers' \subseteq Validators
  BY <1>1 DEF PollerAfterPrepare, IInv, RestInv
<1>4. CASE r.ok /\ ~fails
  <2>1. /\ mem' = [cat |-> RegisterNamespace(mem.cat, ns, "extension"), info |-> r.info]
        /\ tx' = [cat |-> CreateNamespaceRow(tx.cat, ns, "extension"), br |-> r.br]
    BY <1>4 DEF Use
  <2>2. BridgeKeeps(r, n + 1)
    BY <1>2, PrepareKeeps DEF IInv, RestInv
  <2>3. CatAgrees(RegisterNamespace(mem.cat, ns, "extension"),
                  CreateNamespaceRow(tx.cat, ns, "extension"))
    BY <1>1, <1>2, RegisterAgrees DEF Kinds
  <2> HIDE DEF r
  <2>4. Cached(r.info, r.br) /\ Paced(r.br, n + 1)
    BY <1>4, <2>2 DEF BridgeKeeps
  <2> QED BY <1>1, <1>3, <2>1, <2>3, <2>4, StatementKeeps
<1>5. CASE ~(r.ok /\ ~fails)
  <2>1. mem' = mem /\ tx' = tx
    BY <1>5 DEF Use
  <2>2. Paced(tx.br, n + 1)
    BY <1>2, PacedMore DEF Cached
  <2> QED BY <1>1, <1>2, <1>3, <2>1, <2>2, StatementKeeps
<1> QED BY <1>4, <1>5

\* UNUSE, whether the transaction fails after disable or not
LEMMA UnuseInv ==
  ASSUME IInv, NEW caller \in Users, NEW ns \in Spaces, NEW fails \in BOOLEAN,
         Unuse(caller, ns, fails)
  PROVE  IInv'
<1> DEFINE r == Disable(mem.info, tx.br)
           n == count["statements"]
<1>1. /\ CanExecute /\ Used("statements") /\ ns \in DOMAIN mem.cat.spaces /\ r.ok
      /\ poller' = PollerAfterDisable(mem.info, poller)
      /\ UNCHANGED <<db, phase, reader, polled, drift>>
      /\ signers' = {} \/ signers' = signers
  BY DEF Unuse
<1>2. /\ CatAgrees(mem.cat, tx.cat) /\ Cached(mem.info, tx.br)
      /\ Paced(tx.br, n) /\ n \in Nat
      /\ mem = [cat |-> mem.cat, info |-> mem.info]
      /\ tx = [cat |-> tx.cat, br |-> tx.br]
  BY <1>1, BeforeStatement DEF CanExecute
<1>3. poller' \in BOOLEAN /\ signers' \subseteq Validators
  BY <1>1 DEF PollerAfterDisable, IInv, RestInv
<1>4. CASE ~fails
  <2>1. /\ mem' = [cat |-> UnregisterNamespace(mem.cat, ns), info |-> r.info]
        /\ tx' = [cat |-> DropNamespaceRow(tx.cat, ns), br |-> r.br]
    BY <1>4 DEF Unuse
  <2>2. BridgeKeeps(r, n + 1)
    BY <1>2, DisableKeeps
  <2>3. CatAgrees(UnregisterNamespace(mem.cat, ns), DropNamespaceRow(tx.cat, ns))
    BY <1>1, <1>2, UnregisterAgrees
  <2> HIDE DEF r
  <2>4. Cached(r.info, r.br) /\ Paced(r.br, n + 1)
    BY <1>1, <2>2 DEF BridgeKeeps
  <2> QED BY <1>1, <1>3, <2>1, <2>3, <2>4, StatementKeeps
<1>5. CASE fails
  <2>1. mem' = mem /\ tx' = tx
    BY <1>5 DEF Unuse
  <2>2. Paced(tx.br, n + 1)
    BY <1>2, PacedMore DEF Cached
  <2> QED BY <1>1, <1>2, <1>3, <2>1, <2>2, StatementKeeps
<1> QED BY <1>4, <1>5

\* Steps of the signers leave rows and memory alone.
LEMMA SignerInv ==
  ASSUME IInv, NEW v \in Validators,
         \/ HasVoted(v) \/ SignAndVote(v) \/ VoteRefused(v)
         \/ VoteCommitted(v) \/ VoteTimesOut(v) \/ RestartValidator(v)
  PROVE  IInv'
<1>1. /\ UNCHANGED <<db, tx, mem, phase, reader, poller, polled, drift>>
      /\ signers' \in {signers, signers \union {v}, signers \ {v}}
  BY DEF HasVoted, SignAndVote, VoteRefused, VoteCommitted, VoteTimesOut,
         RestartValidator
<1>2. \/ UNCHANGED count
      \/ Used("refused") \/ Used("timeouts") \/ Used("restarts")
  BY DEF HasVoted, SignAndVote, VoteRefused, VoteCommitted, VoteTimesOut,
         RestartValidator
<1>3. count'["statements"] = count["statements"] /\ count' \in [Bounds -> Nat]
  BY <1>2, OtherCounted DEF IInv, RestInv, Bounds
<1>4. RowsInv' /\ MemInv' /\ PhaseInv'
  BY <1>1, <1>3 DEF IInv, RowsInv, MemInv, PhaseInv
<1>5. RestInv'
  BY <1>1, <1>3 DEF IInv, RestInv
<1> QED BY <1>4, <1>5 DEF IInv

\* A vote transaction of the block
LEMMA ExecuteVoteInv ==
  ASSUME IInv, NEW v \in Validators, ExecuteVote(v)
  PROVE  IInv'
<1> DEFINE n == count["statements"]
<1>1. PICK t \in PendingOf(v) \ ran :
        LET r == VoteEpoch(mem.info, tx.br, t.epoch, v)
        IN  /\ CanWrite /\ phase = "exec"
            /\ tx' = IF r.ok THEN [tx EXCEPT !.br = r.br] ELSE tx
            /\ UNCHANGED <<db, mem, phase, reader, poller, polled, drift,
                           signers, count>>
  BY DEF ExecuteVote
<1> DEFINE r == VoteEpoch(mem.info, tx.br, t.epoch, v)
<1>2. /\ CanWrite /\ phase = "exec"
      /\ tx' = IF r.ok THEN [tx EXCEPT !.br = r.br] ELSE tx
      /\ UNCHANGED <<db, mem, phase, reader, poller, polled, drift,
                     signers, count>>
  BY <1>1
<1>4. /\ CatAgrees(mem.cat, tx.cat) /\ Cached(mem.info, tx.br) /\ Paced(tx.br, n)
      /\ tx = [cat |-> tx.cat, br |-> tx.br]
  BY <1>2, BeforeStatement
<1>5. ASSUME r.ok PROVE BridgeOK(r.br) /\ Paced(r.br, n) /\ SameBut(r.br, tx.br)
  BY <1>4, <1>5, VoteKeeps DEF Cached
<1> HIDE DEF r
<1>6. /\ tx' = [cat |-> tx'.cat, br |-> tx'.br] /\ tx'.cat = tx.cat
      /\ BridgeOK(tx'.br) /\ Paced(tx'.br, n)
      /\ InfoAgrees(mem.info, tx'.br, "exec")
  <2>1. CASE r.ok
    <3>1. tx' = [tx EXCEPT !.br = r.br] BY <1>2, <2>1
    <3>2. tx' = [cat |-> tx.cat, br |-> r.br] BY <3>1, <1>4
    <3>3. tx'.cat = tx.cat /\ tx'.br = r.br BY <3>2
    <3>4. InfoAgrees(mem.info, r.br, "exec")
      BY <1>4, <1>5, <2>1 DEF Cached, InfoAgrees, SameBut
    <3> QED BY <3>2, <3>3, <3>4, <1>5, <2>1
  <2>2. CASE ~r.ok
    BY <2>2, <1>2, <1>4 DEF Cached
  <2> QED BY <2>1, <2>2
<1>7. RowsInv'
  BY <1>2, <1>4, <1>6 DEF IInv, RowsInv, RowInv
<1>8. MemInv'
  BY <1>2, <1>4, <1>6 DEF IInv, MemInv
<1>9. PhaseInv'
  BY <1>2 DEF PhaseInv, Phases
<1>10. RestInv'
  BY <1>2 DEF IInv, RestInv
<1> QED BY <1>7, <1>8, <1>9, <1>10 DEF IInv

\* The state poll is decided.
LEMMA PollStateInv ==
  ASSUME IInv, PollState
  PROVE  IInv'
  BY DEF PollState, IInv, RowsInv, MemInv, PhaseInv, RestInv, voting

\* A deposit is resolved.
LEMMA ResolveDepositInv ==
  ASSUME IInv, ResolveDeposit
  PROVE  IInv'
<1> DEFINE n == count["statements"]
<1>1. /\ CanWrite /\ phase \in {"exec", "resolve"} /\ phase' = "resolve"
      /\ UNCHANGED <<db, mem, reader, poller, polled, drift, signers, count>>
  BY DEF ResolveDeposit, voting
<1>2. PICK h \in Holders : tx' = [tx EXCEPT !.br = Deposit(@, h)]
  BY DEF ResolveDeposit
<1>3. /\ CatAgrees(mem.cat, tx.cat) /\ Cached(mem.info, tx.br) /\ Paced(tx.br, n)
      /\ tx = [cat |-> tx.cat, br |-> tx.br]
  BY <1>1, BeforeStatement
<1> DEFINE b == Deposit(tx.br, h)
<1>4. tx' = [cat |-> tx.cat, br |-> b]
  BY <1>2, <1>3
<1>5. /\ BridgeOK(b) /\ Paced(b, n) /\ b.epochs = tx.br.epochs /\ b.exists = tx.br.exists
      /\ b.synced = tx.br.synced /\ b.active = tx.br.active /\ b.network = tx.br.network
  BY <1>3, DepositKeeps DEF Cached
<1> HIDE DEF b
<1>6. tx'.cat = tx.cat /\ tx'.br = b /\ tx' = [cat |-> tx'.cat, br |-> tx'.br]
  BY <1>4
<1>7. InfoAgrees(mem.info, b, "resolve")
  BY <1>3, <1>5 DEF Cached, InfoAgrees
<1>8. RowsInv'
  BY <1>1, <1>3, <1>5, <1>6 DEF IInv, RowsInv, RowInv
<1>9. MemInv'
  BY <1>1, <1>3, <1>6, <1>7 DEF IInv, MemInv
<1>10. PhaseInv' /\ RestInv'
  BY <1>1 DEF IInv, PhaseInv, Phases, RestInv
<1> QED BY <1>8, <1>9, <1>10 DEF IInv

\* Flags and balance of an instance written, its epochs left alone
LEMMA FlagsKeep ==
  ASSUME NEW br, BridgeOK(br), NEW n, Paced(br, n), NEW s \in BOOLEAN, NEW p \in BOOLEAN,
         s => br.exists, ~s => br.network = 0
  PROVE  LET br2 == [br EXCEPT !.processed = p, !.synced = s]
         IN  /\ BridgeOK(br2) /\ Paced(br2, n) /\ br2.epochs = br.epochs
             /\ br2.exists = br.exists /\ br2.active = br.active
             /\ br2.network = br.network /\ br2.synced = s
<1> DEFINE br2 == [br EXCEPT !.processed = p, !.synced = s]
<1>1. br \in BrRows BY DEF BridgeOK
<1>2. /\ br2 \in BrRows /\ br2.epochs = br.epochs
      /\ br2.exists = br.exists /\ br2.active = br.active
      /\ br2.network = br.network /\ br2.synced = s
  BY <1>1 DEF BrRows
<1> HIDE DEF br2
<1>3. BridgeOK(br2) /\ Paced(br2, n)
  BY <1>2, SameEpochs DEF BridgeOK
<1> QED BY <1>2, <1>3 DEF br2

\* The state-poll resolution writes the rows, and memory is behind.
LEMMA SyncRowsInv ==
  ASSUME IInv, SyncRows
  PROVE  IInv'
<1> DEFINE n == count["statements"]
<1>1. /\ CanWrite /\ phase \in {"exec", "resolve"}
      /\ UNCHANGED <<db, mem, reader, poller, polled, drift, signers, count>>
  BY DEF SyncRows, voting
<1>2. /\ CatAgrees(mem.cat, tx.cat) /\ Cached(mem.info, tx.br) /\ Paced(tx.br, n)
      /\ tx = [cat |-> tx.cat, br |-> tx.br]
  BY <1>1, BeforeStatement
<1>3. /\ tx.br \in BrRows /\ BridgeOK(tx.br) /\ InfoAgrees(mem.info, tx.br, "exec")
      /\ tx.br.synced \in BOOLEAN
  BY <1>2 DEF Cached, BridgeOK, BrRows
<1>4. CASE mem.info.exists /\ ~mem.info.synced
  <2>1. tx' = [tx EXCEPT !.br.processed = TRUE, !.br.synced = TRUE] /\ phase' = "sync"
    BY <1>4 DEF SyncRows
  <2> DEFINE b == [tx.br EXCEPT !.processed = TRUE, !.synced = TRUE]
  <2>2. tx' = [cat |-> tx.cat, br |-> b]
    BY <1>2, <1>3, <2>1
  <2>3. tx.br.exists /\ ~tx.br.synced /\ tx.br.network = 0
    BY <1>3, <1>4 DEF InfoAgrees, BridgeOK
  <2>4. /\ BridgeOK(b) /\ Paced(b, n) /\ b.epochs = tx.br.epochs
        /\ b.exists = tx.br.exists /\ b.active = tx.br.active
        /\ b.network = tx.br.network /\ b.synced = TRUE
    BY <1>2, <1>3, <2>3, FlagsKeep
  <2> HIDE DEF b
  <2>5. tx'.cat = tx.cat /\ tx'.br = b /\ tx' = [cat |-> tx'.cat, br |-> tx'.br]
    BY <2>2
  <2>6. InfoAgrees(mem.info, b, "sync")
    BY <1>3, <1>4, <2>4 DEF InfoAgrees
  <2>7. RowsInv'
    BY <1>1, <1>2, <2>4, <2>5 DEF IInv, RowsInv, RowInv
  <2>8. MemInv'
    BY <1>1, <1>2, <2>1, <2>5, <2>6 DEF IInv, MemInv
  <2>9. PhaseInv'
    BY <2>1, <2>3, <2>4, <2>5 DEF PhaseInv, Phases
  <2>10. RestInv'
    BY <1>1 DEF IInv, RestInv
  <2> QED BY <2>7, <2>8, <2>9, <2>10 DEF IInv
<1>5. CASE ~(mem.info.exists /\ ~mem.info.synced)
  <2>1. tx' = [tx EXCEPT !.br.processed = TRUE] /\ phase' = "resolve"
    BY <1>5 DEF SyncRows
  <2> DEFINE s == tx.br.synced
             b == [tx.br EXCEPT !.processed = TRUE, !.synced = s]
  <2>2. tx' = [cat |-> tx.cat, br |-> b]
    <3>1. [tx.br EXCEPT !.processed = TRUE] = b
      BY <1>3 DEF BrRows
    <3> HIDE DEF b
    <3> QED BY <1>2, <2>1, <3>1
  <2>3. (s => tx.br.exists) /\ (~s => tx.br.network = 0)
    BY <1>3 DEF BridgeOK
  <2> HIDE DEF s
  <2>4. /\ BridgeOK(b) /\ Paced(b, n) /\ b.epochs = tx.br.epochs
        /\ b.exists = tx.br.exists /\ b.active = tx.br.active
        /\ b.network = tx.br.network /\ b.synced = s
    <3>1. s \in BOOLEAN BY <1>3 DEF s
    <3> QED BY <1>2, <1>3, <2>3, <3>1, FlagsKeep
  <2> HIDE DEF b
  <2>5. tx'.cat = tx.cat /\ tx'.br = b /\ tx' = [cat |-> tx'.cat, br |-> tx'.br]
    BY <2>2
  <2>6. InfoAgrees(mem.info, b, "resolve")
    BY <1>3, <2>4 DEF InfoAgrees, s
  <2>7. RowsInv'
    BY <1>1, <1>2, <2>4, <2>5 DEF IInv, RowsInv, RowInv
  <2>8. MemInv'
    BY <1>1, <1>2, <2>1, <2>5, <2>6 DEF IInv, MemInv
  <2>9. PhaseInv' /\ RestInv'
    BY <1>1, <2>1 DEF IInv, PhaseInv, Phases, RestInv
  <2> QED BY <2>7, <2>8, <2>9 DEF IInv
<1> QED BY <1>4, <1>5

\* Memory catches up, unless a reader or a missing poller came in between.
LEMMA SyncMemoryInv ==
  ASSUME IInv, SyncMemory
  PROVE  IInv'
<1> DEFINE n == count["statements"]
<1>1. /\ phase \in {"sync", "orphan"} /\ phase' = "resolve" /\ poller' = FALSE
      /\ mem' = IF phase = "orphan" THEN mem
                ELSE [mem EXCEPT !.info.synced = TRUE, !.info.network = 0]
      /\ tx' = IF poller THEN tx ELSE [tx EXCEPT !.br.synced = FALSE]
      /\ drift' = drift \union (IF poller THEN {} ELSE {"sync"})
                        \union (IF poller /\ phase = "orphan" THEN {"race"} ELSE {})
      /\ UNCHANGED <<db, reader, polled, signers, count>>
  BY DEF SyncMemory, voting
<1>2. /\ RowInv(tx, n) /\ tx.br.exists /\ tx.br.synced /\ tx.br.network = 0
      /\ tx.br \in BrRows /\ tx = [cat |-> tx.cat, br |-> tx.br]
  BY <1>1 DEF IInv, RowsInv, PhaseInv, RowInv, BridgeOK
<1>3. RowInv(tx', n)
  <2>1. CASE poller BY <1>1, <1>2, <2>1
  <2>2. CASE ~poller
    <3> DEFINE p == tx.br.processed
               b == [tx.br EXCEPT !.processed = p, !.synced = FALSE]
    <3>1. [tx.br EXCEPT !.synced = FALSE] = b
      BY <1>2 DEF BrRows
    <3>2. p \in BOOLEAN BY <1>2 DEF BrRows
    <3> HIDE DEF p
    <3>3. BridgeOK(b) /\ Paced(b, n)
      BY <1>2, <3>2, FlagsKeep DEF RowInv
    <3> HIDE DEF b
    <3>4. tx' = [cat |-> tx.cat, br |-> b]
      BY <1>1, <1>2, <2>2, <3>1
    <3>5. tx'.cat = tx.cat /\ tx'.br = b /\ tx' = [cat |-> tx'.cat, br |-> tx'.br]
      BY <3>4
    <3> QED BY <1>2, <3>3, <3>5 DEF RowInv
  <2> QED BY <2>1, <2>2
<1>4. /\ MemOK(mem') /\ mem'.cat = mem.cat
      /\ phase # "orphan" => /\ mem'.info.synced /\ mem'.info.network = 0
                             /\ mem'.info.exists = mem.info.exists
                             /\ mem'.info.active = mem.info.active
                             /\ mem'.info.epoch = mem.info.epoch
  <2>0. MemOK(mem) BY DEF IInv, MemInv
  <2>1. CASE phase = "orphan" BY <1>1, <2>0, <2>1
  <2>2. CASE phase # "orphan"
    <3> DEFINE i == [mem.info EXCEPT !.synced = TRUE, !.network = 0]
    <3>1. mem' = [cat |-> mem.cat, info |-> i]
      BY <1>1, <2>0, <2>2 DEF MemOK, Infos
    <3>2. /\ i \in Infos /\ i.synced /\ i.network = 0 /\ i.exists = mem.info.exists
          /\ i.active = mem.info.active /\ i.epoch = mem.info.epoch
      BY <2>0 DEF MemOK, Infos
    <3> HIDE DEF i
    <3>3. mem'.cat = mem.cat /\ mem'.info = i /\ mem' = [cat |-> mem'.cat, info |-> mem'.info]
      BY <3>1
    <3> QED BY <2>0, <3>2, <3>3 DEF MemOK
  <2> QED BY <2>1, <2>2
<1>5. ASSUME drift' = {} PROVE CatAgrees(mem'.cat, tx'.cat) /\ InfoAgrees(mem'.info, tx'.br, phase')
  <2>1. drift = {} /\ poller /\ phase = "sync" /\ tx' = tx
    BY <1>1, <1>5
  <2>2. CatAgrees(mem.cat, tx.cat) /\ InfoAgrees(mem.info, tx.br, phase)
    BY <2>1 DEF IInv, MemInv
  <2> QED BY <1>1, <1>2, <1>4, <2>1, <2>2 DEF InfoAgrees
<1>6. RowsInv'
  BY <1>1, <1>3 DEF IInv, RowsInv
<1>7. MemInv'
  BY <1>1, <1>4, <1>5 DEF IInv, MemInv
<1>8. PhaseInv'
  BY <1>1 DEF PhaseInv, Phases
<1>9. RestInv'
  BY <1>1 DEF IInv, RestInv
<1> QED BY <1>6, <1>7, <1>8, <1>9 DEF IInv

\* The end-block hook writes the rows, and memory is behind by an epoch.
LEMMA EndBlockDueInv ==
  ASSUME IInv, EndBlockDue
  PROVE  IInv'
<1> DEFINE n == count["statements"]
           b == EndEpoch(mem.info, tx.br)
<1>1. /\ CanWrite /\ phase \in {"exec", "resolve"} /\ Due(mem.info, tx.br)
      /\ tx' = [tx EXCEPT !.br = b] /\ phase' = "hook"
      /\ UNCHANGED <<db, mem, reader, poller, polled, drift, signers, count>>
  BY DEF EndBlockDue, voting
<1>2. /\ CatAgrees(mem.cat, tx.cat) /\ Cached(mem.info, tx.br) /\ Paced(tx.br, n)
      /\ n \in Nat /\ tx = [cat |-> tx.cat, br |-> tx.br]
  BY <1>1, BeforeStatement
<1>3. /\ BridgeOK(b) /\ Paced(b, n) /\ b.exists
      /\ b.synced = tx.br.synced /\ b.active = tx.br.active
      /\ b.network = tx.br.network /\ Len(b.epochs) = Len(tx.br.epochs) + 1
  BY <1>1, <1>2, EndEpochKeeps
<1> HIDE DEF b
<1>4. tx' = [cat |-> tx.cat, br |-> b]
  BY <1>1, <1>2
<1>5. tx'.cat = tx.cat /\ tx'.br = b /\ tx' = [cat |-> tx'.cat, br |-> tx'.br]
  BY <1>4
<1>6. InfoAgrees(mem.info, b, "hook")
  <2>1. mem.info.exists BY <1>1 DEF Due
  <2>2. Len(tx.br.epochs) \in Nat BY <1>2 DEF Cached, BridgeOK, BrRows
  <2>3. Len(b.epochs) - 1 = Len(tx.br.epochs)
    BY <1>3, <2>2
  <2> QED BY <1>2, <1>3, <2>1, <2>3 DEF Cached, InfoAgrees
<1>7. RowsInv'
  BY <1>1, <1>2, <1>3, <1>5 DEF IInv, RowsInv, RowInv
<1>8. MemInv'
  BY <1>1, <1>2, <1>5, <1>6 DEF IInv, MemInv
<1>9. PhaseInv' /\ RestInv'
  BY <1>1 DEF IInv, PhaseInv, Phases, RestInv
<1> QED BY <1>7, <1>8, <1>9 DEF IInv

\* Memory catches up with the hook.
LEMMA HookMemoryInv ==
  ASSUME IInv, HookMemory
  PROVE  IInv'
<1> DEFINE l == Len(tx.br.epochs)
<1>1. /\ phase = "hook" /\ phase' = "done" /\ mem' = [mem EXCEPT !.info.epoch = l]
      /\ UNCHANGED <<db, tx, reader, poller, polled, drift, signers, count>>
  BY DEF HookMemory, voting
<1>2. MemOK(mem) BY DEF IInv, MemInv
<1>3. l \in Nat BY DEF IInv, RowsInv, RowInv, BridgeOK, BrRows
<1> HIDE DEF l
<1> DEFINE i == [mem.info EXCEPT !.epoch = l]
<1>4. mem' = [cat |-> mem.cat, info |-> i]
  BY <1>1, <1>2 DEF MemOK
<1>5. /\ i \in Infos /\ i.epoch = l /\ i.exists = mem.info.exists
      /\ i.active = mem.info.active /\ i.synced = mem.info.synced
      /\ i.network = mem.info.network
  BY <1>2, <1>3 DEF MemOK, Infos
<1> HIDE DEF i
<1>6. mem'.cat = mem.cat /\ mem'.info = i /\ MemOK(mem')
  BY <1>2, <1>4, <1>5 DEF MemOK
<1>7. RowsInv'
  BY <1>1 DEF IInv, RowsInv
<1>8. MemInv'
  BY <1>1, <1>5, <1>6 DEF IInv, MemInv, InfoAgrees, l
<1>9. PhaseInv' /\ RestInv'
  BY <1>1 DEF IInv, PhaseInv, Phases, RestInv
<1> QED BY <1>7, <1>8, <1>9 DEF IInv

\* The block ends without a hook, or is committed.
LEMMA EndBlockInv ==
  ASSUME IInv, EndBlock \/ Commit
  PROVE  IInv'
<1>1. /\ phase \notin {"sync", "orphan", "hook"} /\ phase' \in {"done", "exec"}
      /\ db' \in {db, tx}
      /\ UNCHANGED <<tx, mem, reader, poller, polled, drift, signers, count>>
  BY DEF EndBlock, Commit, voting
<1>3. RowsInv'
  BY <1>1 DEF IInv, RowsInv
<1>4. MemInv'
  BY <1>1 DEF IInv, MemInv, InfoAgrees
<1>5. PhaseInv' /\ RestInv'
  BY <1>1 DEF IInv, PhaseInv, Phases, RestInv
<1> QED BY <1>3, <1>4, <1>5 DEF IInv

\* Rows that memory agrees with as a whole
LEMMA AgreementParts ==
  ASSUME NEW m, MemOK(m), NEW rows, NEW n, RowInv(rows, n), NEW ph,
         ph \notin {"sync", "orphan", "hook"}
  PROVE  Agrees(m, rows) <=>
           CatAgrees(m.cat, rows.cat) /\ InfoAgrees(m.info, rows.br, ph)
<1>1. Agrees(m, rows) <=> CatAgrees(m.cat, rows.cat) /\ m.info = LoadInfo(rows.br)
  BY AgreesByParts DEF MemOK, RowInv
<1>2. m.info = LoadInfo(rows.br) <=> InfoAgrees(m.info, rows.br, ph)
  BY InfoLoaded DEF MemOK, RowInv
<1> QED BY <1>1, <1>2

\* A rollback leaves memory as it is: if it differs from the rows, that is drift.
LEMMA RollbackInv ==
  ASSUME IInv, Rollback
  PROVE  IInv'
<1> DEFINE n == count["statements"]
<1>1. /\ tx' = db /\ phase' = "exec"
      /\ drift' = IF Agrees(mem, db) THEN {} ELSE {"rollback"}
      /\ Used("rollbacks")
      /\ UNCHANGED <<db, mem, reader, poller, polled, signers>>
  BY DEF Rollback
<1>2. count'["statements"] = n /\ count' \in [Bounds -> Nat]
  BY <1>1, OtherCounted DEF IInv, Bounds
<1>3. Agrees(mem, db) => CatAgrees(mem.cat, db.cat) /\ InfoAgrees(mem.info, db.br, "exec")
  BY AgreementParts DEF IInv, RowsInv, MemInv
<1>4. RowsInv'
  BY <1>1, <1>2 DEF IInv, RowsInv
<1>5. MemInv'
  BY <1>1, <1>3 DEF IInv, MemInv
<1>6. PhaseInv'
  BY <1>1 DEF PhaseInv, Phases
<1>7. RestInv'
  BY <1>1, <1>2 DEF IInv, RestInv
<1> QED BY <1>4, <1>5, <1>6, <1>7 DEF IInv

\* A restart reads memory from the rows.
LEMMA RestartInv ==
  ASSUME IInv, Restart
  PROVE  IInv'
<1> DEFINE n == count["statements"]
           loaded == Load(db)
<1>1. /\ tx' = db /\ mem' = loaded /\ phase' = "exec" /\ reader' = NoCopy
      /\ drift' = {}
      /\ poller' = PollerOf(loaded.info)
      /\ signers' = IF Usable(loaded.info) THEN signers \union {Self} ELSE signers \ {Self}
      /\ UNCHANGED <<db, polled>>
      /\ count' = count \/ Used("restarts")
  BY DEF Restart
<1>2. count'["statements"] = n /\ count' \in [Bounds -> Nat]
  BY <1>1, OtherCounted DEF IInv, Bounds, RestInv
<1>3. /\ loaded.cat = LoadCatalogue(db.cat) /\ loaded.info = LoadInfo(db.br)
      /\ loaded = [cat |-> loaded.cat, info |-> loaded.info]
  BY DEF Load
<1>4. RowInv(db, n) BY DEF IInv, RowsInv
<1> HIDE DEF loaded
<1>5. CatAgrees(loaded.cat, db.cat)
  BY <1>3, <1>4, LoadAgrees DEF RowInv
<1>6. loaded.info \in Infos
  BY <1>3, <1>4, LoadInfoType DEF RowInv
<1>7. InfoAgrees(loaded.info, db.br, "exec")
  BY <1>3, <1>4, <1>6, InfoLoaded DEF RowInv
<1>8. MemOK(loaded)
  BY <1>3, <1>5, <1>6 DEF MemOK, CatAgrees
<1>9. RowsInv'
  BY <1>1, <1>2, <1>4 DEF RowsInv
<1>10. MemInv'
  BY <1>1, <1>5, <1>7, <1>8 DEF MemInv
<1>11. PhaseInv'
  BY <1>1 DEF PhaseInv, Phases
<1>12. RestInv'
  <2>1. poller' \in BOOLEAN BY <1>1, <1>6 DEF PollerOf, Infos
  <2>2. signers' \subseteq Validators BY <1>1, EngineAssumption DEF IInv, RestInv
  <2> QED BY <1>1, <1>2, <2>1, <2>2 DEF IInv, RestInv
<1> QED BY <1>9, <1>10, <1>11, <1>12 DEF IInv

\* A failed read puts its copy back; that is drift unless memory is unchanged.
LEMMA ReadInv ==
  ASSUME IInv, ReadBegins \/ ReadFails
  PROVE  IInv'
<1>1. CASE ReadBegins
  BY <1>1 DEF ReadBegins, IInv, RowsInv, MemInv, PhaseInv, RestInv, voting
<1>2. CASE ReadFails
  <2>1. /\ reader # NoCopy /\ mem' = reader /\ reader' = NoCopy
        /\ drift' = drift \union (IF mem = reader THEN {} ELSE {"race"})
        /\ phase' = IF phase = "sync" THEN "orphan" ELSE phase
        /\ UNCHANGED <<db, tx, poller, polled, signers, count>>
    BY <1>2 DEF ReadFails, voting
  <2>2. MemOK(mem') BY <2>1 DEF IInv, MemInv
  <2>3. ASSUME drift' = {}
        PROVE  CatAgrees(mem'.cat, tx'.cat) /\ InfoAgrees(mem'.info, tx'.br, phase')
    <3>1. drift = {} /\ mem' = mem
      BY <2>1, <2>3
    <3> QED BY <2>1, <3>1 DEF IInv, MemInv, InfoAgrees
  <2>4. MemInv' BY <2>1, <2>2, <2>3 DEF MemInv
  <2>5. RowsInv' BY <2>1 DEF IInv, RowsInv
  <2>6. PhaseInv' BY <2>1 DEF IInv, PhaseInv, Phases
  <2>7. RestInv' BY <2>1 DEF IInv, RestInv
  <2> QED BY <2>4, <2>5, <2>6, <2>7 DEF IInv
<1> QED BY <1>1, <1>2

\* The invariant is inductive.
LEMMA NextInv == IInv /\ [Next]_vars => IInv'
<1> SUFFICES ASSUME IInv, [Next]_vars PROVE IInv' OBVIOUS
<1>1. CASE UNCHANGED vars
  BY <1>1 DEF vars, voting, IInv, RowsInv, MemInv, PhaseInv, RestInv
<1>2. CASE RoleStatement \/ PrivilegeStatement \/ MemberStatement
           \/ OwnerStatement \/ NamespaceStatement
  BY <1>2, StatementsInv
<1>3. CASE UseStatement
  BY <1>3, UseInv, UnuseInv DEF UseStatement
<1>4. CASE BridgeCall
  BY <1>4, BridgeCallInv
<1>5. CASE \E v \in Validators :
             \/ HasVoted(v) \/ SignAndVote(v) \/ VoteRefused(v)
             \/ VoteCommitted(v) \/ VoteTimesOut(v) \/ RestartValidator(v)
  BY <1>5, SignerInv
<1>6. CASE \E v \in Validators : ExecuteVote(v) BY <1>6, ExecuteVoteInv
<1>7. CASE PollState BY <1>7, PollStateInv
<1>8. CASE ResolveDeposit BY <1>8, ResolveDepositInv
<1>9. CASE SyncRows BY <1>9, SyncRowsInv
<1>10. CASE SyncMemory BY <1>10, SyncMemoryInv
<1>11. CASE EndBlockDue BY <1>11, EndBlockDueInv
<1>12. CASE HookMemory BY <1>12, HookMemoryInv
<1>13. CASE EndBlock \/ Commit BY <1>13, EndBlockInv
<1>14. CASE Rollback BY <1>14, RollbackInv
<1>15. CASE Restart BY <1>15, RestartInv
<1>16. CASE ReadBegins \/ ReadFails BY <1>16, ReadInv
<1> QED BY <1>1, <1>2, <1>3, <1>4, <1>5, <1>6, <1>7, <1>8, <1>9, <1>10, <1>11,
           <1>12, <1>13, <1>14, <1>15, <1>16 DEF Next

-----------------------------------------------------------------------------
(* Theorems *)

\* Rows and memory of the engine keep the inductive invariant, whatever is
\* executed, rolled back, replayed, restarted or read meanwhile.
THEOREM Inductive == Spec => []IInv
  BY InitInv, NextInv, PTL DEF Spec

-----------------------------------------------------------------------------
(* The signers and their votes *)

SignInv ==
    /\ local \in [Validators -> Nat] /\ nonce \in [Validators -> Nat]
    /\ waiting \in [Validators -> Votes \union {NoVote}]
    /\ pool \subseteq Votes /\ ran \subseteq pool /\ IsFiniteSet(pool)

\* The pending transactions of an account can be counted.
LEMMA PendingCounted ==
  ASSUME SignInv, NEW v \in Validators, NEW S, S \subseteq PendingOf(v)
  PROVE  Cardinality(S) \in Nat
<1>1. S \subseteq pool BY DEF PendingOf
<1> QED BY <1>1, FS_Subset, FS_CardinalityType DEF SignInv

LEMMA NoncesCounted ==
  ASSUME SignInv, NEW v \in Validators
  PROVE  /\ NextNonce(v) \in Nat /\ NextNonce(v) + 1 \in Nat
         /\ ResyncedNonce(v) \in Nat
  BY DEF SignInv, NextNonce, ResyncedNonce

\* A new signer has nothing.
LEMMA ForgetKeeps ==
  ASSUME SignInv, NEW V, Forget(V)
  PROVE  /\ local' \in [Validators -> Nat]
         /\ waiting' \in [Validators -> Votes \union {NoVote}]
  BY DEF SignInv, Forget

\* What a stop of a node leaves in the mempools
LEMMA StopKeeps ==
  ASSUME SignInv, NEW v, NEW p \in AfterStop(v)
  PROVE  p \subseteq Votes /\ ran \subseteq p /\ IsFiniteSet(p)
<1>1. p \subseteq pool /\ ran \subseteq p
  BY DEF AfterStop, SignInv
<1> QED BY <1>1, FS_Subset DEF SignInv

\* A vote that is sent names an epoch within the bound.
LEMMA VoteSent ==
  ASSUME IInv, SignInv, NEW v \in Validators, SignAndVote(v)
  PROVE  SignInv'
<1>1. PICK k \in DOMAIN db.br.epochs :
        LET vote == [by |-> v, epoch |-> k, nonce |-> NextNonce(v)]
            admitted == NextNonce(v) = Expected(v)
        IN  /\ local' = [local EXCEPT ![v] = IF admitted THEN NextNonce(v) + 1
                                             ELSE ResyncedNonce(v)]
            /\ waiting' = IF admitted THEN [waiting EXCEPT ![v] = vote] ELSE waiting
            /\ pool' = IF admitted THEN pool \union {vote} ELSE pool
            /\ UNCHANGED <<nonce, ran>>
  BY DEF SignAndVote
<1> DEFINE vote == [by |-> v, epoch |-> k, nonce |-> NextNonce(v)]
           admitted == NextNonce(v) = Expected(v)
<1>2. k \in 1..MaxStatements + 1
  <2> DEFINE l == Len(db.br.epochs)
             p == IF l > 0 /\ db.br.epochs[l].paid > 0 THEN 1 ELSE 0
  <2>1. k \in 1..l /\ l \in Nat /\ p \in {0, 1}
    BY DEF IInv, RowsInv, RowInv, BridgeOK, BrRows
  <2>2. l + p <= count["statements"]
    BY DEF IInv, RowsInv, RowInv, Paced
  <2>3. count["statements"] \in Nat /\ count["statements"] <= MaxStatements
        /\ MaxStatements \in Nat
    BY EngineAssumption DEF IInv, RestInv, Bounds
  <2> HIDE DEF l, p
  <2> QED BY <2>1, <2>2, <2>3
<1>3. NextNonce(v) \in Nat /\ NextNonce(v) + 1 \in Nat /\ ResyncedNonce(v) \in Nat
  BY NoncesCounted
<1>4. vote \in Votes
  BY <1>2, <1>3 DEF Votes
<1>5. /\ local' = [local EXCEPT ![v] = IF admitted THEN NextNonce(v) + 1
                                       ELSE ResyncedNonce(v)]
      /\ waiting' = IF admitted THEN [waiting EXCEPT ![v] = vote] ELSE waiting
      /\ pool' = IF admitted THEN pool \union {vote} ELSE pool
      /\ UNCHANGED <<nonce, ran>>
  BY <1>1
<1> HIDE DEF vote, admitted
<1>6. local' \in [Validators -> Nat]
  BY <1>3, <1>5 DEF SignInv
<1>7. waiting' \in [Validators -> Votes \union {NoVote}]
  BY <1>4, <1>5 DEF SignInv
<1>8. pool' \subseteq Votes /\ ran' \subseteq pool' /\ IsFiniteSet(pool')
  <2>1. IsFiniteSet(pool \union {vote})
    BY FS_AddElement DEF SignInv
  <2> QED BY <1>4, <1>5, <2>1 DEF SignInv
<1> QED BY <1>5, <1>6, <1>7, <1>8 DEF SignInv

\* The other steps of a signer
LEMMA SignerKeeps ==
  ASSUME SignInv, NEW v \in Validators,
         \/ HasVoted(v) \/ VoteRefused(v) \/ VoteCommitted(v) \/ VoteTimesOut(v)
         \/ ExecuteVote(v) \/ RestartValidator(v)
  PROVE  SignInv'
<1>1. CASE HasVoted(v)
  BY <1>1 DEF HasVoted, SignInv
<1>2. CASE VoteRefused(v)
  <2>1. NextNonce(v) + 1 \in Nat BY NoncesCounted
  <2> QED BY <1>2, <2>1 DEF VoteRefused, SignInv
<1>3. CASE VoteCommitted(v) \/ VoteTimesOut(v)
  BY <1>3 DEF VoteCommitted, VoteTimesOut, SignInv
<1>4. CASE ExecuteVote(v)
  BY <1>4 DEF ExecuteVote, PendingOf, SignInv
<1>5. CASE RestartValidator(v)
  <2>1. Forget({v}) /\ pool' \in AfterStop(v) /\ UNCHANGED <<nonce, ran>>
    BY <1>5 DEF RestartValidator
  <2>2. /\ local' \in [Validators -> Nat]
        /\ waiting' \in [Validators -> Votes \union {NoVote}]
    BY <2>1, ForgetKeeps
  <2>3. pool' \subseteq Votes /\ ran \subseteq pool' /\ IsFiniteSet(pool')
    BY <2>1, StopKeeps
  <2> QED BY <2>1, <2>2, <2>3 DEF SignInv
<1> QED BY <1>1, <1>2, <1>3, <1>4, <1>5

\* A committed block counts its votes in the accounts' nonces.
LEMMA CommitSigned ==
  ASSUME SignInv, Commit
  PROVE  SignInv'
<1>1. \A v \in Validators : Cardinality(PendingOf(v) \cap ran) \in Nat
  BY PendingCounted
<1>2. nonce' \in [Validators -> Nat]
  BY <1>1 DEF Commit, SignInv
<1>3. IsFiniteSet(pool') /\ pool' \subseteq Votes /\ ran' \subseteq pool'
  BY FS_Subset DEF Commit, SignInv
<1> QED BY <1>2, <1>3 DEF Commit, SignInv

\* No step makes a signer or the mempools ill-formed.
LEMMA NextSigned == IInv /\ SignInv /\ [Next]_vars => SignInv'
<1> SUFFICES ASSUME IInv, SignInv, [Next]_vars PROVE SignInv' OBVIOUS
<1>1. ASSUME UNCHANGED voting PROVE SignInv'
  BY <1>1 DEF voting, SignInv
<1>2. CASE UNCHANGED vars
  BY <1>1, <1>2 DEF vars
<1>3. CASE RoleStatement \/ PrivilegeStatement \/ MemberStatement
           \/ OwnerStatement \/ NamespaceStatement
  BY <1>1, <1>3 DEF RoleStatement, PrivilegeStatement, MemberStatement,
       OwnerStatement, NamespaceStatement, Executes
<1>4. CASE BridgeCall
  BY <1>1, <1>4 DEF BridgeCall, Calls
<1>5. CASE UseStatement
  <2>1. ASSUME NEW caller, NEW ns, NEW fails, Use(caller, ns, fails) PROVE SignInv'
    BY <1>1, <2>1 DEF Use
  <2>2. ASSUME NEW caller, NEW ns, NEW fails, Unuse(caller, ns, fails) PROVE SignInv'
    <3>1. /\ UNCHANGED <<nonce, pool, ran>>
          /\ Forget(Validators) \/ UNCHANGED <<local, waiting>>
      BY <2>2 DEF Unuse
    <3>2. /\ local' \in [Validators -> Nat]
          /\ waiting' \in [Validators -> Votes \union {NoVote}]
      BY <3>1, ForgetKeeps DEF SignInv
    <3> QED BY <3>1, <3>2 DEF SignInv
  <2> QED BY <1>5, <2>1, <2>2 DEF UseStatement
<1>6. CASE \E v \in Validators :
             \/ HasVoted(v) \/ SignAndVote(v) \/ VoteRefused(v)
             \/ VoteCommitted(v) \/ VoteTimesOut(v)
             \/ ExecuteVote(v) \/ RestartValidator(v)
  BY <1>6, VoteSent, SignerKeeps
<1>7. CASE PollState \/ ResolveDeposit \/ SyncRows \/ SyncMemory \/ EndBlockDue
           \/ HookMemory \/ EndBlock \/ ReadBegins \/ ReadFails
  BY <1>1, <1>7 DEF PollState, ResolveDeposit, SyncRows, SyncMemory, EndBlockDue,
       HookMemory, EndBlock, ReadBegins, ReadFails
<1>8. CASE Commit BY <1>8, CommitSigned
<1>9. CASE Rollback
  BY <1>9 DEF Rollback, SignInv
<1>10. CASE Restart
  <2>1. Forget({Self}) /\ pool' \in AfterStop(Self) /\ nonce' = nonce /\ ran' = {}
    BY <1>10 DEF Restart
  <2>2. /\ local' \in [Validators -> Nat]
        /\ waiting' \in [Validators -> Votes \union {NoVote}]
    BY <2>1, ForgetKeeps
  <2>3. pool' \subseteq Votes /\ IsFiniteSet(pool')
    BY <2>1, StopKeeps
  <2> QED BY <2>1, <2>2, <2>3 DEF SignInv
<1> QED BY <1>2, <1>3, <1>4, <1>5, <1>6, <1>7, <1>8, <1>9, <1>10 DEF Next

\* Signers and mempools are well formed: a vote in a block is one in the mempool,
\* for an epoch within the bound.
LEMMA SignersKept == Spec => []SignInv
<1>1. Init => SignInv
  BY FS_EmptySet DEF Init, SignInv
<1> QED BY <1>1, NextSigned, Inductive, PTL DEF Spec

\* Rows, memory and signers stay well formed: privileges and members name roles
\* that exist, no balance goes below zero, and a vote in a block is one in the
\* mempool.
THEOREM TypesKept == Spec => []TypeOK
<1>1. IInv /\ SignInv => TypeOK
  <2> SUFFICES ASSUME IInv, SignInv PROVE TypeOK OBVIOUS
  <2>1. ASSUME NEW rows, NEW n, RowInv(rows, n) PROVE RowsOK(rows)
    BY <2>1 DEF RowInv, RowsOK, CatRowsOK, BridgeOK, BrRows, Scopes
  <2>2. RowsOK(db) /\ RowsOK(tx) BY <2>1 DEF IInv, RowsInv
  <2>3. /\ DOMAIN mem.cat.spaces \subseteq Spaces
        /\ \A role \in DOMAIN mem.cat.perms : mem.cat.perms[role] \in Perms
        /\ mem.info.network \in Nat
        /\ reader # NoCopy => reader.cat.spaces = mem.cat.spaces
    BY DEF IInv, MemInv, MemOK, CatOK, Infos
  <2> QED BY <2>2, <2>3 DEF IInv, RestInv, PhaseInv, SignInv, TypeOK
<1> QED BY <1>1, Inductive, SignersKept, PTL

-----------------------------------------------------------------------------
(* What a reload decides *)

\* Two catalogues that give every user the same roles, every role the same
\* privileges and have the same namespaces
SameCatalogue(c, d) ==
    /\ c.spaces = d.spaces /\ c.perms = d.perms
    /\ \A u : RolesOf(c, u) = RolesOf(d, u)

\* A user with a role has a list, in memory as after a reload.
LEMMA HeldInBoth ==
  ASSUME NEW c, NEW d, SameCatalogue(c, d), NEW u, RolesOf(c, u) # {}
  PROVE  u \in DOMAIN c.users /\ u \in DOMAIN d.users
         /\ c.users[u] = d.users[u]
  BY DEF SameCatalogue, RolesOf

\* A reload decides every statement of the catalogue as memory does, but for the
\* one REVOKE.
LEMMA ReloadDecides ==
  ASSUME NEW c, NEW d, NEW r, SameCatalogue(c, d)
  PROVE  DecidesAlike(c, d, r)
<1>0. /\ c.spaces = d.spaces /\ c.perms = d.perms
      /\ \A u : RolesOf(c, u) = RolesOf(d, u) /\ (IsOwner(c, u) <=> IsOwner(d, u))
  BY DEF SameCatalogue, IsOwner
<1>1. ASSUME NEW caller, NEW role
     PROVE  CreateRole(c, r, caller, role).ok = CreateRole(d, r, caller, role).ok
  <2> DEFINE g(x) == /\ IsOwner(x, caller)
                     /\ role # Default
                     /\ role \notin DOMAIN x.perms
  <2>1. g(c) <=> g(d) BY <1>0
  <2>2. CASE g(c) /\ g(d)
    <3>1. CreateRole(c, r, caller, role).ok = TRUE
      BY <2>2 DEF CreateRole, Result
    <3>2. CreateRole(d, r, caller, role).ok = TRUE
      BY <2>2 DEF CreateRole, Result
    <3> QED BY <3>1, <3>2
  <2>3. CASE ~g(c) /\ ~g(d)
    <3>1. CreateRole(c, r, caller, role) = Refused
      BY <2>3 DEF CreateRole, Result
    <3>2. CreateRole(d, r, caller, role) = Refused
      BY <2>3 DEF CreateRole, Result
    <3> QED BY <3>1, <3>2
  <2> QED BY <2>1, <2>2, <2>3
<1>2. ASSUME NEW caller, NEW role
     PROVE  DeleteRole(c, r, caller, role).ok = DeleteRole(d, r, caller, role).ok
  <2> DEFINE g(x) == /\ IsOwner(x, caller)
                     /\ role # Default
                     /\ role \in DOMAIN x.perms
  <2>1. g(c) <=> g(d) BY <1>0
  <2>2. CASE g(c) /\ g(d)
    <3>1. DeleteRole(c, r, caller, role).ok = TRUE
      BY <2>2 DEF DeleteRole, Result
    <3>2. DeleteRole(d, r, caller, role).ok = TRUE
      BY <2>2 DEF DeleteRole, Result
    <3> QED BY <3>1, <3>2
  <2>3. CASE ~g(c) /\ ~g(d)
    <3>1. DeleteRole(c, r, caller, role) = Refused
      BY <2>3 DEF DeleteRole, Result
    <3>2. DeleteRole(d, r, caller, role) = Refused
      BY <2>3 DEF DeleteRole, Result
    <3> QED BY <3>1, <3>2
  <2> QED BY <2>1, <2>2, <2>3
<1>3. ASSUME NEW caller, NEW role, NEW ns, NEW if
     PROVE  GrantPrivileges(c, r, caller, role, ns, if).ok
              = GrantPrivileges(d, r, caller, role, ns, if).ok
  <2> DEFINE g(x) == /\ IsOwner(x, caller)
                     /\ role \in DOMAIN x.perms
                     /\ ns \in DOMAIN x.spaces \union {Everywhere}
                     /\ if \/ ~CanDo(x.perms[role], ns)
  <2>1. g(c) <=> g(d) BY <1>0
  <2>2. CASE g(c) /\ g(d)
    <3>1. GrantPrivileges(c, r, caller, role, ns, if).ok = TRUE
      BY <2>2 DEF GrantPrivileges, Result
    <3>2. GrantPrivileges(d, r, caller, role, ns, if).ok = TRUE
      BY <2>2 DEF GrantPrivileges, Result
    <3> QED BY <3>1, <3>2
  <2>3. CASE ~g(c) /\ ~g(d)
    <3>1. GrantPrivileges(c, r, caller, role, ns, if) = Refused
      BY <2>3 DEF GrantPrivileges, Result
    <3>2. GrantPrivileges(d, r, caller, role, ns, if) = Refused
      BY <2>3 DEF GrantPrivileges, Result
    <3> QED BY <3>1, <3>2
  <2> QED BY <2>1, <2>2, <2>3
<1>4. ASSUME NEW caller, NEW role, NEW ns, NEW if
     PROVE  RevokePrivileges(c, r, caller, role, ns, if).ok
              = RevokePrivileges(d, r, caller, role, ns, if).ok
  <2> DEFINE g(x) == /\ IsOwner(x, caller)
                     /\ role \in DOMAIN x.perms
                     /\ ns \in DOMAIN x.spaces \union {Everywhere}
                     /\ if \/ CanDo(x.perms[role], ns)
  <2>1. g(c) <=> g(d) BY <1>0
  <2>2. CASE g(c) /\ g(d)
    <3>1. RevokePrivileges(c, r, caller, role, ns, if).ok = TRUE
      BY <2>2 DEF RevokePrivileges, Result
    <3>2. RevokePrivileges(d, r, caller, role, ns, if).ok = TRUE
      BY <2>2 DEF RevokePrivileges, Result
    <3> QED BY <3>1, <3>2
  <2>3. CASE ~g(c) /\ ~g(d)
    <3>1. RevokePrivileges(c, r, caller, role, ns, if) = Refused
      BY <2>3 DEF RevokePrivileges, Result
    <3>2. RevokePrivileges(d, r, caller, role, ns, if) = Refused
      BY <2>3 DEF RevokePrivileges, Result
    <3> QED BY <3>1, <3>2
  <2> QED BY <2>1, <2>2, <2>3
<1>5. ASSUME NEW caller, NEW role, NEW u, NEW if
     PROVE  AssignRole(c, r, caller, role, u, if).ok
              = AssignRole(d, r, caller, role, u, if).ok
  <2> DEFINE g(x) == /\ IsOwner(x, caller)
                     /\ role # Default
                     /\ role \in DOMAIN x.perms
                     /\ if \/ role \notin RolesOf(x, u)
  <2>1. g(c) <=> g(d) BY <1>0
  <2>2. CASE g(c) /\ g(d)
    <3>1. AssignRole(c, r, caller, role, u, if).ok = TRUE
      BY <2>2 DEF AssignRole, Result
    <3>2. AssignRole(d, r, caller, role, u, if).ok = TRUE
      BY <2>2 DEF AssignRole, Result
    <3> QED BY <3>1, <3>2
  <2>3. CASE ~g(c) /\ ~g(d)
    <3>1. AssignRole(c, r, caller, role, u, if) = Refused
      BY <2>3 DEF AssignRole, Result
    <3>2. AssignRole(d, r, caller, role, u, if) = Refused
      BY <2>3 DEF AssignRole, Result
    <3> QED BY <3>1, <3>2
  <2> QED BY <2>1, <2>2, <2>3
<1>6. ASSUME NEW caller, NEW u
     PROVE  TransferOwnership(c, r, caller, u).ok = TransferOwnership(d, r, caller, u).ok
  <2> DEFINE g(x) == IsOwner(x, caller)
  <2>1. g(c) <=> g(d) BY <1>0
  <2>2. CASE g(c) /\ g(d)
    <3>1. TransferOwnership(c, r, caller, u).ok = TRUE
      BY <2>2 DEF TransferOwnership, Result
    <3>2. TransferOwnership(d, r, caller, u).ok = TRUE
      BY <2>2 DEF TransferOwnership, Result
    <3> QED BY <3>1, <3>2
  <2>3. CASE ~g(c) /\ ~g(d)
    <3>1. TransferOwnership(c, r, caller, u) = Refused
      BY <2>3 DEF TransferOwnership, Result
    <3>2. TransferOwnership(d, r, caller, u) = Refused
      BY <2>3 DEF TransferOwnership, Result
    <3> QED BY <3>1, <3>2
  <2> QED BY <2>1, <2>2, <2>3
<1>7. ASSUME NEW caller, NEW ns
     PROVE  CreateNamespace(c, r, caller, ns).ok = CreateNamespace(d, r, caller, ns).ok
  <2> DEFINE g(x) == /\ HasPrivilege(x, caller, Main)
                     /\ ns \notin DOMAIN x.spaces
  <2>1. g(c) <=> g(d) BY <1>0 DEF HasPrivilege
  <2>2. CASE g(c) /\ g(d)
    <3>1. CreateNamespace(c, r, caller, ns).ok = TRUE
      BY <2>2 DEF CreateNamespace, Result
    <3>2. CreateNamespace(d, r, caller, ns).ok = TRUE
      BY <2>2 DEF CreateNamespace, Result
    <3> QED BY <3>1, <3>2
  <2>3. CASE ~g(c) /\ ~g(d)
    <3>1. CreateNamespace(c, r, caller, ns) = Refused
      BY <2>3 DEF CreateNamespace, Result
    <3>2. CreateNamespace(d, r, caller, ns) = Refused
      BY <2>3 DEF CreateNamespace, Result
    <3> QED BY <3>1, <3>2
  <2> QED BY <2>1, <2>2, <2>3
<1>8. ASSUME NEW caller, NEW ns
     PROVE  DropNamespace(c, r, caller, ns).ok = DropNamespace(d, r, caller, ns).ok
  <2> DEFINE g(x) == /\ IsOwner(x, caller)
                     /\ ns \in DOMAIN x.spaces
                     /\ ns # Main
                     /\ x.spaces[ns] # "extension"
  <2>1. g(c) <=> g(d) BY <1>0
  <2>2. CASE g(c) /\ g(d)
    <3>1. DropNamespace(c, r, caller, ns).ok = TRUE
      BY <2>2 DEF DropNamespace, Result
    <3>2. DropNamespace(d, r, caller, ns).ok = TRUE
      BY <2>2 DEF DropNamespace, Result
    <3> QED BY <3>1, <3>2
  <2>3. CASE ~g(c) /\ ~g(d)
    <3>1. DropNamespace(c, r, caller, ns) = Refused
      BY <2>3 DEF DropNamespace, Result
    <3>2. DropNamespace(d, r, caller, ns) = Refused
      BY <2>3 DEF DropNamespace, Result
    <3> QED BY <3>1, <3>2
  <2> QED BY <2>1, <2>2, <2>3
<1>9. ASSUME NEW caller, NEW role, NEW u, NEW if, if => RolesOf(c, u) # {}
     PROVE  UnassignRole(c, r, caller, role, u, if).ok
              = UnassignRole(d, r, caller, role, u, if).ok
  <2> DEFINE g(x) == /\ IsOwner(x, caller)
                     /\ role # Default
                     /\ role \in DOMAIN x.perms
                     /\ u \in DOMAIN x.users
                     /\ if \/ role \in x.users[u]
  <2>1. g(c) <=> g(d)
    <3>1. CASE RolesOf(c, u) # {}
      BY <1>0, <3>1, HeldInBoth
    <3>2. CASE RolesOf(c, u) = {}
      BY <1>0, <1>9, <3>2 DEF RolesOf
    <3> QED BY <3>1, <3>2
  <2>2. CASE g(c) /\ g(d)
    <3>1. UnassignRole(c, r, caller, role, u, if).ok = TRUE
      BY <2>2 DEF UnassignRole, Result
    <3>2. UnassignRole(d, r, caller, role, u, if).ok = TRUE
      BY <2>2 DEF UnassignRole, Result
    <3> QED BY <3>1, <3>2
  <2>3. CASE ~g(c) /\ ~g(d)
    <3>1. UnassignRole(c, r, caller, role, u, if) = Refused
      BY <2>3 DEF UnassignRole, Result
    <3>2. UnassignRole(d, r, caller, role, u, if) = Refused
      BY <2>3 DEF UnassignRole, Result
    <3> QED BY <3>1, <3>2
  <2> QED BY <2>1, <2>2, <2>3
<1>10. ASSUME NEW u \in Users
       PROVE  /\ RevokesAlike(c, d, r, u, FALSE)
              /\ RolesOf(c, u) # {} => RevokesAlike(c, d, r, u, TRUE)
  BY <1>9 DEF RevokesAlike
<1> QED BY <1>1, <1>2, <1>3, <1>4, <1>5, <1>6, <1>7, <1>8, <1>10, Zenon DEF DecidesAlike

\* Agreement with a reload gives every user the same roles.
LEMMA AgreesSame ==
  ASSUME NEW m, MemOK(m), NEW rows, Agrees(m, rows)
  PROVE  SameCatalogue(m.cat, LoadCatalogue(rows.cat))
<1> DEFINE c == m.cat
           us == [u \in {x \in DOMAIN c.users : c.users[x] # {}} |-> c.users[u]]
           d == LoadCatalogue(rows.cat)
<1>1. c = [spaces |-> c.spaces, perms |-> c.perms, users |-> c.users]
      /\ m = [cat |-> c, info |-> m.info]
  BY DEF MemOK, CatOK
<1>2. [m EXCEPT !.cat.users = us] = [cat |-> d, info |-> LoadInfo(rows.br)]
  BY DEF Agrees, Load
<1> HIDE DEF us, d
<1>3. [m EXCEPT !.cat.users = us] = [cat |-> [c EXCEPT !.users = us], info |-> m.info]
  BY <1>1
<1>4. d = [c EXCEPT !.users = us]
  BY <1>2, <1>3
<1>5. d.spaces = c.spaces /\ d.perms = c.perms /\ d.users = us
  BY <1>1, <1>4
<1>6. \A u : RolesOf(c, u) = RolesOf(d, u)
  BY <1>5 DEF RolesOf, us
<1> QED BY <1>5, <1>6 DEF SameCatalogue, d

\* A node that starts from the rows decides every statement of the catalogue as
\* one that kept running, but for REVOKE ... IF GRANTED of a user that lost the
\* last role; roles, privileges with their denials, namespaces, and the bridge's
\* flags, balance and epoch in memory are what newAccessController,
\* NewInterpreter and OnStart read.
THEOREM ReloadDecidesAlike == Spec => []LiveMatchesReload
<1>1. IInv => LiveMatchesReload
  <2> SUFFICES ASSUME IInv, Quiet
               PROVE  /\ Agrees(mem, tx)
                      /\ DecidesAlike(mem.cat, LoadCatalogue(tx.cat), tx.cat)
    BY DEF LiveMatchesReload
  <2>1. Agrees(mem, tx)
    BY AgreementParts DEF IInv, RowsInv, MemInv, Quiet
  <2>2. SameCatalogue(mem.cat, LoadCatalogue(tx.cat))
    BY <2>1, AgreesSame DEF IInv, MemInv
  <2> QED BY <2>1, <2>2, ReloadDecides
<1> QED BY <1>1, Inductive, PTL

\* Epochs are closed one at a time, under a root of all their rewards, and none
\* is confirmed with less than two thirds of the power, for every set of
\* validators and every power.
THEOREM EpochsAdvanceInTurn == Spec => []EpochsInTurn
<1>1. IInv => EpochsInTurn
  BY DEF IInv, RowsInv, RowInv, BridgeOK, EpochsInTurn
<1> QED BY <1>1, Inductive, PTL

-----------------------------------------------------------------------------
(* Conservation of tokens *)

PaidOf(br) == [k \in DOMAIN br.epochs |-> br.epochs[k].paid]

\* The sums are natural numbers.
LEMMA SumTypes ==
  ASSUME NEW br \in BrRows
  PROVE  /\ SumFunction(br.balance) \in Nat /\ SumFunction(PaidOf(br)) \in Nat
         /\ br.network \in Nat /\ br.deposited \in Nat
<1>1. br.balance \in [Holders -> Nat] /\ br.epochs \in Seq(EpochRows)
      /\ br.network \in Nat /\ br.deposited \in Nat
  BY DEF BrRows
<1>2. SumFunction(br.balance) \in Nat
  <2>1. DOMAIN br.balance = Holders /\ \A h \in Holders : br.balance[h] \in Nat
    BY <1>1
  <2>2. SumFunctionOnSet(br.balance, Holders) \in Nat
    BY <2>1, SumType, BridgeAssumption
  <2> QED BY <2>1, <2>2 DEF SumFunction
<1>3. SumFunction(PaidOf(br)) \in Nat
  <2> DEFINE es == br.epochs
             f == PaidOf(br)
  <2>1. IsFiniteSet(DOMAIN es) /\ \A k \in DOMAIN es : es[k].paid \in Nat
    <3>1. es \in Seq(EpochRows) BY <1>1
    <3> HIDE DEF es
    <3>2. DOMAIN es = 1..Len(es) /\ Len(es) \in Nat BY <3>1
    <3>3. \A k \in DOMAIN es : es[k] \in EpochRows BY <3>1
    <3> QED BY <3>2, <3>3, FS_Interval DEF EpochRows
  <2>2. DOMAIN f = DOMAIN es /\ \A k \in DOMAIN es : f[k] = es[k].paid
    BY DEF PaidOf
  <2> HIDE DEF f, es
  <2>3. SumFunctionOnSet(f, DOMAIN f) \in Nat
    BY <2>1, <2>2, SumType
  <2> QED BY <2>3 DEF SumFunction, f
<1> QED BY <1>1, <1>2, <1>3

\* Balances add up to a natural number.
LEMMA BalanceSum ==
  ASSUME NEW b \in [Holders -> Nat]
  PROVE  SumFunction(b) \in Nat
<1>1. DOMAIN b = Holders /\ \A h \in Holders : b[h] \in Nat
  OBVIOUS
<1>2. SumFunctionOnSet(b, Holders) \in Nat
  BY <1>1, SumType, BridgeAssumption
<1> QED BY <1>1, <1>2 DEF SumFunction

\* One balance written
LEMMA BalanceChanged ==
  ASSUME NEW b \in [Holders -> Nat], NEW h \in Holders, NEW v \in Nat
  PROVE  /\ [b EXCEPT ![h] = v] \in [Holders -> Nat]
         /\ SumFunction([b EXCEPT ![h] = v]) = SumFunction(b) - b[h] + v
<1> DEFINE c == [b EXCEPT ![h] = v]
<1>1. /\ DOMAIN b = Holders /\ DOMAIN c = Holders /\ c[h] = v /\ c \in [Holders -> Nat]
      /\ \A x \in Holders : b[x] \in Int /\ c[x] \in Int
      /\ \A x \in Holders : x # h => c[x] = b[x]
  OBVIOUS
<1> HIDE DEF c
<1>2. SumFunctionOnSet(c, Holders) = SumFunctionOnSet(b, Holders) - b[h] + c[h]
  BY <1>1, SumChanged, BridgeAssumption
<1> QED BY <1>1, <1>2 DEF SumFunction, c

\* One balance credited
LEMMA BalanceMore ==
  ASSUME NEW b \in [Holders -> Nat], NEW h \in Holders
  PROVE  /\ [b EXCEPT ![h] = @ + 1] \in [Holders -> Nat]
         /\ SumFunction([b EXCEPT ![h] = @ + 1]) = SumFunction(b) + 1
<1> DEFINE v == b[h] + 1
           m == b[h]
           u == SumFunction(b)
<1>1. v \in Nat OBVIOUS
<1>0. m \in Nat /\ v = m + 1 OBVIOUS
<1> HIDE DEF v
<1>2. /\ [b EXCEPT ![h] = v] \in [Holders -> Nat]
      /\ SumFunction([b EXCEPT ![h] = v]) = SumFunction(b) - b[h] + v
  BY <1>1, BalanceChanged
<1>3. u \in Int BY BalanceSum
<1> HIDE DEF u, m
<1>4. u - m + v = u + 1 BY <1>0, <1>3
<1> QED BY <1>2, <1>4 DEF u, m, v

\* One balance debited
LEMMA BalanceLess ==
  ASSUME NEW b \in [Holders -> Nat], NEW h \in Holders, b[h] >= 1
  PROVE  /\ [b EXCEPT ![h] = @ - 1] \in [Holders -> Nat]
         /\ SumFunction([b EXCEPT ![h] = @ - 1]) = SumFunction(b) + (-1)
<1> DEFINE v == b[h] - 1
           m == b[h]
           u == SumFunction(b)
<1>1. v \in Nat OBVIOUS
<1>0. m \in Nat /\ v = m - 1 OBVIOUS
<1> HIDE DEF v
<1>2. /\ [b EXCEPT ![h] = v] \in [Holders -> Nat]
      /\ SumFunction([b EXCEPT ![h] = v]) = SumFunction(b) - b[h] + v
  BY <1>1, BalanceChanged
<1>3. u \in Int BY BalanceSum
<1> HIDE DEF u, m
<1>4. u - m + v = u + (-1) BY <1>0, <1>3
<1> QED BY <1>2, <1>4 DEF u, m, v

\* One reward more
LEMMA PaidChanged ==
  ASSUME NEW br \in BrRows, NEW br2, NEW k \in DOMAIN br.epochs,
         br2.epochs = [br.epochs EXCEPT ![k].paid = @ + 1]
  PROVE  SumFunction(PaidOf(br2)) = SumFunction(PaidOf(br)) + 1
<1> DEFINE es == br.epochs
           fs == br2.epochs
           f == PaidOf(br)
           g == PaidOf(br2)
<1>1. es \in Seq(EpochRows) BY DEF BrRows
<1>2. /\ IsFiniteSet(DOMAIN es) /\ es[k] \in EpochRows
      /\ \A j \in DOMAIN es : es[j].paid \in Nat
  <2> HIDE DEF es
  <2>1. DOMAIN es = 1..Len(es) /\ Len(es) \in Nat BY <1>1
  <2>2. \A j \in DOMAIN es : es[j] \in EpochRows BY <1>1
  <2>3. k \in DOMAIN es BY DEF es
  <2>4. IsFiniteSet(DOMAIN es)
    <3> DEFINE n == Len(es)
    <3>1. 1 \in Int /\ n \in Int BY <2>1
    <3> HIDE DEF n
    <3>2. IsFiniteSet(1..n) BY <3>1, FS_Interval
    <3> QED BY <2>1, <3>2 DEF n
  <2>5. \A j \in DOMAIN es : es[j].paid \in Nat BY <2>2 DEF EpochRows
  <2> QED BY <2>2, <2>3, <2>4, <2>5
<1>3. /\ DOMAIN fs = DOMAIN es /\ fs[k].paid = es[k].paid + 1
      /\ \A j \in DOMAIN es : j # k => fs[j] = es[j]
  <2> DEFINE e == [es[k] EXCEPT !.paid = @ + 1]
  <2>1. e.paid = es[k].paid + 1 BY <1>2 DEF EpochRows
  <2> HIDE DEF e
  <2>2. fs = [es EXCEPT ![k] = e] BY DEF e
  <2> QED BY <1>1, <2>1, <2>2
<1>4. /\ DOMAIN f = DOMAIN es /\ DOMAIN g = DOMAIN es
      /\ \A j \in DOMAIN es : f[j] = es[j].paid /\ g[j] = fs[j].paid
  BY <1>3 DEF PaidOf
<1>5. k \in DOMAIN es OBVIOUS
<1> HIDE DEF f, g, es, fs
<1>6. /\ \A j \in DOMAIN es : f[j] \in Int /\ g[j] \in Int
      /\ \A j \in DOMAIN es : j # k => g[j] = f[j]
      /\ g[k] = f[k] + 1 /\ f[k] \in Int
  <2>1. \A j \in DOMAIN es : j # k => g[j] = f[j]
    BY <1>3, <1>4
  <2>2. g[k] = f[k] + 1 /\ f[k] \in Nat
    BY <1>2, <1>3, <1>4, <1>5
  <2>3. \A j \in DOMAIN es : f[j] \in Nat
    BY <1>2, <1>4
  <2> QED BY <2>1, <2>2, <2>3
<1>7. SumFunctionOnSet(g, DOMAIN es) = SumFunctionOnSet(f, DOMAIN es) - f[k] + g[k]
  BY <1>2, <1>5, <1>6, SumChanged
<1>8. SumFunctionOnSet(f, DOMAIN es) \in Int
  BY <1>2, <1>6, SumType
<1>9. SumFunctionOnSet(g, DOMAIN es) = SumFunctionOnSet(f, DOMAIN es) + 1
  BY <1>6, <1>7, <1>8
<1> QED BY <1>4, <1>9 DEF SumFunction, f, g

\* The same rewards
LEMMA PaidSame ==
  ASSUME NEW br, NEW br2,
         DOMAIN br2.epochs = DOMAIN br.epochs,
         \A k \in DOMAIN br.epochs : br2.epochs[k].paid = br.epochs[k].paid
  PROVE  PaidOf(br2) = PaidOf(br)
  BY DEF PaidOf

\* The next epoch has no rewards yet.
LEMMA PaidAppended ==
  ASSUME NEW br \in BrRows, NEW br2 \in BrRows,
         Len(br2.epochs) = Len(br.epochs) + 1,
         br2.epochs[Len(br.epochs) + 1].paid = 0,
         \A k \in DOMAIN br.epochs : br2.epochs[k].paid = br.epochs[k].paid
  PROVE  SumFunction(PaidOf(br2)) = SumFunction(PaidOf(br))
<1> DEFINE es == br.epochs
           fs == br2.epochs
           f == PaidOf(br)
           g == PaidOf(br2)
           n == Len(es)
<1>1. es \in Seq(EpochRows) /\ fs \in Seq(EpochRows) BY DEF BrRows
<1>2. DOMAIN es = 1..n /\ DOMAIN fs = 1..(n + 1) /\ n \in Nat
  <2>1. Len(fs) = n + 1 OBVIOUS
  <2> HIDE DEF es, fs
  <2> QED BY <1>1, <2>1
<1>3. \A j \in DOMAIN fs : fs[j] \in EpochRows
  <2> HIDE DEF fs
  <2> QED BY <1>1
<1>4. \A j \in DOMAIN fs : fs[j].paid \in Nat
  BY <1>3 DEF EpochRows
<1>5. /\ DOMAIN f = 1..n /\ DOMAIN g = 1..(n + 1)
      /\ \A j \in 1..n : f[j] = g[j]
      /\ \A j \in 1..(n + 1) : g[j] \in Int
      /\ g[n + 1] = 0
  <2>1. DOMAIN f = 1..n /\ DOMAIN g = 1..(n + 1)
    BY <1>2 DEF PaidOf
  <2>2. \A j \in 1..n : f[j] = es[j].paid
    BY <1>2 DEF PaidOf
  <2>3. \A j \in 1..(n + 1) : g[j] = fs[j].paid
    BY <1>2 DEF PaidOf
  <2>4. \A j \in 1..n : fs[j].paid = es[j].paid
    BY <1>2
  <2>5. fs[n + 1].paid = 0 OBVIOUS
  <2> HIDE DEF f, g, es, fs, n
  <2>6. 1..n \subseteq 1..(n + 1) /\ n + 1 \in 1..(n + 1)
    BY <1>2
  <2>7. \A j \in 1..(n + 1) : fs[j].paid \in Int
    BY <1>2, <1>4
  <2> QED BY <2>1, <2>2, <2>3, <2>4, <2>5, <2>6, <2>7
<1> DEFINE S == 1..n
           T == 1..(n + 1)
           k == n + 1
<1>6. n \in Nat BY <1>2
<1>7. IsFiniteSet(S) /\ IsFiniteSet(T) /\ k \in T /\ T \ {k} = S
  <2> HIDE DEF n
  <2>1. IsFiniteSet(S) /\ IsFiniteSet(T)
    <3>1. 1 \in Int /\ n \in Int /\ n + 1 \in Int BY <1>6
    <3> QED BY <3>1, FS_Interval
  <2>2. k \in T BY <1>6
  <2>3. T \ {k} = S BY <1>6
  <2> QED BY <2>1, <2>2, <2>3
<1>8. /\ DOMAIN f = S /\ DOMAIN g = T /\ g[k] = 0
      /\ \A j \in S : f[j] = g[j]
      /\ \A j \in T : g[j] \in Int
  BY <1>5
<1> HIDE DEF f, g, n, S, T, k
<1>9. \A j \in S : j \in T BY <1>7
<1>10. SumFunctionOnSet(g, T) = g[k] + SumFunctionOnSet(g, T \ {k})
  BY <1>7, <1>8, SumRemove
<1>11. SumFunctionOnSet(g, S) = SumFunctionOnSet(f, S)
  BY <1>7, <1>8, <1>9, SumSame
<1>12. SumFunctionOnSet(g, S) \in Int
  BY <1>7, <1>8, <1>9, SumType
<1>13. SumFunctionOnSet(g, T) = SumFunctionOnSet(f, S)
  <2>1. SumFunctionOnSet(g, T) = 0 + SumFunctionOnSet(g, S)
    BY <1>7, <1>8, <1>10
  <2> QED BY <1>11, <1>12, <2>1
<1> QED BY <1>8, <1>13 DEF SumFunction, f, g

\* The total in terms of the rewards of each epoch
LEMMA TotalIs ==
  ASSUME NEW br
  PROVE  Total(br) <=> br.deposited = SumFunction(br.balance) + br.network
                                        + SumFunction(PaidOf(br))
  BY DEF Total, PaidOf

\* Tokens that move between balances, network and rewards, or are deposited
LEMMA TotalStep ==
  ASSUME NEW br \in BrRows, Total(br), NEW br2,
         NEW x \in Int, NEW y \in Int, NEW z \in Int,
         SumFunction(br2.balance) = SumFunction(br.balance) + x,
         br2.network = br.network + y,
         SumFunction(PaidOf(br2)) = SumFunction(PaidOf(br)) + z,
         br2.deposited = br.deposited + (x + y + z)
  PROVE  Total(br2)
<1> DEFINE b == SumFunction(br.balance)
           p == SumFunction(PaidOf(br))
           n == br.network
           d == br.deposited
<1>1. b \in Int /\ p \in Int /\ n \in Int /\ d \in Int
  BY SumTypes
<1>2. d = b + n + p BY TotalIs
<1>3. Total(br2) <=> d + (x + y + z) = (b + x) + (n + y) + (p + z)
  BY TotalIs
<1> HIDE DEF b, p, n, d
<1>4. d + (x + y + z) = (b + x) + (n + y) + (p + z)
  BY <1>1, <1>2
<1> QED BY <1>3, <1>4

\* Flags written, tokens left alone
LEMMA TotalSame ==
  ASSUME NEW br, Total(br), NEW br2, br2.balance = br.balance,
         br2.network = br.network, br2.deposited = br.deposited,
         PaidOf(br2) = PaidOf(br)
  PROVE  Total(br2)
  BY TotalIs

TotalKept(res) == res.ok => Total(res.br)

\* A method that fails has nothing to establish.
LEMMA OutcomeTotal ==
  ASSUME NEW ok \in BOOLEAN, NEW info, NEW br, ok => Total(br)
  PROVE  TotalKept(Outcome(ok, info, br))
<1>1. CASE ok
  <2>1. Outcome(ok, info, br).br = br
    BY <1>1 DEF Outcome
  <2> QED BY <1>1, <2>1, Zenon DEF TotalKept
<1>2. CASE ~ok
  <2>1. Outcome(ok, info, br) = [ok |-> FALSE]
    BY <1>2 DEF Outcome, Failed
  <2> QED BY <1>2, <2>1 DEF TotalKept
<1> QED BY <1>1, <1>2

\* transfer: what one balance loses another gains.
LEMMA TransferTotal ==
  ASSUME NEW info, NEW br \in BrRows, Total(br), NEW h \in Holders, NEW to \in Holders,
         h # to
  PROVE  TotalKept(Transfer(info, br, h, to))
<1> DEFINE ok == br.balance[h] >= 1
           b == br.balance
           b1 == [b EXCEPT ![h] = @ - 1]
           b2 == [b1 EXCEPT ![to] = @ + 1]
           br2 == [br EXCEPT !.balance[h] = @ - 1, !.balance[to] = @ + 1]
<1>0. b \in [Holders -> Nat] BY DEF BrRows
<1>1. ASSUME ok PROVE Total(br2)
  <2>1. b[h] >= 1 BY <1>1
  <2>2. b1 \in [Holders -> Nat] /\ SumFunction(b1) = SumFunction(b) + (-1)
    <3> HIDE DEF b
    <3> QED BY <1>0, <2>1, BalanceLess
  <2>3. br2 = [br EXCEPT !.balance = b2]
    BY DEF BrRows
  <2> HIDE DEF b1
  <2>4. SumFunction(b2) = SumFunction(b1) + 1
    BY <2>2, BalanceMore
  <2>5. SumFunction(b) \in Int BY SumTypes
  <2>6. SumFunction(b2) = SumFunction(b) + 0
    BY <2>2, <2>4, <2>5
  <2> HIDE DEF b2, br2
  <2>8. /\ br2.balance = b2 /\ br2.network = br.network /\ br2.epochs = br.epochs
        /\ br2.deposited = br.deposited
    BY <2>3 DEF BrRows
  <2>9. /\ br.network \in Nat /\ br.deposited \in Nat /\ SumFunction(PaidOf(br)) \in Nat
    BY SumTypes
  <2>10. PaidOf(br2) = PaidOf(br) BY <2>8 DEF PaidOf
  <2>11. /\ SumFunction(br2.balance) = SumFunction(br.balance) + 0
         /\ br2.network = br.network + 0
         /\ SumFunction(PaidOf(br2)) = SumFunction(PaidOf(br)) + 0
         /\ br2.deposited = br.deposited + (0 + 0 + 0)
    BY <2>6, <2>8, <2>9, <2>10
  <2> QED BY <2>11, TotalStep
<1>2. ok \in BOOLEAN OBVIOUS
<1> HIDE DEF ok, br2
<1>3. TotalKept(Outcome(ok, info, br2))
  BY <1>1, <1>2, OutcomeTotal
<1> QED BY <1>3 DEF Transfer, ok, br2

\* lockTokens and unlock: between a balance and the network
LEMMA LockTotal ==
  ASSUME NEW info \in Infos, NEW br \in BrRows, Total(br), NEW h \in Holders
  PROVE  TotalKept(LockTokens(info, br, h))
<1> DEFINE ok == br.balance[h] >= 1 /\ Usable(info)
           info2 == [info EXCEPT !.network = @ + 1]
           b == br.balance
           b2 == [b EXCEPT ![h] = @ - 1]
           br2 == [br EXCEPT !.balance[h] = @ - 1, !.network = @ + 1]
<1>0. b \in [Holders -> Nat] BY DEF BrRows
<1>1. ASSUME ok PROVE Total(br2)
  <2>1. b[h] >= 1 BY <1>1
  <2>2. SumFunction(b2) = SumFunction(b) + (-1)
    <3> HIDE DEF b
    <3> QED BY <1>0, <2>1, BalanceLess
  <2>3. br2 = [br EXCEPT !.balance = b2, !.network = @ + 1]
    BY DEF BrRows
  <2> HIDE DEF b2, br2
  <2>4. /\ br2.balance = b2 /\ br2.network = br.network + 1 /\ br2.epochs = br.epochs
        /\ br2.deposited = br.deposited
    BY <2>3 DEF BrRows
  <2>5. /\ br.deposited \in Nat /\ SumFunction(PaidOf(br)) \in Nat
    BY SumTypes
  <2>6. PaidOf(br2) = PaidOf(br) BY <2>4 DEF PaidOf
  <2>7. /\ SumFunction(PaidOf(br2)) = SumFunction(PaidOf(br)) + 0
        /\ br2.deposited = br.deposited + ((-1) + 1 + 0)
    BY <2>4, <2>5, <2>6
  <2>8. SumFunction(br2.balance) = SumFunction(br.balance) + (-1)
    BY <2>2, <2>4
  <2>9. -1 \in Int OBVIOUS
  <2> QED BY <2>4, <2>7, <2>8, <2>9, TotalStep
<1>2. ok \in BOOLEAN BY DEF Usable, Infos
<1> HIDE DEF ok, br2, info2
<1>3. TotalKept(Outcome(ok, info2, br2))
  BY <1>1, <1>2, OutcomeTotal
<1> QED BY <1>3 DEF LockTokens, ok, br2, info2

\* unlock: from the network to a balance
LEMMA UnlockTotal ==
  ASSUME NEW info \in Infos, NEW br \in BrRows, Total(br), NEW h \in Holders
  PROVE  TotalKept(Unlock(info, br, h))
<1> DEFINE ok == Usable(info) /\ info.network >= 1 /\ br.network >= 1
           info2 == [info EXCEPT !.network = @ - 1]
           b == br.balance
           b2 == [b EXCEPT ![h] = @ + 1]
           br2 == [br EXCEPT !.network = @ - 1, !.balance[h] = @ + 1]
<1>0. b \in [Holders -> Nat] BY DEF BrRows
<1>1. Total(br2)
  <2>2. SumFunction(b2) = SumFunction(b) + 1
    <3> HIDE DEF b
    <3> QED BY <1>0, BalanceMore
  <2>3. br2 = [br EXCEPT !.balance = b2, !.network = @ - 1]
    BY DEF BrRows
  <2> HIDE DEF b2, br2
  <2>4. /\ br2.balance = b2 /\ br2.network = br.network - 1 /\ br2.epochs = br.epochs
        /\ br2.deposited = br.deposited
    BY <2>3 DEF BrRows
  <2>5. br.deposited \in Nat /\ SumFunction(PaidOf(br)) \in Nat /\ br.network \in Nat
    BY SumTypes
  <2>6. PaidOf(br2) = PaidOf(br) BY <2>4 DEF PaidOf
  <2>7. /\ SumFunction(PaidOf(br2)) = SumFunction(PaidOf(br)) + 0
        /\ br2.deposited = br.deposited + (1 + (-1) + 0)
        /\ br2.network = br.network + (-1)
    BY <2>4, <2>5, <2>6
  <2>8. SumFunction(br2.balance) = SumFunction(br.balance) + 1
    BY <2>2, <2>4
  <2>9. -1 \in Int OBVIOUS
  <2> QED BY <2>7, <2>8, <2>9, TotalStep
<1>2. ok \in BOOLEAN BY DEF Usable, Infos, BrRows
<1> HIDE DEF ok, br2, info2
<1>3. TotalKept(Outcome(ok, info2, br2))
  BY <1>1, <1>2, OutcomeTotal
<1> QED BY <1>3 DEF Unlock, ok, br2, info2

\* issueTokens and lockAndIssueTokens: into a reward of the current epoch
LEMMA IssueTotal ==
  ASSUME NEW info \in Infos, NEW br \in BrRows, Total(br)
  PROVE  TotalKept(IssueTokens(info, br))
<1> DEFINE k == info.epoch
           ok == /\ Usable(info) /\ info.network >= 1 /\ br.network >= 1
                 /\ k \in DOMAIN br.epochs
           info2 == [info EXCEPT !.network = @ - 1]
           fs == [br.epochs EXCEPT ![k].paid = @ + 1]
           br2 == [br EXCEPT !.network = @ - 1, !.epochs[k].paid = @ + 1]
<1>1. ASSUME ok PROVE Total(br2)
  <2>3. br2 = [br EXCEPT !.epochs = fs, !.network = @ - 1]
    BY DEF BrRows
  <2>4. br2.epochs = fs
    <3> HIDE DEF fs, br2
    <3> QED BY <2>3 DEF BrRows
  <2>5. SumFunction(PaidOf(br2)) = SumFunction(PaidOf(br)) + 1
    <3>1. k \in DOMAIN br.epochs BY <1>1
    <3>2. br2.epochs = [br.epochs EXCEPT ![k].paid = @ + 1] BY <2>4
    <3> HIDE DEF k, br2, fs
    <3> QED BY <3>1, <3>2, PaidChanged
  <2> HIDE DEF fs, br2
  <2>6. /\ br2.balance = br.balance /\ br2.network = br.network - 1
        /\ br2.deposited = br.deposited
    BY <2>3 DEF BrRows
  <2>7. br.deposited \in Nat /\ SumFunction(br.balance) \in Nat /\ br.network \in Nat
    BY SumTypes
  <2>8. /\ SumFunction(br2.balance) = SumFunction(br.balance) + 0
        /\ br2.deposited = br.deposited + (0 + (-1) + 1)
        /\ br2.network = br.network + (-1)
    BY <2>6, <2>7
  <2>9. -1 \in Int OBVIOUS
  <2> QED BY <2>5, <2>8, <2>9, TotalStep
<1>2. ok \in BOOLEAN BY DEF Usable, Infos, BrRows
<1> HIDE DEF ok, br2, info2
<1>3. TotalKept(Outcome(ok, info2, br2))
  BY <1>1, <1>2, OutcomeTotal
<1> QED BY <1>3 DEF IssueTokens, ok, br2, info2

\* bridge: from a balance to a reward
LEMMA LockAndIssueTotal ==
  ASSUME NEW info \in Infos, NEW br \in BrRows, Total(br), NEW h \in Holders
  PROVE  TotalKept(LockAndIssueTokens(info, br, h))
<1> DEFINE k == info.epoch
           ok == /\ br.balance[h] >= 1 /\ Usable(info)
                 /\ k \in DOMAIN br.epochs
           b == br.balance
           b2 == [b EXCEPT ![h] = @ - 1]
           fs == [br.epochs EXCEPT ![k].paid = @ + 1]
           br2 == [br EXCEPT !.balance[h] = @ - 1, !.epochs[k].paid = @ + 1]
<1>0. b \in [Holders -> Nat] BY DEF BrRows
<1>1. ASSUME ok PROVE Total(br2)
  <2>1. b[h] >= 1 BY <1>1
  <2>2. SumFunction(b2) = SumFunction(b) + (-1)
    <3> HIDE DEF b
    <3> QED BY <1>0, <2>1, BalanceLess
  <2>3. br2 = [br EXCEPT !.epochs = fs, !.balance = b2]
    BY DEF BrRows
  <2>4. br2.epochs = fs
    <3> HIDE DEF fs, br2, b2
    <3> QED BY <2>3 DEF BrRows
  <2>5. SumFunction(PaidOf(br2)) = SumFunction(PaidOf(br)) + 1
    <3>1. k \in DOMAIN br.epochs BY <1>1
    <3>2. br2.epochs = [br.epochs EXCEPT ![k].paid = @ + 1] BY <2>4
    <3> HIDE DEF k, br2, fs
    <3> QED BY <3>1, <3>2, PaidChanged
  <2> HIDE DEF fs, br2, b2
  <2>6. /\ br2.balance = b2 /\ br2.network = br.network
        /\ br2.deposited = br.deposited
    BY <2>3 DEF BrRows
  <2>7. br.deposited \in Nat /\ br.network \in Nat
    BY SumTypes
  <2>8. /\ br2.deposited = br.deposited + ((-1) + 0 + 1)
        /\ br2.network = br.network + 0
    BY <2>6, <2>7
  <2>9. SumFunction(br2.balance) = SumFunction(br.balance) + (-1)
    BY <2>2, <2>6
  <2>10. -1 \in Int OBVIOUS
  <2> QED BY <2>5, <2>8, <2>9, <2>10, TotalStep
<1>2. ok \in BOOLEAN BY DEF Usable, Infos
<1> HIDE DEF ok, br2
<1>3. TotalKept(Outcome(ok, info, br2))
  BY <1>1, <1>2, OutcomeTotal
<1> QED BY <1>3 DEF LockAndIssueTokens, ok, br2

\* A deposit is credited once.
LEMMA DepositTotal ==
  ASSUME NEW br \in BrRows, Total(br), NEW h \in Holders
  PROVE  Total(Deposit(br, h))
<1> DEFINE b == br.balance
           b2 == [b EXCEPT ![h] = @ + 1]
           br2 == Deposit(br, h)
<1>1. b \in [Holders -> Nat] BY DEF BrRows
<1>2. SumFunction(b2) = SumFunction(b) + 1
  <2> HIDE DEF b
  <2> QED BY <1>1, BalanceMore
<1>3. br2 = [br EXCEPT !.balance = b2, !.deposited = @ + 1]
  BY DEF Deposit, BrRows
<1> HIDE DEF b2, br2
<1>4. /\ br2.balance = b2 /\ br2.network = br.network /\ br2.epochs = br.epochs
      /\ br2.deposited = br.deposited + 1
  BY <1>3 DEF BrRows
<1>5. br.deposited \in Nat /\ SumFunction(PaidOf(br)) \in Nat /\ br.network \in Nat
  BY SumTypes
<1>6. PaidOf(br2) = PaidOf(br) BY <1>4 DEF PaidOf
<1>7. /\ SumFunction(PaidOf(br2)) = SumFunction(PaidOf(br)) + 0
      /\ br2.deposited = br.deposited + (1 + 0 + 0)
      /\ br2.network = br.network + 0
  BY <1>4, <1>5, <1>6
<1>8. SumFunction(br2.balance) = SumFunction(br.balance) + 1
  BY <1>2, <1>4
<1> QED BY <1>7, <1>8, TotalStep DEF br2

\* A vote moves no token.
LEMMA VoteTotal ==
  ASSUME NEW info, NEW br, BridgeOK(br), NEW n, Paced(br, n), Total(br),
         NEW k, NEW v \in Validators
  PROVE  TotalKept(VoteEpoch(info, br, k, v))
<1> DEFINE r == VoteEpoch(info, br, k, v)
<1> SUFFICES ASSUME r.ok PROVE Total(r.br)
  BY DEF TotalKept
<1>1. SameBut(r.br, br) BY VoteKeeps
<1> HIDE DEF r
<1>2. PaidOf(r.br) = PaidOf(br)
  BY <1>1, PaidSame DEF SameBut
<1> QED BY <1>1, <1>2, TotalSame DEF SameBut

\* Closing an epoch moves no token.
LEMMA EndEpochTotal ==
  ASSUME NEW info, NEW br, Cached(info, br), NEW n \in Nat, Paced(br, n),
         Due(info, br), Total(br)
  PROVE  Total(EndEpoch(info, br))
<1> DEFINE br2 == EndEpoch(info, br)
<1>1. /\ BridgeOK(br2) /\ br2.network = br.network
      /\ Len(br2.epochs) = Len(br.epochs) + 1
      /\ br2.balance = br.balance /\ br2.deposited = br.deposited
      /\ br2.epochs[Len(br.epochs) + 1].paid = 0
      /\ \A j \in DOMAIN br.epochs : br2.epochs[j].paid = br.epochs[j].paid
  BY EndEpochKeeps
<1> HIDE DEF br2
<1>2. br \in BrRows /\ br2 \in BrRows BY <1>1 DEF Cached, BridgeOK
<1>3. SumFunction(PaidOf(br2)) = SumFunction(PaidOf(br))
  BY <1>1, <1>2, PaidAppended
<1> QED BY <1>1, <1>3, TotalIs DEF br2

\* A new instance has an empty epoch, one that is used again its old ones.
LEMMA PrepareTotal ==
  ASSUME NEW info, NEW br, Cached(info, br), NEW n \in Nat, Paced(br, n),
         NEW p \in BOOLEAN, Total(br), Prepare(info, br, p).ok
  PROVE  Total(Prepare(info, br, p).br)
<1> DEFINE ok == /\ ~(info.exists /\ info.active)
                 /\ (info.exists /\ info.synced) \/ ~p
           br2 == Prepare(info, br, p).br
           newbr == [br EXCEPT !.exists = TRUE, !.active = TRUE, !.epochs = <<NewEpoch>>]
           oldbr == [br EXCEPT !.active = IF info.synced THEN TRUE ELSE @]
<1>1. BridgeKeeps(Prepare(info, br, p), n + 1)
  BY PrepareKeeps
<1>2. br \in BrRows /\ br2 \in BrRows
  <2> DEFINE r == Prepare(info, br, p)
  <2>1. r.ok OBVIOUS
  <2> HIDE DEF r
  <2>2. r.br \in BrRows BY <1>1, <2>1 DEF BridgeKeeps, Cached, BridgeOK, r
  <2>3. br \in BrRows BY DEF Cached, BridgeOK
  <2> QED BY <2>2, <2>3 DEF r
<1>3. br2 = IF ~info.exists THEN newbr ELSE oldbr
  <2> DEFINE i2 == IF ~info.exists
                   THEN [NoInfo EXCEPT !.exists = TRUE, !.active = TRUE, !.epoch = 1]
                   ELSE [info EXCEPT !.active = info.synced]
             b2 == IF ~info.exists THEN newbr ELSE oldbr
  <2>1. Prepare(info, br, p) = Outcome(ok, i2, b2)
    BY DEF Prepare
  <2> HIDE DEF i2, b2, ok
  <2>2. ok
    <3>1. CASE ~ok
      <4>1. Prepare(info, br, p) = [ok |-> FALSE]
        BY <2>1, <3>1 DEF Outcome, Failed
      <4> QED BY <4>1
    <3> QED BY <3>1
  <2>3. br2 = b2 BY <2>1, <2>2 DEF Outcome
  <2> QED BY <2>3 DEF b2
<1> HIDE DEF br2
<1>4. CASE ~info.exists
  <2>1. br.epochs = <<>>
    BY <1>4 DEF Cached, InfoAgrees, BridgeOK
  <2> DEFINE es == <<NewEpoch>>
  <2>2. br2 = [br EXCEPT !.exists = TRUE, !.active = TRUE, !.epochs = es]
    BY <1>3, <1>4
  <2>3. Len(es) = 1 /\ es[1].paid = 0
    BY DEF NewEpoch
  <2> HIDE DEF es
  <2>4. /\ br2.balance = br.balance /\ br2.network = br.network
        /\ br2.deposited = br.deposited /\ br2.epochs = es
    BY <1>2, <2>2 DEF BrRows
  <2>5. Len(br.epochs) = 0 /\ DOMAIN br.epochs = {} BY <2>1
  <2>6. Len(br2.epochs) = Len(br.epochs) + 1 /\ br2.epochs[Len(br.epochs) + 1].paid = 0
    BY <2>3, <2>4, <2>5
  <2>7. SumFunction(PaidOf(br2)) = SumFunction(PaidOf(br))
    BY <1>2, <2>5, <2>6, PaidAppended
  <2> QED BY <2>4, <2>7, TotalIs DEF br2
<1>5. CASE info.exists
  <2> DEFINE a == IF info.synced THEN TRUE ELSE br.active
  <2>1. br2 = [br EXCEPT !.active = a]
    BY <1>3, <1>5
  <2> HIDE DEF a
  <2>2. /\ br2.balance = br.balance /\ br2.network = br.network
        /\ br2.deposited = br.deposited /\ br2.epochs = br.epochs
    BY <1>2, <2>1 DEF BrRows
  <2>3. PaidOf(br2) = PaidOf(br) BY <2>2 DEF PaidOf
  <2> QED BY <2>2, <2>3, TotalSame DEF br2
<1> QED BY <1>4, <1>5

\* Disabling moves no token.
LEMMA DisableTotal ==
  ASSUME NEW info, NEW br \in BrRows, Total(br), Disable(info, br).ok
  PROVE  Total(Disable(info, br).br)
<1> DEFINE i2 == [info EXCEPT !.active = FALSE]
           off == [br EXCEPT !.active = FALSE]
           b2 == IF info.active THEN off ELSE br
           ok == info.exists
<1>1. Disable(info, br) = Outcome(ok, i2, b2)
  BY DEF Disable
<1>2. Total(off)
  <2>1. /\ off.balance = br.balance /\ off.network = br.network
        /\ off.deposited = br.deposited /\ off.epochs = br.epochs
    BY DEF BrRows
  <2> HIDE DEF off
  <2>2. PaidOf(off) = PaidOf(br) BY <2>1 DEF PaidOf
  <2> QED BY <2>1, <2>2, TotalSame
<1>3. Total(b2) BY <1>2
<1> HIDE DEF i2, b2, ok
<1>4. ok
  <2>1. CASE ~ok
    <3>1. Disable(info, br) = [ok |-> FALSE]
      BY <1>1, <2>1 DEF Outcome, Failed
    <3> QED BY <3>1
  <2> QED BY <2>1
<1>5. Disable(info, br).br = b2 BY <1>1, <1>4 DEF Outcome
<1> QED BY <1>3, <1>5

\* Nothing is deposited at first.
LEMMA FirstTotal == Total(NoRows)
<1> DEFINE b == [h \in Holders |-> 0]
           p == PaidOf(NoRows)
<1>1. /\ NoRows.balance = b /\ NoRows.network = 0 /\ NoRows.deposited = 0
      /\ NoRows.epochs = <<>>
  BY DEF NoRows
<1>2. SumFunction(b) = 0
  <2>1. DOMAIN b = Holders /\ \A h \in Holders : b[h] = 0 OBVIOUS
  <2> HIDE DEF b
  <2>2. SumFunctionOnSet(b, Holders) = 0
    BY <2>1, SumZero, BridgeAssumption
  <2> QED BY <2>1, <2>2 DEF SumFunction
<1>3. SumFunction(p) = 0
  <2>1. DOMAIN p = {} BY <1>1 DEF PaidOf
  <2> HIDE DEF p
  <2> QED BY <2>1, SumEmpty DEF SumFunction
<1> QED BY <1>1, <1>2, <1>3, TotalIs

\* Every write of the bridge's rows keeps the total, and a rollback or a restart
\* brings rows back that have it.
LEMMA StepTotal ==
  ASSUME IInv, TokensConserved, [Next]_vars
  PROVE  TokensConserved'
<1> USE DEF TokensConserved
<1>0. db.br \in BrRows /\ tx.br \in BrRows /\ tx = [cat |-> tx.cat, br |-> tx.br]
      /\ mem.info \in Infos
  BY DEF IInv, RowsInv, RowInv, BridgeOK, MemInv, MemOK
<1>1. ASSUME tx' = tx \/ tx' = db, db' = db \/ db' = tx PROVE TokensConserved'
  BY <1>1
<1>2. CASE UNCHANGED vars
  BY <1>2, <1>1 DEF vars
<1>3. CASE \/ RoleStatement \/ PrivilegeStatement \/ MemberStatement
           \/ OwnerStatement \/ NamespaceStatement
  <2>1. PICK r : Executes(r)
    BY <1>3 DEF RoleStatement, PrivilegeStatement, MemberStatement, OwnerStatement,
                NamespaceStatement
  <2>2. db' = db /\ tx'.br = tx.br
    BY <1>0, <2>1 DEF Executes
  <2> QED BY <2>2
<1>4. CASE UseStatement
  <2>1. PICK caller \in Users, ns \in Spaces, fails \in BOOLEAN :
          Use(caller, ns, fails) \/ Unuse(caller, ns, fails)
    BY <1>4 DEF UseStatement
  <2>2. CanExecute BY <2>1 DEF Use, Unuse
  <2>3. Cached(mem.info, tx.br) /\ Paced(tx.br, count["statements"])
        /\ count["statements"] \in Nat
    BY <2>2, BeforeStatement DEF CanExecute
  <2>4. CASE Use(caller, ns, fails)
    <3> DEFINE r == Prepare(mem.info, tx.br, poller)
    <3>1. db' = db BY <2>4 DEF Use
    <3>2. \/ tx' = tx
          \/ r.ok /\ tx' = [cat |-> CreateNamespaceRow(tx.cat, ns, "extension"), br |-> r.br]
      BY <2>4 DEF Use
    <3>3. ASSUME r.ok PROVE Total(r.br)
      <4>1. poller \in BOOLEAN BY DEF IInv, RestInv
      <4> QED BY <2>3, <3>3, <4>1, PrepareTotal
    <3> HIDE DEF r
    <3> QED BY <3>1, <3>2, <3>3
  <2>5. CASE Unuse(caller, ns, fails)
    <3> DEFINE r == Disable(mem.info, tx.br)
    <3>1. db' = db /\ r.ok BY <2>5 DEF Unuse
    <3>2. tx' = tx \/ tx' = [cat |-> DropNamespaceRow(tx.cat, ns), br |-> r.br]
      BY <2>5 DEF Unuse
    <3>3. Total(r.br) BY <1>0, <3>1, DisableTotal
    <3> HIDE DEF r
    <3> QED BY <3>1, <3>2, <3>3
  <2> QED BY <2>1, <2>4, <2>5
<1>5. CASE BridgeCall
  <2>1. ASSUME NEW r, Calls(r), TotalKept(r) PROVE TokensConserved'
    <3>1. db' = db /\ tx'.br = r.br /\ r.ok
      BY <1>0, <2>1 DEF Calls
    <3> QED BY <2>1, <3>1 DEF TotalKept
  <2>2. PICK h \in Holders, to \in Holders :
        \/ h # to /\ Calls(Transfer(mem.info, tx.br, h, to))
        \/ Calls(LockTokens(mem.info, tx.br, h))
        \/ Calls(Unlock(mem.info, tx.br, h))
        \/ Calls(IssueTokens(mem.info, tx.br))
        \/ Calls(LockAndIssueTokens(mem.info, tx.br, h))
    BY <1>5 DEF BridgeCall
  <2> QED BY <1>0, <2>1, <2>2, TransferTotal, LockTotal, UnlockTotal, IssueTotal,
             LockAndIssueTotal
<1>6. ASSUME NEW v \in Validators, ExecuteVote(v) PROVE TokensConserved'
  <2>1. PICK t : LET r == VoteEpoch(mem.info, tx.br, t.epoch, v)
                 IN  /\ db' = db
                     /\ tx' = IF r.ok THEN [tx EXCEPT !.br = r.br] ELSE tx
    BY <1>6 DEF ExecuteVote
  <2> DEFINE r == VoteEpoch(mem.info, tx.br, t.epoch, v)
  <2>2. db' = db /\ tx' = IF r.ok THEN [tx EXCEPT !.br = r.br] ELSE tx
    BY <2>1
  <2>3. TotalKept(r)
    BY VoteTotal DEF IInv, RowsInv, RowInv
  <2> HIDE DEF r
  <2>4. tx' = tx \/ (r.ok /\ tx'.br = r.br)
    BY <1>0, <2>2
  <2> QED BY <2>2, <2>3, <2>4 DEF TotalKept
<1>7. CASE ResolveDeposit
  <2>1. PICK h \in Holders : db' = db /\ tx' = [tx EXCEPT !.br = Deposit(@, h)]
    BY <1>7 DEF ResolveDeposit
  <2> DEFINE b == Deposit(tx.br, h)
  <2>2. Total(b) BY <1>0, DepositTotal
  <2>3. tx' = [tx EXCEPT !.br = b] BY <2>1
  <2> HIDE DEF b
  <2>4. tx'.br = b BY <1>0, <2>3
  <2> QED BY <2>1, <2>2, <2>4
<1>8. CASE SyncRows
  <2>1. /\ db' = db
        /\ \/ tx' = [tx EXCEPT !.br.processed = TRUE, !.br.synced = TRUE]
           \/ tx' = [tx EXCEPT !.br.processed = TRUE]
    BY <1>8 DEF SyncRows
  <2> DEFINE b1 == [tx.br EXCEPT !.processed = TRUE, !.synced = TRUE]
             b2 == [tx.br EXCEPT !.processed = TRUE]
  <2>4. tx'.br = b1 \/ tx'.br = b2
    BY <1>0, <2>1
  <2>5. /\ b1.balance = tx.br.balance /\ b1.network = tx.br.network
        /\ b1.deposited = tx.br.deposited /\ b1.epochs = tx.br.epochs
    BY <1>0 DEF BrRows
  <2>6. /\ b2.balance = tx.br.balance /\ b2.network = tx.br.network
        /\ b2.deposited = tx.br.deposited /\ b2.epochs = tx.br.epochs
    BY <1>0 DEF BrRows
  <2> HIDE DEF b1, b2
  <2>2. /\ tx'.br.balance = tx.br.balance /\ tx'.br.network = tx.br.network
        /\ tx'.br.deposited = tx.br.deposited /\ tx'.br.epochs = tx.br.epochs
    BY <2>4, <2>5, <2>6
  <2>3. PaidOf(tx'.br) = PaidOf(tx.br) BY <2>2 DEF PaidOf
  <2>7. Total(tx'.br) BY <2>2, <2>3, TotalSame
  <2> QED BY <2>1, <2>7
<1>9. CASE SyncMemory
  <2>1. db' = db /\ (tx' = tx \/ tx' = [tx EXCEPT !.br.synced = FALSE])
    BY <1>9 DEF SyncMemory
  <2>2. /\ tx'.br.balance = tx.br.balance /\ tx'.br.network = tx.br.network
        /\ tx'.br.deposited = tx.br.deposited /\ tx'.br.epochs = tx.br.epochs
    BY <1>0, <2>1 DEF BrRows
  <2>3. PaidOf(tx'.br) = PaidOf(tx.br) BY <2>2 DEF PaidOf
  <2>7. Total(tx'.br) BY <2>2, <2>3, TotalSame
  <2> QED BY <2>1, <2>7
<1>10. CASE EndBlockDue
  <2> DEFINE b == EndEpoch(mem.info, tx.br)
  <2>1. /\ CanWrite /\ phase \in {"exec", "resolve"} /\ Due(mem.info, tx.br)
        /\ tx' = [tx EXCEPT !.br = b] /\ db' = db
    BY <1>10 DEF EndBlockDue
  <2>2. Cached(mem.info, tx.br) /\ Paced(tx.br, count["statements"])
        /\ count["statements"] \in Nat
    BY <2>1, BeforeStatement
  <2>3. Total(b) BY <2>1, <2>2, EndEpochTotal
  <2> HIDE DEF b
  <2>4. tx'.br = b BY <1>0, <2>1
  <2> QED BY <2>1, <2>3, <2>4
<1>11. CASE \/ \E v \in Validators :
                   \/ HasVoted(v) \/ SignAndVote(v) \/ VoteRefused(v)
                   \/ VoteCommitted(v) \/ VoteTimesOut(v) \/ RestartValidator(v)
            \/ PollState \/ HookMemory \/ EndBlock \/ Commit
            \/ Rollback \/ Restart \/ ReadBegins \/ ReadFails
  BY <1>1, <1>11 DEF HasVoted, SignAndVote, VoteRefused, VoteCommitted, VoteTimesOut,
       RestartValidator, PollState, HookMemory, EndBlock, Commit, Rollback, Restart,
       ReadBegins, ReadFails
<1> QED BY <1>2, <1>3, <1>4, <1>5, <1>6, <1>7, <1>8, <1>9, <1>10, <1>11 DEF Next

\* No token appears or vanishes, for any set of holders and any number of
\* statements: what applyDepositLog credited is on balances, with the network or
\* among the rewards, in the committed rows and in those of the running block.
THEOREM TokensKept == Spec => []TokensConserved
<1>1. Init => TokensConserved
  <2> SUFFICES ASSUME Init PROVE TokensConserved OBVIOUS
  <2>1. db.br = NoRows /\ tx.br = NoRows BY DEF Init, FirstState
  <2> QED BY <2>1, FirstTotal DEF TokensConserved
<1>2. IInv /\ TokensConserved /\ [Next]_vars => TokensConserved'
  BY StepTotal
<1> QED BY <1>1, <1>2, Inductive, PTL DEF Spec

=============================================================================
