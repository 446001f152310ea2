---------------------------- MODULE AccessCache ----------------------------
(***************************************************************************)
(* What a user may see: the role of the user, the libraries granted to the *)
(* role, the copy of both that Redis keeps for 300 seconds per user, and   *)
(* the requests answered from it (authorizationService.js, roleService.js).*)
(***************************************************************************)
EXTENDS Naturals, FiniteSets

CONSTANTS Users, Libraries, MaxChanges

VARIABLES grants,   \* [Roles -> SUBSET Libraries]: role_library_access
          roleOf,   \* users.role_id
          cached,   \* Redis, authz:user:<id>: at most one access per user
          asking,   \* the access a request has read and not yet stored
          held,     \* every access the user has had (history)
          changes   \* how many changes were committed (bound)

accessVars == <<grants, roleOf, cached, asking, held, changes>>

Roles == {"administrator", "reader", "custom"}
Custom == Roles \ {"administrator"}

\* null in the code, "no restriction", is the set of all libraries.
AccessibleLibraries(g, r) == IF r = "administrator" THEN Libraries ELSE g[r]
Access(u) == AccessibleLibraries(grants, roleOf[u])

Init ==
  /\ grants = [r \in Roles |-> IF r = "reader" THEN Libraries ELSE {}]
  /\ roleOf = [u \in Users |-> "reader"]
  /\ cached = [u \in Users |-> {}]
  /\ asking = [u \in Users |-> {}]
  /\ held = [u \in Users |-> {Libraries}]
  /\ changes = 0

Change(g, r) ==
  /\ changes < MaxChanges
  /\ changes' = changes + 1
  /\ grants' = g
  /\ roleOf' = r
  /\ held' = [u \in Users |-> held[u] \union {AccessibleLibraries(g, r[u])}]
  /\ UNCHANGED <<cached, asking>>

\* As separate statements: requests see the role without its rows.
SaveRoleInTwoSteps(r, libraries) ==
  /\ changes < MaxChanges
  /\ IF grants[r] # {}
     THEN grants' = [grants EXCEPT ![r] = {}] /\ UNCHANGED held
     ELSE /\ grants' = [grants EXCEPT ![r] = libraries]
          /\ held' = [u \in Users |->
                        held[u] \union {AccessibleLibraries(grants', roleOf[u])}]
  /\ changes' = changes + 1
  /\ UNCHANGED <<roleOf, cached, asking>>

\* One transaction deletes the rows of the role and inserts the new ones.
\* invalidateAuthorization() is then called without a user: it does nothing.
SaveRole(r, libraries) ==
  /\ r \in Custom
  /\ Change([grants EXCEPT ![r] = libraries], roleOf)

AssignRole(u, r) == roleOf[u] # r /\ Change(grants, [roleOf EXCEPT ![u] = r])

\* A role in use needs a replacement for its users.
DeleteRole(r, replacement) ==
  /\ r \in Custom
  /\ r # replacement
  /\ \E u \in Users : roleOf[u] = r
  /\ Change([grants EXCEPT ![r] = {}],
            [u \in Users |-> IF roleOf[u] = r THEN replacement ELSE roleOf[u]])

\* effectiveAccess without a copy: one statement reads role and grants.
Query(u) ==
  /\ cached[u] = {} /\ asking[u] = {}
  /\ asking' = [asking EXCEPT ![u] = {Access(u)}]
  /\ UNCHANGED <<grants, roleOf, cached, held, changes>>

Fill(u) ==
  /\ asking[u] # {}
  /\ cached' = [cached EXCEPT ![u] = asking[u]]
  /\ asking' = [asking EXCEPT ![u] = {}]
  /\ UNCHANGED <<grants, roleOf, held, changes>>

\* Redis fails: the answer is used and not stored.
FillFails(u) ==
  /\ asking[u] # {}
  /\ asking' = [asking EXCEPT ![u] = {}]
  /\ UNCHANGED <<grants, roleOf, cached, held, changes>>

NeverExpire(u) == FALSE /\ UNCHANGED accessVars
Expire(u) ==
  /\ cached[u] # {}
  /\ cached' = [cached EXCEPT ![u] = {}]
  /\ UNCHANGED <<grants, roleOf, asking, held, changes>>

Next ==
  \/ \E r \in Roles, ls \in SUBSET Libraries : SaveRole(r, ls)
  \/ \E r, other \in Roles : DeleteRole(r, other)
  \/ \E u \in Users :
       \/ \E r \in Roles : AssignRole(u, r)
       \/ Query(u) \/ Fill(u) \/ FillFails(u) \/ Expire(u)

\* A request that has read goes on, and what is cached lives as long as it may.
GoOn(u) == Fill(u) \/ FillFails(u) \/ Expire(u)
Fairness == \A u \in Users : WF_accessVars(GoOn(u))

Spec == Init /\ [][Next]_accessVars /\ Fairness

\* What a request of u is answered with: the copy if there is one.
Answers(u) == cached[u] \union asking[u]

TypeOK ==
  /\ grants \in [Roles -> SUBSET Libraries]
  /\ roleOf \in [Users -> Roles]
  /\ cached \in [Users -> SUBSET SUBSET Libraries]
  /\ asking \in [Users -> SUBSET SUBSET Libraries]
  /\ held \in [Users -> SUBSET SUBSET Libraries]
  /\ changes \in 0..MaxChanges

\* A request is answered with an access its user had as a whole, by one role
\* and one version of its grants, never with a role half saved
\* (roleService.js:10-11, authorizationService.js:4).
AnswerWasGranted == \A u \in Users : Answers(u) \subseteq held[u]

\* Nothing invalidates the copies when a role or a user changes
\* (authorizationService.js:5); a revoked library is refused in the end all the
\* same, because a copy is dropped after 300 seconds.
RevocationArrives ==
  <>[](\A u \in Users : \A access \in Answers(u) : access \subseteq Access(u))
=============================================================================
