------------------------------ MODULE Services -------------------------------
(***************************************************************************)
(* Media, Sessions, Catalog and Idempotency side by side.  These four      *)
(* share no table, no cache key and no lock, so that their steps commute   *)
(* and each of the properties is about one of them.  A behaviour therefore *)
(* picks one, the part, and the others stay in one of their initial        *)
(* states.                                                                 *)
(***************************************************************************)
EXTENDS Media

CONSTANTS Visits, Processes,       \* Sessions: its calls, and API processes
          AccessLife, RefreshLife, CacheLife, MaxTime, MaxChanges,
          Products, Branches, Home, Opened, Old, OldHome,      \* Catalog
          Keys, Instances, MaxLosses    \* Idempotency: its crashes and expiries

ASSUME SessionsAssumption ==
  /\ RefreshLife \in Nat \ {0}
  /\ {AccessLife, CacheLife, MaxTime, MaxChanges} \subseteq Nat
  /\ None \notin {"owner", "manager", "staff"} \cup [allowed : BOOLEAN, at : Nat]

VARIABLES part,
          now, member, assigned, granted, access, refresh, permissions,
          spc, proc, claims, asks, got, heldRole, heldBranch, heldGrant, changes,
          branches, products, categories, details, inserted, opening,
          cpc, args, edited, broken, late, cfaults,
          answers, storing, ipc, key, inst, answer, effects, causes, ifaults

sessions    == <<now, member, assigned, granted, access, refresh, permissions,
                 spc, proc, claims, asks, got, heldRole, heldBranch, heldGrant, changes>>
catalog     == <<branches, products, categories, details, inserted, opening,
                 cpc, args, edited, broken, late, cfaults>>
idempotency == <<answers, storing, ipc, key, inst, answer, effects, causes, ifaults>>

Sessions == INSTANCE Sessions WITH Calls <- Visits, cache <- permissions, pc <- spc

Catalog == INSTANCE Catalog WITH pc <- cpc, faults <- cfaults

Idempotency == INSTANCE Idempotency WITH
  MaxFaults <- MaxLosses, Nothing <- None, cache <- answers, pc <- ipc, faults <- ifaults

ASSUME CatalogAssumption ==
  /\ Opened \subseteq Branches /\ Old \in Products
  /\ \E b \in Branches : Home[b] = OldHome
  /\ None \notin Products \cup Branches \cup Catalog!Callers \cup Catalog!Names \cup {"trigger"}
  /\ None \notin Catalog!Row \cup (Catalog!Restaurants \X Catalog!Names)
  /\ None \notin [row : Catalog!Row, at : SUBSET Branches]

ASSUME IdempotencyAssumption ==
  /\ IsFiniteSet(Calls) /\ None \notin {"done", "error"}

ServicesInit ==
  /\ part \in {"media", "sessions", "catalog", "idempotency"}
  /\ Init /\ Sessions!Init /\ Catalog!Init /\ Idempotency!Init

ServicesNext ==
  /\ UNCHANGED part
  /\ \/ /\ part = "media" /\ Next
        /\ UNCHANGED <<sessions, catalog, idempotency>>
     \/ /\ part = "sessions" /\ Sessions!Next
        /\ UNCHANGED <<vars, catalog, idempotency>>
     \/ /\ part = "catalog" /\ Catalog!Next
        /\ UNCHANGED <<vars, sessions, idempotency>>
     \/ /\ part = "idempotency" /\ Idempotency!Next
        /\ UNCHANGED <<vars, sessions, catalog>>

ServicesSpec ==
  ServicesInit /\ [][ServicesNext]_<<part, vars, sessions, catalog, idempotency>>
-----------------------------------------------------------------------------
\* The inductive invariants of the three parts that are instantiated; Media
\* has its own.
ServicesInv ==
  Sessions!SessionsInv /\ Catalog!CatalogInv /\ Idempotency!IdempotencyInv

\* The properties of the parts, which their modules state.
ClaimsExpire             == Sessions!ClaimsExpire
PermissionsExpire        == Sessions!PermissionsExpire
KeptApart                == Sessions!KeptApart
ProvisionedExactly       == Catalog!ProvisionedExactly
CatalogStaysHome         == Catalog!CatalogStaysHome
HalfDoneOnlyWithoutRow   == Catalog!HalfDoneOnlyWithoutRow
ForeignBranchesUntouched == Catalog!ForeignBranchesUntouched
RepeatsHaveACause        == Idempotency!RepeatsHaveACause
=============================================================================
