------------------------------ MODULE Requests -------------------------------
(***************************************************************************)
(* Addresses, BranchCache, Registration and Listing side by side, as in    *)
(* Services: they share no row that one of them writes, and no cache key,  *)
(* so a behaviour picks one and the others stay in an initial state.       *)
(***************************************************************************)
EXTENDS Addresses, FiniteSets

CONSTANTS Lookups, Updates, Suspensions,            \* BranchCache
          Forms, PoolMax, MaxFaults,                \* Registration
          Restaurants, Keys, Asked, MaxLimit, MaxWrites    \* Listing

ASSUME BranchCacheAssumption ==
  IsFiniteSet(Updates \cup Suspensions) /\ Updates \cap Suspensions = {}

ASSUME RegistrationAssumption ==
  /\ IsFiniteSet(Calls) /\ {PoolMax, MaxFaults} \subseteq Nat
  /\ \A f \in Forms : DOMAIN f = {"kind", "email", "phone"}
                        /\ f.kind \in {"customer", "owner", "bare"}
  /\ None \notin Forms
  /\ None \notin {"created", "conflict", "refused", "collided", "error"}

ASSUME ListingAssumption ==
  /\ IsFiniteSet(Restaurants) /\ Keys \subseteq Int /\ Asked \subseteq Int \cup {None}
  /\ {MaxLimit, MaxWrites} \subseteq Nat
  /\ None \notin Int /\ None \notin [key : Keys, listed : BOOLEAN]

VARIABLES part,
          branch, restaurant, cache, storing, qpc, url, read, answer,
          wpc, version, racing,
          committed, mine, entries, gpc, form, told, wasThere, faults,
          listed, asked, order, cursor, lpc, page, hasMore,
          shown, settled, tied, writes

branchCache  == <<branch, restaurant, cache, storing, qpc, url, read, answer,
                  wpc, version, racing>>
registration == <<committed, mine, entries, gpc, form, told, wasThere, faults>>
listing      == <<listed, asked, order, cursor, lpc, page, hasMore,
                  shown, settled, tied, writes>>

BranchCache == INSTANCE BranchCache WITH Nothing <- None, pc <- qpc

Registration == INSTANCE Registration WITH rows <- committed, pc <- gpc, answer <- told

Listing == INSTANCE Listing WITH Ids <- Restaurants, rows <- listed, pc <- lpc

RequestsInit ==
  /\ part \in {"addresses", "branch cache", "registration", "listing"}
  /\ Init /\ BranchCache!Init /\ Registration!Init /\ Listing!Init

RequestsNext ==
  /\ UNCHANGED part
  /\ \/ /\ part = "addresses" /\ Next
        /\ UNCHANGED <<branchCache, registration, listing>>
     \/ /\ part = "branch cache" /\ BranchCache!Next
        /\ UNCHANGED <<vars, registration, listing>>
     \/ /\ part = "registration" /\ Registration!Next
        /\ UNCHANGED <<vars, branchCache, listing>>
     \/ /\ part = "listing" /\ Listing!Next
        /\ UNCHANGED <<vars, branchCache, registration>>

Fairness == BranchCache!Fairness /\ Registration!Fairness

RequestsSpec ==
  /\ RequestsInit
  /\ [][RequestsNext]_<<part, vars, branchCache, registration, listing>>
  /\ Fairness
-----------------------------------------------------------------------------
\* The inductive invariants of the three parts that are instantiated;
\* Addresses has its own.
RequestsInv ==
  BranchCache!CacheInv /\ Registration!RegistrationInv /\ Listing!ListingInv

\* The properties of the parts, which their modules state.
StaleOnlyByRacingFill     == BranchCache!StaleOnlyByRacingFill
EntriesConverge           == BranchCache!EntriesConverge
AnswersAreTrue            == Registration!AnswersAreTrue
EveryRegistrationAnswered == Registration!EveryRegistrationAnswered
SkipsOnlyTies             == Listing!SkipsOnlyTies
=============================================================================
