--------------------------- MODULE StorageLedger ---------------------------
(***************************************************************************)
(* What the renter's storage accounting promises, contract by contract:    *)
(* the bytes of a contract are free, held by an upload under way, or used  *)
(* by a stored block, and every operation only moves them between the      *)
(* three.  The freelist of renter/storage.go and the upload pipeline of    *)
(* renter/upload.go are shown to implement it.                             *)
(***************************************************************************)
EXTENDS Naturals

CONSTANTS
    Contracts,
    Capacity      \* Capacity[c]: the StorageSpace of contract c

VARIABLES
    signed,       \* contracts whose space was given to the storage manager
    free,         \* free[c]: bytes of c in the freelist
    held,         \* held[c]: bytes of c taken by uploads under way
    used          \* used[c]: bytes of c under blocks that were uploaded

ledger == <<signed, free, held, used>>

Account == [Contracts -> Nat]

\* A renter starts with the contracts of its snapshot.
Init ==
    /\ signed \subseteq Contracts
    /\ free = [c \in Contracts |-> IF c \in signed THEN Capacity[c] ELSE 0]
    /\ held = [c \in Contracts |-> 0]
    /\ used = [c \in Contracts |-> 0]

\* Bytes only move between the accounts of their contract.
Moved ==
    /\ free' \in Account /\ held' \in Account /\ used' \in Account
    /\ \A c \in Contracts :
          free'[c] + held'[c] + used'[c] = free[c] + held[c] + used[c]

\* New contracts were confirmed.
Reserve ==
    /\ signed \subseteq signed' /\ signed' \subseteq Contracts
    /\ free' = [c \in Contracts |->
                  IF c \in signed' \ signed THEN free[c] + Capacity[c] ELSE free[c]]
    /\ UNCHANGED <<held, used>>

\* An upload finds storage.
Find ==
    /\ Moved
    /\ \A c \in Contracts : free'[c] <= free[c]
    /\ UNCHANGED <<signed, used>>

\* An upload ends: what it holds is returned or stays in use.
Settle ==
    /\ Moved
    /\ \A c \in Contracts : free[c] <= free'[c] /\ used[c] <= used'[c]
    /\ UNCHANGED signed

\* Blocks are removed from the providers.
Reclaim ==
    /\ Moved
    /\ \A c \in Contracts : used'[c] <= used[c]
    /\ UNCHANGED <<signed, held>>

Next == Reserve \/ Find \/ Settle \/ Reclaim

Spec == Init /\ [][Next]_ledger

-----------------------------------------------------------------------------
\* The accounts hold amounts of known contracts.
LedgerTypeOK ==
    /\ signed \subseteq Contracts
    /\ free \in Account /\ held \in Account /\ used \in Account

\* No byte of a contract is lost or found twice: whatever uploads and
\* removals overlap, free, held and used add up to what was reserved.
Conserved ==
    \A c \in Contracts :
        free[c] + held[c] + used[c] = IF c \in signed THEN Capacity[c] ELSE 0

=============================================================================
