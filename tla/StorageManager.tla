--------------------------- MODULE StorageManager --------------------------
(***************************************************************************)
(* The renter's cache of free storage (renter/storage.go): a list of       *)
(* blobs, behind one mutex, from which uploads take blocks round-robin.    *)
(*                                                                         *)
(* Every operation runs under sm.mu and is one action.  The update         *)
(* function the renter installs always fails (renter.go:112-115), so       *)
(* updateCache leaves the list alone and has no action.                    *)
(*                                                                         *)
(* The storage comes from estimates that clients confirm, several at once  *)
(* and each as often as they like (renter/reserve.go): the contracts are   *)
(* signed by the providers, posted to the metaserver one by one, and added *)
(* to the list at the end.  What a provider does with a contract is in     *)
(* ProviderStore, what the metaserver does with a payment in Billing.      *)
(***************************************************************************)
EXTENDS Integers, FiniteSets, SequencesExt, Lists

CONSTANTS
    Contracts,
    Providers,
    ProviderOf,   \* ProviderOf[c]: the provider contract c is with
    Capacity,     \* Capacity[c]: the StorageSpace of contract c
    Clients,      \* requests that confirm an estimate, served at once
    Estimates,    \* the estimates made: sequences of contracts
    BlobSizes,    \* block sizes of the uploads
    MaxBlobs      \* bound: blocks asked for at once

ASSUME StorageAssumption ==
    /\ IsFiniteSet(Contracts)
    /\ ProviderOf \in [Contracts -> Providers]
    /\ Capacity \in [Contracts -> Nat \ {0}]
    /\ Estimates \subseteq Seq(Contracts) \ {<<>>}
    /\ \A e \in Estimates : IsInjective(e)
    /\ \A e, f \in Estimates : Range(e) \cap Range(f) # {} => e = f
    /\ BlobSizes \subseteq Nat \ {0} /\ IsFiniteSet(BlobSizes)   \* int64
    /\ MaxBlobs \in Nat \ {0}

\* kMinBlobSize, config.go:22
MinBlobSize == 1

Blob == [contract : Contracts, amount : BlobSizes]

VARIABLES
    freelist,     \* the free blobs, in the order of the list
    confirm,      \* confirm[t]: where the confirmation is that t serves
    payments,     \* contracts that have a payment at the metaserver
    signed,       \* contracts whose space was added
    held,         \* held[b]: blobs like b taken by uploads under way
    used          \* used[b]: blobs like b under stored blocks

vars == <<freelist, confirm, payments, signed, held, used>>

-----------------------------------------------------------------------------
(* The list operations.                                                    *)

\* Mutant of AddBlob: no merging.
AddBlobAppending(list, blob) == Append(list, blob)

AddBlob(list, blob) ==
    LET same == {i \in DOMAIN list : list[i].contract = blob.contract}
    IN  IF same = {}
        THEN Append(list, blob)
        ELSE [list EXCEPT ![Min(same)].amount = @ + blob.amount]

\* One after the other.
AddBlobs(list, blobs) ==
    LET after[k \in 0..Len(blobs)] ==
            IF k = 0 THEN list ELSE AddBlob(after[k - 1], blobs[k])
    IN  after[Len(blobs)]

\* The positions of the list, from start on and around.
Around(list, start) == [k \in DOMAIN list |-> ((start + k - 2) % Len(list)) + 1]

\* Mutant of Candidates: the excluded providers are candidates too.
CandidatesAnywhere(list, size, excluded, start) ==
    Those(Around(list, start), {i \in DOMAIN list : list[i].amount >= size})

\* The positions of the blobs that fit a block.
Candidates(list, size, excluded, start) ==
    Those(Around(list, start),
          {i \in DOMAIN list : /\ list[i].amount >= size
                               /\ ProviderOf[list[i].contract] \notin excluded})

\* Mutant of NextTurn: the same position is used again and again.
NextTurnSame(next, cand) == 1

NextTurn(next, cand) == (next % Len(cand)) + 1

\* One turn of findStorage's loop: the candidate at position next gives a
\* block, and is dropped when it cannot give another.  The candidate that moves
\* into its place is passed over.
TakeOne(search, size) ==
    LET i == search.cand[search.next]
        left == search.list[i].amount - size
        cand == IF left < size THEN RemoveAt(search.cand, search.next) ELSE search.cand
    IN  [list |-> [search.list EXCEPT ![i].amount = left],
         cand |-> cand,
         next |-> IF cand = <<>> THEN 1 ELSE NextTurn(search.next, cand),
         blobs |-> Append(search.blobs, [contract |-> search.list[i].contract,
                                         amount |-> size])]

\* findStorage's loop: up to n turns, while there are candidates.
Search(list, n, size, excluded, start) ==
    LET after[k \in 0..n] ==
            IF k = 0
            THEN [list |-> list, cand |-> Candidates(list, size, excluded, start),
                  next |-> 1, blobs |-> <<>>]
            ELSE LET search == after[k - 1]
                 IN  IF search.cand = <<>> THEN search ELSE TakeOne(search, size)
    IN  after[n]

WithoutEmpty(list) == Those(list, {b \in ToSet(list) : b.amount >= MinBlobSize})

\* Mutant of FindStorage: empty blobs stay on the list.
FindStorageKeepsEmpty(list, n, size, excluded, start) ==
    LET end == Search(list, n, size, excluded, start)
    IN  IF Len(end.blobs) < n
        THEN [ok |-> FALSE, blobs |-> <<>>, list |-> AddBlobs(end.list, end.blobs)]
        ELSE [ok |-> TRUE, blobs |-> end.blobs, list |-> end.list]

\* A failed search puts back what it took.
FindStorage(list, n, size, excluded, start) ==
    LET end == Search(list, n, size, excluded, start)
    IN  IF Len(end.blobs) < n
        THEN [ok |-> FALSE, blobs |-> <<>>, list |-> AddBlobs(end.list, end.blobs)]
        ELSE [ok |-> TRUE, blobs |-> end.blobs, list |-> WithoutEmpty(end.list)]

-----------------------------------------------------------------------------
Init ==
    /\ freelist = <<>>
    /\ confirm = [t \in Clients |-> [pc |-> "idle"]]
    /\ payments = {}
    /\ signed = {}
    /\ held = [b \in Blob |-> 0]
    /\ used = [b \in Blob |-> 0]

Occurrences(seq, e) == Cardinality({i \in DOMAIN seq : seq[i] = e})

Goto(t, state) == confirm' = [confirm EXCEPT ![t] = state]
Finish(t) == Goto(t, [pc |-> "idle"])

\* The client sends an estimate it got before; also one it has sent already.
\* confirmStorageEstimate asks the providers one after the other.  If one
\* refuses, or its answer is lost, the request ends here, and the providers
\* before it keep their reservations.  A provider signs a contract as often
\* as it is asked.
ReserveStorage(t) ==
    /\ confirm[t].pc = "idle"
    /\ \E e \in Estimates : Goto(t, [pc |-> "post", contracts |-> e, todo |-> e])
    /\ UNCHANGED <<freelist, payments, signed, held, used>>

\* Mutant of Payable: the metaserver accepts the payments of a contract again.
PayableAgain(c) == TRUE

\* InsertPayment: one payment for a contract.
Payable(c) == c \notin payments

\* PostContract.  It fails before the payment is there, or after (in what is
\* left of the handler, or in its answer); nothing is taken back.
PostContract(t) ==
    LET c == Head(confirm[t].todo)
        todo == Tail(confirm[t].todo)
    IN  /\ confirm[t].pc = "post"
        /\ \/ /\ Payable(c)
              /\ payments' = payments \cup {c}
              /\ \/ Goto(t, IF todo = <<>> THEN [pc |-> "add", contracts |-> confirm[t].contracts]
                            ELSE [confirm[t] EXCEPT !.todo = todo])
                 \/ Finish(t)
           \/ Finish(t) /\ UNCHANGED payments
        /\ UNCHANGED <<freelist, signed, held, used>>

\* The contracts are added together, in the order of the estimate.
AddContracts(t) ==
    LET contracts == confirm[t].contracts
    IN  /\ confirm[t].pc = "add"
        /\ freelist' = AddBlobs(freelist,
                          [k \in DOMAIN contracts |-> [contract |-> contracts[k],
                                                       amount |-> Capacity[contracts[k]]]])
        /\ signed' = signed \cup Range(contracts)
        /\ Finish(t)
        /\ UNCHANGED <<payments, held, used>>

ConfirmStorageEstimate(t) ==
    ReserveStorage(t) \/ PostContract(t) \/ AddContracts(t)

FindStorageExclude ==
    \E n \in 1..MaxBlobs, size \in BlobSizes, excluded \in SUBSET Providers :
    \E start \in IF freelist = <<>> THEN {1} ELSE DOMAIN freelist :
        LET found == FindStorage(freelist, n, size, excluded, start)
        IN  /\ freelist' = found.list
            /\ held' = [b \in Blob |-> held[b] + Occurrences(found.blobs, b)]
            /\ UNCHANGED <<confirm, payments, signed, used>>

\* An upload returns up to two of its blobs at once.
ReturnBlobs ==
    \E blobs \in SeqOf(Blob, 2) :
        /\ blobs # <<>>
        /\ \A b \in Blob : Occurrences(blobs, b) <= held[b]
        /\ freelist' = AddBlobs(freelist, blobs)
        /\ held' = [b \in Blob |-> held[b] - Occurrences(blobs, b)]
        /\ UNCHANGED <<confirm, payments, signed, used>>

\* The block of a blob is stored for good.
KeepBlob ==
    \E b \in Blob :
        /\ held[b] > 0
        /\ held' = [held EXCEPT ![b] = @ - 1]
        /\ used' = [used EXCEPT ![b] = @ + 1]
        /\ UNCHANGED <<freelist, confirm, payments, signed>>

RemoveBlock ==
    \E b \in Blob :
        /\ used[b] > 0
        /\ freelist' = AddBlob(freelist, b)
        /\ used' = [used EXCEPT ![b] = @ - 1]
        /\ UNCHANGED <<confirm, payments, signed, held>>

Next ==
    \/ \E t \in Clients : ConfirmStorageEstimate(t)
    \/ FindStorageExclude
    \/ ReturnBlobs
    \/ KeepBlob
    \/ RemoveBlock

Spec == Init /\ [][Next]_vars

-----------------------------------------------------------------------------
\* The type of the state: no blob on the list is empty.
TypeOK ==
    /\ freelist \in Seq([contract : Contracts, amount : Nat \ {0}])
    /\ signed \subseteq payments /\ payments \subseteq Contracts
    /\ \A t \in Clients : confirm[t].pc \in {"idle", "post", "add"}
    /\ held \in [Blob -> Nat]
    /\ used \in [Blob -> Nat]

\* storage.go:21: "each of the renter's storage contracts has at most one
\* associated blob in this list", in whatever order blobs come back.
OneBlobPerContract ==
    \A i, j \in DOMAIN freelist : freelist[i].contract = freelist[j].contract => i = j

\* The blocks of a size that fit the blobs of the providers not excluded.
Room(size, excluded) ==
    LET open == {i \in DOMAIN freelist : ProviderOf[freelist[i].contract] \notin excluded}
    IN  SumFunctionOnSet([i \in DOMAIN freelist |-> freelist[i].amount \div size], open)

\* findStorage, with its round-robin over candidates that come and go, fails
\* only when the blobs really do not fit; then it leaves the list as it was.
\* It returns what was asked for, and never a blob of an excluded provider.
FindIsExact ==
    \A n \in 1..MaxBlobs, size \in BlobSizes :
    \A excluded \in SUBSET Providers, start \in DOMAIN freelist :
        LET found == FindStorage(freelist, n, size, excluded, start)
        IN  IF Room(size, excluded) < n
            THEN ~found.ok /\ found.list = freelist
            ELSE /\ found.ok
                 /\ Len(found.blobs) = n
                 /\ \A k \in DOMAIN found.blobs :
                       /\ found.blobs[k].amount = size
                       /\ ProviderOf[found.blobs[k].contract] \notin excluded

\* A file's blocks are spread: the turns two contracts get, one of which
\* could take every block, differ by one, and by one more for each other
\* contract that was used up on the way (its successor is passed over).
FindSpreads ==
    \A n \in 1..MaxBlobs, size \in BlobSizes :
    \A excluded \in SUBSET Providers, start \in DOMAIN freelist :
        LET found == FindStorage(freelist, n, size, excluded, start)
            given(i) == Cardinality({k \in DOMAIN found.blobs :
                                       found.blobs[k].contract = freelist[i].contract})
            usedUp(i) == given(i) > 0 /\ freelist[i].amount - given(i) * size < size
        IN  found.ok =>
              \A i, j \in DOMAIN freelist :
                  /\ ProviderOf[freelist[i].contract] \notin excluded
                  /\ freelist[i].amount >= n * size
                  => given(j) <= given(i) + 1
                       + Cardinality({k \in DOMAIN freelist \ {i, j} : usedUp(k)})

AmountOf(bag, c) == SumFunctionOnSet([b \in Blob |-> b.amount * bag[b]], {b \in Blob : b.contract = c})

FreeOf(c) ==
    SumFunctionOnSet([i \in DOMAIN freelist |-> freelist[i].amount],
                     {i \in DOMAIN freelist : freelist[i].contract = c})

FreeBytes == [c \in Contracts |-> FreeOf(c)]
HeldBytes == [c \in Contracts |-> AmountOf(held, c)]
UsedBytes == [c \in Contracts |-> AmountOf(used, c)]

Ledger == INSTANCE StorageLedger WITH free <- FreeBytes, held <- HeldBytes, used <- UsedBytes

\* The storage manager implements the ledger: however often and however
\* overlapped estimates are confirmed, and whatever calls fail on the way, the
\* space of a contract comes in once; searches that succeed or fail, returns
\* and removals in any order only move it, and no byte is lost or found twice.
ImplementsLedger == Ledger!Spec
=============================================================================
