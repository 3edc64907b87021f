--------------------------- MODULE ProviderStore ---------------------------
(***************************************************************************)
(* The block store and the contract ledger of a SkyBin provider            *)
(* (provider/blocks.go, negotiate.go, provider.go, db.go).                 *)
(*                                                                         *)
(* HTTP handlers run concurrently.  Each of them touches, one after the    *)
(* other and under no common lock, three kinds of state: the files of the  *)
(* blocks directory and config.json, the rows of the sqlite tables, and    *)
(* the counters and the configuration in memory, which alone are behind    *)
(* provider.mu.  The process may die between any two of these steps and is *)
(* started again from config.json and the database.  Of the configuration, *)
(* SpaceAvail is followed: the rates and the policy change nothing here.   *)
(***************************************************************************)
EXTENDS Integers, FiniteSets, FiniteSetsExt

CONSTANTS
    Renters,      \* renters that may hold contracts with this provider
    Blocks,       \* block IDs; an ID is drawn at random, by one renter
    Clients,      \* handler goroutines: how many requests overlap
    Owner,        \* Owner[b]: the renter that drew the ID b
    Size,         \* Size[b]: the bytes of block b
    Spaces,       \* amounts a contract may reserve
    Capacities,   \* the values its owner gives SpaceAvail; nothing checks them
    Shared,       \* blocks whose requests may overlap, or whose ID is sent again
    Workloads,    \* bound: the IDs drawn in one behaviour, with how often
                  \* UpdateConfig and the pricing thread run in it
    MaxRows,      \* bound: rows of one block before another store of it
    MaxDrift,     \* bound: how far below zero a renter's counter is followed
    NoBlock, NoRenter, NoSnap

ASSUME ProviderAssumption ==
    /\ IsFiniteSet(Renters) /\ IsFiniteSet(Blocks)
    /\ IsFiniteSet(Clients) /\ Clients # {}
    /\ Owner \in [Blocks -> Renters]
    /\ Size \in [Blocks -> Nat \ {0}]
    /\ Spaces \subseteq Nat \ {0} /\ IsFiniteSet(Spaces) /\ Spaces # {}
    /\ Capacities \subseteq Int /\ IsFiniteSet(Capacities)
    /\ Shared \subseteq Blocks
    /\ MaxRows \in Nat /\ MaxDrift \in Nat
    /\ Workloads \subseteq [ids : SUBSET Blocks, updates : Nat]
    /\ NoBlock \notin Blocks
    /\ NoRenter \notin Renters
    /\ NoSnap \notin [free : Int, space : Int]
    /\ Clients \cap {"nofile", "torn", "whole"} = {}

VARIABLES
    file,          \* file[b]: what is at blocks/<renter>/<b> on disk
    rows,          \* rows[b]: rows of b in the blocks table
    ledger,        \* ledger[r]: StorageSpace summed over r's rows of contracts
    known,         \* the keys of provider.renters
    reserved,      \* renters[r].StorageReserved
    used,          \* renters[r].StorageUsed
    totalReserved, \* provider.StorageReserved
    spaceAvail,    \* provider.Config.SpaceAvail
    savedSpace,    \* SpaceAvail in config.json
    workload,      \* the IDs drawn, and the updates left
    agreedSpace,   \* history: the SpaceAvail the last agreed contract fitted
    advertised,    \* .free: SpaceAvail of this provider's record at the
                   \* metaserver; history .space: the Config's it came from
    job,           \* job[c]: where handler c is in its request
    snap,          \* snap[c]: what c's UpdateMeta is about to send, or NoSnap
    promise        \* history: what b's last undisturbed request left behind

disk == <<file, rows, ledger>>
memory == <<known, reserved, used, totalReserved>>
config == <<spaceAvail, savedSpace, workload, agreedSpace>>
meta == <<advertised, snap>>
vars == <<file, rows, ledger, known, reserved, used, totalReserved, spaceAvail,
          savedSpace, workload, agreedSpace, advertised, job, snap, promise>>

-----------------------------------------------------------------------------
(* The states of a request.  A block is alone in flight when no other      *)
(* request for the same ID ran at any moment of it.                        *)

StorePC == {"checked", "copying", "copied", "inserted"}
DeletePC == {"statted", "removed", "unlisted"}
NegotiatePC == {"agreed", "signed", "counted"}
ConfigPC == {"configured", "priced", "saving", "repricing"}

\* Where the four callers of UpdateMeta stand while it runs.
MetaPC == {"counted", "configured", "priced", "repricing"}

\* "nofile": no such file; "torn": left half written by a process that died;
\* "whole": all bytes of the block; a client: being written, and the last
\* open of the path (os.Create truncates) was that handler's.
FileState == Clients \cup {"nofile", "torn", "whole"}

Labels == {"idle"} \cup StorePC \cup DeletePC \cup NegotiatePC \cup ConfigPC

Snapshot == [free : Int, space : Int]

Job == [pc : Labels,
        block : Blocks \cup {NoBlock},
        renter : Renters \cup {NoRenter},
        amount : Nat,
        alone : BOOLEAN]

Idle == [pc |-> "idle", block |-> NoBlock, renter |-> NoRenter,
         amount |-> 0, alone |-> FALSE]

pc(c) == job[c].pc
At(c, label) == job[c].pc = label
Goto(c, label) == job' = [job EXCEPT ![c].pc = label]
Return(c) == job' = [job EXCEPT ![c] = Idle]
InFlight(b) == {c \in Clients : job[c].block = b}

\* A request for block b starts in c: it ends the promise about b and
\* disturbs every other request for b.
StartBlockJob(c, b, label, amount) ==
    /\ job' = [d \in Clients |->
                 IF d = c
                 THEN [pc |-> label, block |-> b, renter |-> Owner[b],
                       amount |-> amount, alone |-> InFlight(b) = {}]
                 ELSE IF job[d].block = b
                      THEN [job[d] EXCEPT !.alone = FALSE]
                      ELSE job[d]]
    /\ promise' = [promise EXCEPT ![b] = "none"]

\* A block request returns success; undisturbed, it leaves b as promised.
Acknowledge(c, outcome) ==
    /\ Return(c)
    /\ promise' = IF job[c].alone
                  THEN [promise EXCEPT ![job[c].block] = outcome]
                  ELSE promise

-----------------------------------------------------------------------------
Init ==
    /\ file = [b \in Blocks |-> "nofile"]
    /\ rows = [b \in Blocks |-> 0]
    /\ ledger = [r \in Renters |-> 0]
    /\ known = {}
    /\ reserved = [r \in Renters |-> 0]
    /\ used = [r \in Renters |-> 0]
    /\ totalReserved = 0
    /\ spaceAvail \in Capacities
    /\ savedSpace = spaceAvail
    /\ workload \in Workloads
    /\ agreedSpace = spaceAvail
    /\ advertised = [free |-> spaceAvail, space |-> spaceAvail]
    /\ job = [c \in Clients |-> Idle]
    /\ snap = [c \in Clients |-> NoSnap]
    /\ promise = [b \in Blocks |-> "none"]

-----------------------------------------------------------------------------
(* StoreBlock.  A renter sends a fresh ID once; a restored block keeps its *)
(* ID, so the IDs in Shared may come again and their requests may overlap. *)

\* Mutant of StoreCheck: the space check is left out.
StoreUnchecked(c, b) ==
    /\ At(c, "idle")
    /\ Owner[b] \in known
    /\ rows[b] < MaxRows /\ b \in workload.ids
    /\ b \notin Shared => /\ InFlight(b) = {}
                          /\ rows[b] = 0
                          /\ file[b] = "nofile"
    /\ StartBlockJob(c, b, "checked", Size[b])
    /\ UNCHANGED <<disk, memory, config, meta>>

\* The space check reads the renter's counters with no lock held.
StoreCheck(c, b) ==
    /\ At(c, "idle")
    /\ Owner[b] \in known
    /\ Size[b] <= reserved[Owner[b]] - used[Owner[b]]
    /\ rows[b] < MaxRows /\ b \in workload.ids
    /\ b \notin Shared => /\ InFlight(b) = {}
                          /\ rows[b] = 0
                          /\ file[b] = "nofile"
    /\ StartBlockJob(c, b, "checked", Size[b])
    /\ UNCHANGED <<disk, memory, config, meta>>

\* os.Create truncates a file that is already there.
StoreCreate(c) ==
    /\ At(c, "checked")
    /\ \/ /\ file' = [file EXCEPT ![job[c].block] = c]
          /\ Goto(c, "copying")
       \/ /\ Return(c)                           \* "Unable to save block"
          /\ UNCHANGED file
    /\ UNCHANGED <<rows, ledger, memory, config, meta, promise>>

\* Mutant of StoreCopy: the error of io.CopyN is ignored.
StoreCopyUnchecked(c) ==
    /\ At(c, "copying")
    /\ LET b == job[c].block
       IN  \E end \in {"whole", "torn"} :
             file' = [file EXCEPT ![b] = IF @ = c THEN end ELSE @]
    /\ Goto(c, "copied")
    /\ UNCHANGED <<rows, ledger, memory, config, meta, promise>>

\* The file is whole if no one truncated or unlinked it since c's open.  A
\* failed copy removes whatever is at the path by now.
StoreCopy(c) ==
    /\ At(c, "copying")
    /\ LET b == job[c].block
       IN  \/ /\ file' = [file EXCEPT ![b] = IF @ = c THEN "whole" ELSE @]
              /\ Goto(c, "copied")
           \/ /\ file' = [file EXCEPT ![b] = "nofile"]
              /\ Return(c)
    /\ UNCHANGED <<rows, ledger, memory, config, meta, promise>>

InsertBlock(c) ==
    /\ At(c, "copied")
    /\ LET b == job[c].block
       IN  \/ /\ rows' = [rows EXCEPT ![b] = @ + 1]
              /\ Goto(c, "inserted")
              /\ UNCHANGED file
           \/ /\ file' = [file EXCEPT ![b] = "nofile"]
              /\ Return(c)
              /\ UNCHANGED rows
    /\ UNCHANGED <<ledger, memory, config, meta, promise>>

StoreCount(c) ==
    /\ At(c, "inserted")
    /\ used' = [used EXCEPT ![job[c].renter] = @ + job[c].amount]
    /\ Acknowledge(c, "stored")
    /\ UNCHANGED <<disk, known, reserved, totalReserved, config, meta>>

-----------------------------------------------------------------------------
(* DeleteBlock.  A renter deletes a block it was told is stored; for the   *)
(* IDs in Shared a delete may come at any moment.                          *)

\* The size taken off the counters later is the size of the file now.
DeleteStat(c, b) ==
    /\ At(c, "idle")
    /\ Owner[b] \in known
    /\ file[b] # "nofile"
    /\ used[Owner[b]] >= -MaxDrift
    /\ b \notin Shared => InFlight(b) = {} /\ rows[b] > 0
    /\ \E n \in 0..Size[b] :
          /\ file[b] = "whole" => n = Size[b]
          /\ StartBlockJob(c, b, "statted", n)
    /\ UNCHANGED <<disk, memory, config, meta>>

\* os.Remove fails when another delete came first.
DeleteRemove(c) ==
    /\ At(c, "statted")
    /\ LET b == job[c].block
       IN  \/ /\ file[b] # "nofile"
              /\ file' = [file EXCEPT ![b] = "nofile"]
              /\ Goto(c, "removed")
           \/ /\ file[b] = "nofile"
              /\ Return(c)
              /\ UNCHANGED file
    /\ UNCHANGED <<rows, ledger, memory, config, meta, promise>>

\* Mutant of DeleteBlockById: one row is deleted, not every row of the ID.
DeleteOneRow(c) ==
    /\ At(c, "removed")
    /\ rows' = [rows EXCEPT ![job[c].block] = @ - 1]
    /\ Goto(c, "unlisted")
    /\ UNCHANGED <<file, ledger, memory, config, meta, promise>>

\* DELETE ... where BlockId=? takes every row of the ID.
DeleteBlockById(c) ==
    /\ At(c, "removed")
    /\ \/ /\ rows' = [rows EXCEPT ![job[c].block] = 0]
          /\ Goto(c, "unlisted")
       \/ /\ Return(c)                           \* "Failed to remove block"
          /\ UNCHANGED rows
    /\ UNCHANGED <<file, ledger, memory, config, meta, promise>>

DeleteCount(c) ==
    /\ At(c, "unlisted")
    /\ used' = [used EXCEPT ![job[c].renter] = @ - job[c].amount]
    /\ Acknowledge(c, "gone")
    /\ UNCHANGED <<disk, known, reserved, totalReserved, config, meta>>

-----------------------------------------------------------------------------
(* NegotiateContract, then UpdateMeta.                                     *)

\* Handler c starts on a request that is about no block.
Start(c, label, r, amount) ==
    job' = [job EXCEPT ![c] = [pc |-> label, block |-> NoBlock, renter |-> r,
                               amount |-> amount, alone |-> FALSE]]

\* Mutant of NegotiateCheck: the contracts already made are not subtracted.
NegotiateCheckTotal(c, r, space) ==
    /\ At(c, "idle")
    /\ space <= spaceAvail
    /\ agreedSpace' = spaceAvail
    /\ Start(c, "agreed", r, space)
    /\ UNCHANGED <<disk, memory, spaceAvail, savedSpace, workload, meta, promise>>

NegotiateCheck(c, r, space) ==
    /\ At(c, "idle")
    /\ space <= spaceAvail - totalReserved
    /\ agreedSpace' = spaceAvail
    /\ Start(c, "agreed", r, space)
    /\ UNCHANGED <<disk, memory, spaceAvail, savedSpace, workload, meta, promise>>

\* Mutant of InsertContract: its error is ignored.
InsertContractUnchecked(c) ==
    /\ At(c, "agreed")
    /\ \/ ledger' = [ledger EXCEPT ![job[c].renter] = @ + job[c].amount]
       \/ UNCHANGED ledger
    /\ Goto(c, "signed")
    /\ UNCHANGED <<file, rows, memory, config, meta, promise>>

InsertContract(c) ==
    /\ At(c, "agreed")
    /\ \/ /\ ledger' = [ledger EXCEPT ![job[c].renter] = @ + job[c].amount]
          /\ Goto(c, "signed")
       \/ /\ Return(c)                           \* bad signature, or the DB failed
          /\ UNCHANGED ledger
    /\ UNCHANGED <<file, rows, memory, config, meta, promise>>

\* Mutant of NegotiateCount: a fresh renterInfo replaces the renter's own.
NegotiateCountFresh(c) ==
    /\ At(c, "signed")
    /\ known' = known \cup {job[c].renter}
    /\ reserved' = [reserved EXCEPT ![job[c].renter] = job[c].amount]
    /\ totalReserved' = totalReserved + job[c].amount
    /\ Goto(c, "counted")
    /\ UNCHANGED <<disk, used, config, meta, promise>>

NegotiateCount(c) ==
    /\ At(c, "signed")
    /\ known' = known \cup {job[c].renter}
    /\ reserved' = [reserved EXCEPT ![job[c].renter] = @ + job[c].amount]
    /\ totalReserved' = totalReserved + job[c].amount
    /\ Goto(c, "counted")
    /\ UNCHANGED <<disk, used, config, meta, promise>>

\* Mutant of MetaSnapshot: the new contract is subtracted a second time.
MetaSnapshotTwice(c) ==
    /\ pc(c) \in MetaPC
    /\ snap[c] = NoSnap
    /\ snap' = [snap EXCEPT ![c] = [free |-> spaceAvail - totalReserved - job[c].amount,
                                    space |-> spaceAvail]]
    /\ UNCHANGED <<disk, memory, config, advertised, job, promise>>

\* UpdateMeta reads the counters under the lock and sends them after it.
MetaSnapshot(c) ==
    /\ pc(c) \in MetaPC
    /\ snap[c] = NoSnap
    /\ snap' = [snap EXCEPT ![c] = [free |-> spaceAvail - totalReserved,
                                    space |-> spaceAvail]]
    /\ UNCHANGED <<disk, memory, config, advertised, job, promise>>

\* What its callers do when UpdateMeta returns: the pricing of UpdateConfig
\* logs an error and goes on; UpdateConfig itself saves only after a success.
MetaReturn(c, ok) ==
    \/ At(c, "configured") /\ Goto(c, "priced")
    \/ At(c, "priced") /\ ok /\ Goto(c, "saving")
    \/ At(c, "priced") /\ ~ok /\ Return(c)
    \/ pc(c) \in {"counted", "repricing"} /\ Return(c)

\* The public key is unreadable; or updatePricing returns before UpdateMeta:
\* the policy is fixed, or the other providers' prices cannot be had.
MetaSkip(c) ==
    /\ pc(c) \in MetaPC
    /\ snap[c] = NoSnap
    /\ MetaReturn(c, FALSE)
    /\ UNCHANGED <<disk, memory, config, meta, promise>>

\* The PUT fails when the metaserver is away, or when the balance moved
\* since UpdateMeta read it.
MetaPublish(c) ==
    /\ snap[c] # NoSnap
    /\ snap' = [snap EXCEPT ![c] = NoSnap]
    /\ \/ advertised' = snap[c] /\ MetaReturn(c, TRUE)
       \/ UNCHANGED advertised /\ MetaReturn(c, FALSE)
    /\ UNCHANGED <<disk, memory, config, promise>>

-----------------------------------------------------------------------------
(* UpdateConfig, and the pricing thread, which calls UpdateMeta on its own. *)

\* No value is refused, and nothing is compared with what is reserved.
ConfigSet(c, space) ==
    /\ At(c, "idle")
    /\ workload.updates > 0
    /\ workload' = [workload EXCEPT !.updates = @ - 1]
    /\ spaceAvail' = space
    /\ Start(c, "configured", NoRenter, 0)
    /\ UNCHANGED <<disk, memory, savedSpace, agreedSpace, meta, promise>>

\* SaveJson writes what the configuration is by now, or fails.
ConfigSave(c) ==
    /\ At(c, "saving")
    /\ savedSpace' \in {savedSpace, spaceAvail}
    /\ Return(c)
    /\ UNCHANGED <<disk, memory, spaceAvail, workload, agreedSpace, meta, promise>>

PricingTick(c) ==
    /\ At(c, "idle")
    /\ \A d \in Clients : ~At(d, "repricing")
    /\ workload.updates > 0
    /\ workload' = [workload EXCEPT !.updates = @ - 1]
    /\ Start(c, "repricing", NoRenter, 0)
    /\ UNCHANGED <<disk, memory, spaceAvail, savedSpace, agreedSpace, meta, promise>>

-----------------------------------------------------------------------------
(* The process dies and is started again.  LoadFromDisk reads config.json, *)
(* whose writing is taken as one step; loadInfoFromDB rebuilds the     *)
(* counters from the rows and never looks at the files; at a block of a    *)
(* renter without a contract it stops, with the rows read so far counted.  *)

RowBytes(r, listed) ==
    SumFunctionOnSet([b \in Blocks |-> rows[b] * Size[b]], {b \in listed : Owner[b] = r})

Restart ==
    /\ job' = [c \in Clients |-> Idle]
    /\ snap' = [c \in Clients |-> NoSnap]
    /\ spaceAvail' = savedSpace
    /\ file' = [b \in Blocks |-> IF file[b] \in Clients THEN "torn" ELSE file[b]]
    /\ known' = {r \in Renters : ledger[r] > 0}
    /\ reserved' = ledger
    /\ totalReserved' = SumFunctionOnSet(ledger, Renters)
    /\ LET orphans == {b \in Blocks : rows[b] > 0 /\ Owner[b] \notin known'}
       IN  \E listed \in SUBSET (Blocks \ orphans) :
             /\ orphans = {} => listed = Blocks
             /\ used' = [r \in Renters |-> RowBytes(r, listed)]
    /\ UNCHANGED <<rows, ledger, savedSpace, workload, agreedSpace, advertised, promise>>

-----------------------------------------------------------------------------
StoreBlock(c) ==
    \/ \E b \in Blocks : StoreCheck(c, b)
    \/ StoreCreate(c) \/ StoreCopy(c) \/ InsertBlock(c) \/ StoreCount(c)

DeleteBlock(c) ==
    \/ \E b \in Blocks : DeleteStat(c, b)
    \/ DeleteRemove(c) \/ DeleteBlockById(c) \/ DeleteCount(c)

NegotiateContract(c) ==
    \/ \E r \in Renters, space \in Spaces : NegotiateCheck(c, r, space)
    \/ InsertContract(c) \/ NegotiateCount(c)

UpdateMeta(c) == MetaSnapshot(c) \/ MetaSkip(c) \/ MetaPublish(c)

UpdateConfig(c) == (\E space \in Capacities : ConfigSet(c, space)) \/ ConfigSave(c)

Next ==
    \/ \E c \in Clients : \/ StoreBlock(c) \/ DeleteBlock(c) \/ NegotiateContract(c)
                          \/ UpdateConfig(c) \/ PricingTick(c) \/ UpdateMeta(c)
    \/ Restart

Spec == Init /\ [][Next]_vars

-----------------------------------------------------------------------------
\* The type of the state: what is on disk and where the handlers are, then
\* the counters.
DiskTypeOK ==
    /\ file \in [Blocks -> FileState]
    /\ rows \in [Blocks -> Nat]
    /\ ledger \in [Renters -> Nat]
    /\ known \subseteq Renters
    /\ job \in [Clients -> Job]
    /\ promise \in [Blocks -> {"none", "stored", "gone"}]

\* The whole type invariant.
TypeOK ==
    /\ DiskTypeOK
    /\ reserved \in [Renters -> Nat]
    /\ used \in [Renters -> Int]
    /\ totalReserved \in Nat
    /\ {spaceAvail, savedSpace, agreedSpace} \subseteq Capacities
    /\ workload \in [ids : SUBSET Blocks, updates : Nat]
    /\ snap \in [Clients -> Snapshot \cup {NoSnap}]
    /\ advertised \in Snapshot

\* Every row of the blocks table belongs to a renter that has a row in the
\* contracts table: the case loadInfoFromDB gives up on ("block with no
\* associated contract?", provider.go:186) does not happen, whatever the
\* handlers' order and wherever the process dies.
NoOrphanRows ==
    \A b \in Blocks : rows[b] > 0 => ledger[Owner[b]] > 0

\* What a request said when it returned stays true, through every other
\* handler's steps and through restarts: a block that was stored, with no
\* other request for it at the time or since, is whole on disk and listed
\* in the database; one that was deleted is neither.
PromiseKept ==
    \A b \in Blocks :
        /\ promise[b] = "stored" => file[b] = "whole" /\ rows[b] > 0
        /\ promise[b] = "gone" => file[b] = "nofile" /\ rows[b] = 0

\* The bytes of c's request if it stands at the given label for renter r.
Pending(r, label) ==
    SumFunctionOnSet([c \in Clients |-> job[c].amount],
                     {c \in Clients : job[c].renter = r /\ job[c].pc = label})

\* The check of a block against its renter's space reads the counters before
\* the block is counted, so a renter can fill more than it reserved; but never
\* by more than one block for each other handler.  This is so of the rows and
\* of the counter, for a renter whose blocks are sent once and deleted once,
\* whatever the order of its stores and deletes and wherever the process dies.
OverfillBounded ==
    LET largest == Max({Size[b] : b \in Blocks})
        slack == (Cardinality(Clients) - 1) * largest
    IN  \A r \in Renters :
          (\E b \in Blocks : Owner[b] = r) /\ (\A b \in Shared : Owner[b] # r) =>
             /\ RowBytes(r, Blocks) <= ledger[r] + slack
             /\ used[r] <= reserved[r] + slack

\* StorageReserved is what the contracts table holds, for every renter and in
\* total, up to the negotiations between the insert and the counter.
ReservedAccountsForContracts ==
    /\ \A r \in Renters : reserved[r] + Pending(r, "signed") = ledger[r]
    /\ totalReserved = SumFunctionOnSet(reserved, Renters)

\* The check against SpaceAvail is not atomic with the reservation it guards,
\* so the provider can promise more than it has; but never more than one
\* contract too many for each handler that may stand between the two.  The
\* owner may lower SpaceAvail below what is promised (UpdateConfig compares it
\* with nothing), so the bound is the SpaceAvail of the last contract agreed:
\* after a lowering none is agreed until the promises fit again.
OvercommitBounded ==
    LET largest == Max(Spaces)
        promised == SumFunctionOnSet(ledger, Renters)
    IN  promised > 0 => promised <= agreedSpace + (Cardinality(Clients) - 1) * largest

\* The metaserver never advertises less space than the provider has free:
\* UpdateMeta's snapshots are published late and out of order, but
\* reservations only grow.  The one exception is a raise of SpaceAvail that is
\* not at the metaserver: its PUT is on the way, failed, or was overtaken by a
\* snapshot taken before it; then what is shown came from a smaller SpaceAvail,
\* and it is no less than what was free of that.
AdvertisedNeverBelowFree ==
    /\ advertised.free >= advertised.space - totalReserved
    /\ advertised.space >= spaceAvail => advertised.free >= spaceAvail - totalReserved
=============================================================================
