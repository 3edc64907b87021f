# SkyBin in TLA+

SkyBin is a peer-to-peer storage market. A *renter* pays *providers* for space,
splits its files into erasure-coded blocks and stores each block with a
provider; a central *metaserver* keeps the accounts, the contracts and the
metadata of the files. This directory holds TLA+ models of the parts where the
order of events matters, TLC configurations that check them, and proofs that
TLAPS checks.

    tlc -workers 2 -config MCProviderStore.cfg MCProviderStore
    tlapm ProviderStoreProofs.tla

`PROJECT.json` names, for every definition that stands for code, the lines it
stands for; for every checked property a change of the code that breaks it; and
every hazard we found while reading, with the property that looks after it or
the reason why none does.

## 1. The system

### Parts, their state and their operations

| Part | State | Operations | Runs as |
|---|---|---|---|
| Provider block store and contract ledger (`provider/blocks.go`, `negotiate.go`, `provider.go`, `db.go`) | files under `blocks/<renter>/`, sqlite tables `blocks` and `contracts`, counters per renter and in total (in memory, behind `provider.mu`), the provider's record at the metaserver | StoreBlock, DeleteBlock, GetBlock, AuditBlock, NegotiateContract, UpdateMeta, LoadFromDisk | one goroutine per HTTP request |
| Provider configuration and pricing (`pricing.go`, `provider.go:208`) | `Config`, `StorageRate` | UpdateConfig, updatePricing, a pricing thread | handlers and one thread |
| Provider activity statistics (`activity.go`, `db.go:267`) | buckets of hours and days in sqlite | update, cycle, query | inside the other handlers |
| Renter storage manager (`renter/storage.go`) | the freelist: at most one blob per contract | AddBlob(s), FindStorageExclude, AvailableStorage | behind `sm.mu` |
| Renter upload pipeline (`upload.go`) | `activeUploads`, per-upload blocks and blobs, connections | Upload, uploadVersion, upload thread, file workers, block scheduler, one thread per provider | goroutines and unbuffered channels |
| Renter download pipeline (`download.go`) | `activeDownloads`, `activeBlocks`, the queues, `restoreQ` | Download, download thread, a goroutine per file, scheduler, one worker per provider | goroutines and buffered channels |
| Block restoration (`restore.go`) | `restoreQ`, a block's old and new location | restoreBlockBatch | one thread |
| Storage reservation (`reserve.go`) | the renter's contracts | CreateStorageEstimate, ConfirmStorageEstimate | HTTP handlers |
| Renter files and snapshot (`renter.go`) | file tree, `blocksToDelete`, `snapshot.json` | CreateFolder, RenameFile, ShareFile, RemoveFile, saveSnapshot | HTTP handlers, behind `r.mu` |
| Metaserver contracts and payments (`contracts.go`, `paymentrunner.go`, `paypal.go`) | balances, contracts, payments, transactions | post/put/deleteContract, the payment run every five minutes, deposits and withdrawals | HTTP handlers and one thread |
| Metaserver file metadata (`files.go`, `mongoDB.go`) | files, versions, permissions | post/put/delete of each | HTTP handlers |
| Metaserver audits (`auditrunner.go`) | `AuditPassed` of blocks inside the versions | the audit run every five minutes | one thread |
| Authorization (`authorization.go`) | outstanding handshakes, tokens | challenge, response, logout | HTTP handlers |

### How they interact

    renter upload ----PUT block----> provider store <---GET block---- renter download
      |   ^                             |      ^                        |
      |   | blobs                       |      | DELETE block           | restoreQ
      v   |                             |      |                        v
    storage manager <--contracts-- reservation |                  block restoration
      |                                 |      |                        |
      +------ saveFile ------> metaserver <----+--- UpdateMeta ---------+
                                 (files, contracts, payments, audits)

The pipelines of the renter talk over Go channels; everything else is an HTTP
call that may fail before or after the other side acted on it.

### What is hard, and what makes each part correct

* **Provider store.** Files, tables and counters change one after the other
  under no common lock, two requests for one block overlap, and the process can
  die between any two steps. Correct means: what a handler acknowledged stays
  true; no row of a block without a contract; the counters are those of the
  tables; the space promised and the space filled stay near what there is, also
  when the owner changes how much that is.
* **Storage manager.** A search walks candidates that are removed while it
  walks; blobs come back in any order. Correct means: a search is exact, blocks
  are spread, one blob per contract, no byte lost or invented.
* **Upload pipeline.** Four kinds of goroutines exchange everything over
  unbuffered channels in both directions; failed blocks are tried elsewhere; a
  batch is undone when one file fails; the connections are reset when all is
  quiet. Correct means: nobody waits for each other, an acknowledged file is
  stored, storage is used or returned exactly once.
* **Download pipeline.** Bounded queues joined to a cycle, limits kept by
  counters, a queue that is closed and replaced, parity blocks asked for by
  counting. Correct means: requests return, no send on a closed queue, limits
  hold, shards keep their places, success is earned.
* **Payments.** Every balance is read, changed and written back with calls to
  PayPal in between; a payment is a credit, a debit and a record, each of which
  may be the last; and nobody refuses a negative fee. Correct means: no balance
  below zero (but a provider's that negative fees took there), no money from
  nothing, no provider paid ahead of time, every contract paid in the end.
* **File versions, restoration, audits.** The renter's requests, its restorer and
  the metaserver's auditor each write back what they read before, and the
  renter's requests share file objects through pointers. Correct means: a version
  that is listed is stored where the list says, an acknowledged version stays
  until somebody asks to remove it, free space is really free, restoration ends.
* **Folders, names and sharing.** A document, the owner's directory and the
  sharees' directories are separate writes, a folder's children are found and
  changed by their names, and requests are chains of calls that stop at the first
  error. Correct means: a file that exists can be found, one that was saved stays,
  a share that was answered holds.
* **Reservation.** An estimate is confirmed by a chain of calls that stops at the
  first error, and again by the next attempt. Correct means: its space enters the
  freelist once, and only when all of it is paid.
* **Authorization.** Handshakes shared by concurrent logins. Not modelled
  (section 8).

## 2. Modules

| Module | What it is |
|---|---|
| `ProviderStore` | the provider's store and ledger: handlers, crashes, restarts |
| `ProviderStoreProofs` | theorems about it |
| `StorageLedger` | abstract: what the renter's storage accounting promises |
| `StorageManager` | the freelist algorithms and operations; implements `StorageLedger` |
| `StorageManagerProofs` | theorems about it, the refinement among them |
| `UploadPipeline` | the upload goroutines and the requests; implements `StorageLedger` |
| `UploadPipelineProofs` | theorems about it, the refinement among them |
| `DownloadPipeline` | the download goroutines, queues and requests |
| `DownloadPipelineProofs` | theorems about it |
| `Billing` | the metaserver's balances, contracts and payments |
| `BillingProofs` | theorems about it |
| `FileVersions` | the versions of one file: requests, restorer, auditor, snapshot |
| `FileVersionsProofs` | theorems about it |
| `FileDirectory` | names, folders, directories and sharing of one owner's files |
| `FileDirectoryProofs` | theorems about it |
| `Lists` | membership in a list and sublists |
| `DataLemmas` | lemmas about sums, lists and sublists that the proofs share |
| `MC*` | constants for TLC |

A definition whose comment starts with "Mutant of" changes the definition after
it the way a plausible bug would; nothing uses it, it is there to show that a
property notices.

### ProviderStore

| Model | Code |
|---|---|
| `file[b]` | the path `blocks/<renter>/<b>`: absent, torn, whole, or being written by a handler |
| `rows[b]`, `ledger[r]` | rows of the tables `blocks` and `contracts` (the latter summed) |
| `known`, `reserved`, `used`, `totalReserved` | `provider.renters` and its `StorageReserved`, `StorageUsed`, and `provider.StorageReserved` |
| `spaceAvail`, `savedSpace` | `provider.Config.SpaceAvail`, and the same in `config.json` |
| `advertised.free` | `SpaceAvail` of the provider's record at the metaserver |
| `job[c]` | one goroutine: its place, block, renter, amount; HTTP handlers, and the pricing thread while it updates |
| `snap[c]` | the record that c's UpdateMeta is about to send |
| `advertised.space`, `agreedSpace` | history: the `SpaceAvail` that the advertised space came from, and the one that the last contract agreed fitted |
| `workload` | bound: the IDs drawn in a behaviour, and how often the configuration and the prices are updated in it |
| `promise[b]` | history: what the last undisturbed request about `b` returned |

A step ends where another handler can see a difference: at each file operation,
each SQL statement, each critical section of `provider.mu`. `StoreCheck` reads
the counters without the lock, as `blocks.go:20` does. Each fallible call has
its error branch, with the clean-up the code does there: a copy that fails
removes whatever is at the path by then (`blocks.go:44`), a database error in
DeleteBlock leaves the row (`blocks.go:144`). `Restart` stands for the end of
the process at any moment and for `LoadFromDisk`; it reads the rows and stops
at one whose renter has no contract (`provider.go:186`). A request that is
malformed, or not authorized, changes nothing and has no action.

UpdateConfig sets `SpaceAvail` in memory, compares it with nothing, and then takes
three calls that may fail: UpdateMeta, the prices with another UpdateMeta when the
policy is not fixed, and the write of `config.json` (one step here). The first
failure ends it and leaves the new value in memory only, until a restart reads the
old one. Four callers run UpdateMeta (negotiations, both places of UpdateConfig,
the pricing thread); each takes its snapshot under the lock and sends it later, and
fails or finds nothing changed (`MetaSkip`, `MetaReturn`).

Block IDs are drawn at random by one renter, so `Owner[b]` is a constant. The
renter's code sends most blocks once and deletes them once; the IDs in `Shared`
stand for those it may send again while a request for them is under way (a
retry after a lost answer, a restored block).

### StorageManager and StorageLedger

`AddBlob`, `Candidates`, `Search` and `FindStorage` are the list algorithms of
`storage.go`, index for index, as operators: a search is a function of the number
of its turns.
The random starting position is any position. The actions are the calls the
rest of the renter makes under `sm.mu`, and the confirmation of an estimate, which
ends in one: the providers sign (one action, nothing of this module changes), each
contract is posted, all are added. An estimate is a constant sequence of
contracts, since its IDs are new; a client may confirm it as often as it likes and
twice at once. Providers sign a contract again (their table's index on contracts
is not unique), and the metaserver takes its fee again before it finds the payment
there; so all that keeps the space from being counted twice is the unique index on
payments in `integration/setup_db.js`, which is `Payable`. `held` and `used` count the blobs the
callers have, which the freelist itself does not know.

`StorageLedger` is the promise: the bytes of a contract are free, held by an
upload, or used, and only move between these. `StorageManager` and
`UploadPipeline` both implement it; each has its refinement mapping next to
`Ledger == INSTANCE StorageLedger`. The pipeline's own free storage is one
number per contract, and its `FindStorage` may choose any contracts that have
room and fails only if there is none. This is what `FindIsExact` says of the
algorithm, so the two models meet there.

### UploadPipeline

Every channel is unbuffered (`uploadQ`, `inputQ`, `finishedUploads`, `blockQ`,
the providers' queues), so a send and its receive are one action, enabled when
both ends are there.

| Model | Code |
|---|---|
| `request[q]` | the HTTP goroutine: `doUploads`, `uploadFile`, `uploadDir` |
| `thread`, `active` | `uploadThread` and `activeUploads`; "polling" is the inner `select`, "full" the receive at the limit |
| `worker[w]` | `fileUploadWorker` in `performUpload`: `pending`, `offline`, `toReturn` are its locals |
| `block[b].stage` | the way of a block: placed, scheduled, sending, ok or bad; then abandoned (its upload gave up), removed, or stranded (its removal was not answered) |
| `sched`, `conn[p]` | `blockUploadScheduleThread` and a provider's `blockUploadThread` with its one authorization |
| `stored` | what providers really hold: an answer may be lost |
| `failed`, `done`, `saved` | `upload.err`, `doneCh`, the metaserver's files |

When a file of a folder cannot be saved, the folders are removed first, which
deletes the documents of the files saved so far, so each file's own removal fails
and its blocks stay (`SaveFile`: swept); if removing the folders failed, the files'
removals each go through or not (removed, or kept).

Each block takes one unit of storage; compression, encryption and erasure
coding either succeed or make `prepareUpload` fail.

### DownloadPipeline

The queues `blockQ` and those of the workers are buffered, so they are
sequences with the limits `BlockQSize` and `WorkQSize` (32 and 16 in the code).
`outcome[b]` is how fetching a block ended: fine, missing, or corrupt (its hash
is wrong). `answers` is the set of goroutines each of which is sending one block
on `blockCh` (`download.go:366` starts one for each block, so the worker itself
never waits). `down[d].shards` is `blockDownloads`. `Restart` is `close(blockQ)`
and the new scheduler; what the old one still has belongs to downloads that
ended without waiting (`download.go:446`) and is not heard of any more.

The erasure coder takes at most 256 blocks, fewer than `maxOpenFiles`, so one
file always fits the limit on files; this is the assumption
`Data[d] <= MaxOpenFiles`.

### Billing

| Model | Code |
|---|---|
| `balance[u]`, `gone` | the documents in `renters` and `providers` |
| `statement[u]` | the `transactions` of u, summed: deposits and receipts count up, fees and withdrawals down |
| `contracts` | the collection `contracts`, in its order |
| `payment[c]` | the document in `payments`: `Balance`, and the time since `LastPaymentTime` |
| `job[h]` | one handler: its place, the document it read (`read`) and what it will add (`amount`) |
| `runner` | `runPayments`: the contracts ahead, the provider's document, the amount |
| `bank` | what PayPal took in less what it paid out |
| `raced`, `torn`, `paid` | history: documents in two hands at once, moves cut in two, what was paid for a contract |

A handler's step ends at each call to the database or to PayPal. The computation
between a read and the next call is part of the read, so a withdrawal that finds
too little has no action, like every request that changes nothing. The two kinds
of users have handlers that differ in nothing but the collection, so `Withdraw`,
`PutUser` and `DeleteUser` are for both. Each of a handler's calls may fail
(`FailHandler`), a write of a deleted document always does; an error ends the
whole run of the payments (`FailRunner`). The floating-point share of a fee is
the integer share: the instance's numbers are exact.

The history variables draw the line between what the code promises and the races
its own comments admit (`contracts.go:92`, `paypal.go:147`, `paymentrunner.go:80`):
two writers of one document do lose an update. The properties say that nobody
*else* is touched by it, that no balance gets negative by it, and which two cuts
(after a payout, after a credit) are the only ones that create money.

A fee is any integer: its rate is the provider's (`provider.go:231`, `reserve.go:181`)
and the handler asks only that the balance covers it (`contracts.go:86`). A negative
fee is added to the renter's balance at once and paid by the provider as time goes
by. `MayOwe(u)` says that u is the provider of such a contract.

### FileVersions

| Model | Code |
|---|---|
| `doc` | the `versions` of the file's document in `files`, or `Gone` |
| `counter` | the file's document in the collection `versions` |
| `arrays`, `list` | `file.Versions` of the renter's file objects, a length and a shared array; one object per file list pulled, the last is the cache |
| `disk`, `since` | `snapshot.json`; blocks stored since it was written |
| `free`, `used`, `has`, `bad` | the freelist, the providers' counters and files, the corrupted ones |
| `thread[t]` | the HTTP goroutine of `uploadVersion`, `RemoveFile`, `RenameFile` or `ListFiles`: the object `e`, the number of the version to delete (`num`) and the array slot it points to |
| `queue`, `restorer` | `restoreQ` and `restoreBlockBatch`: `todo` is `badBlocks`, `excluded` is `badProviders`, `back` is `blobsToReturn` |
| `auditor` | `runAudits`: the versions read and not written back yet |
| `acked`, `asked` | history: the uploads acknowledged, and those whose removal a request asked for (by number, or as the latest when an overwriting upload began) |
| `suspect`, `dropped`, `overtaken`, `misnumbered`, `slack` | history: the versions and the space that a named mishap hit |

A version is its number, the upload that made its blocks, and where each block
is said to be. Go's slices are modelled as what they are, because the code
depends on it: `removeFileVersion` shifts the array under the pointers of other
requests, `newVersion := *currVersion` in the restorer copies the slice header,
so that a restored block moves in the cache at once, and a refresh replaces the
object other requests hold. So a removal deletes the number it was asked to
(`renter.go:526`) and then removes the blocks of whatever has come under its pointer
(`:530`), and an overwriting upload deletes what is last in the object by then
(`upload.go:170`). A call to the metaserver succeeds, is refused, or
loses its answer. An index out of range is a panic: it ends the request (the HTTP
server recovers it), and in the restorer's goroutine it ends the process
(`RestoredPut`, `Restart`).

The restorer's test for blocks restored before compares block IDs, which a
restored block keeps; so no batch is ever filtered (`restore.go:92`), and the
model has no filter either. A version's blocks all have one upload, so comparing
that stands for comparing the IDs. The rounds' blocks are stored one after the other
in one action: nothing else reads the outcome of a round before it ends but the
version's locations and the counters, which other requests change for their own
blocks only.

Storing and removing the blocks of a version are single actions here, because
`UploadPipeline` and `ProviderStore` have their steps. What these two show is used: an upload
that succeeded has its blocks where it says, a failed removal changes nothing.

### FileDirectory

| Model | Code |
|---|---|
| `docs` | the documents of the owner's files: name, `isdir`, access list |
| `entries[u]` | `Files` of the owner's document, `Shared` of a sharee's |
| `objs`, `cache` | the renter's file objects, and those in `r.files` |
| `blocks` | files whose blocks are with providers |
| `pc`, `file`, `found`, `call` | one request of the owner with the metaserver's handler it is in: its place, the file, the children found, the rest of its locals |
| `writer` | a handler that read a renter's document and will write it whole (`contracts.go:94`, `paypal.go:162`, `metaserver/renter.go:176`) |
| `cut`, `moved`, `misnamed`, `swept`, `lapsed`, `overwritten` | history: what a named mishap hit |

Each call to the database is an action: a PUT that renames a folder reads the file
(`PutFile`), finds what is under the name it read (`FindRenamed`), and writes one
document after the other (`RenameChild`, `UpdateFile`). A name is the sequence of its components,
and a folder's children are those with its name as a prefix, as the code finds
them, in the cache and in the database. The index that makes names unique is
created by `integration/setup_db.js`, the only place where the repository says
so; `Taken` is that index. A PUT of a file takes the whole document, access list
included, from the renter's cached object. `RenameFolder` writes the children it
found one by one; the renter has sent them one by one before. It has changed the names in
its cache before the first of them is sent, and a refused PUT leaves them so
(`StartRename`); a removal takes the folder's children from the cache
(`StartRemove`).

What the versions of a file hold is the other module's; here the blocks of a file
are there or not.

## 3. Runs

| Run | Instance | Shows |
|---|---|---|
| `provider_store` | 2 renters, 3 blocks of which 2 are drawn, 2 handlers, contracts of 2, a provider whose space is 2 or 4, up to 2 updates of its configuration or prices; ~530,000 states | `PromiseKept`, `NoOrphanRows`, the counters (`ReservedAccountsForContracts`), and the bounds on what is filled, promised and advertised |
| `storage_manager` | 2 estimates of 3 contracts, 2 confirmations at once, 2 providers, blocks of 1 or 2, up to 3 at once; ~12,000 states | searches are exact and spread; the list keeps one blob per contract; the ledger is implemented |
| `upload_folder` | one folder, 2 files, 3 blocks, 2 workers, 2 providers; ~100,000 states | retries go elsewhere, acknowledged files are stored, resets are quiet, the ledger is implemented |
| `upload_crowd` | a folder of 2 files, one of 2 blocks, and a single file, 2 workers, 1 provider; ~315,000 states | requests return (liveness); what failed requests undo and leave |
| `upload_hang` | as `upload_crowd` | a request whose file cannot be prepared never returns |
| `download_wide` | 3 downloads of 2 requests, parity 2, 2 providers, limits 2 and 2; 1.6 million states | limits, shards, earned success, no send on a closed queue |
| `download_deep` | 5 blocks at one provider with queues of 1; ~50,000 states | nobody waits for each other: requests return |
| `download_unrecovered` | as `download_wide` | corrupted blocks of failed downloads are submitted as recovered |
| `billing` | a renter, 2 providers, 3 contracts (one with a negative fee) of which 2 are posted, 2 handlers, one failure; ~680,000 states | balances, statements, conservation of money, payments on time and in full |
| `file_requests` | a file of one block, 2 providers, 3 requests of any kind, two at once, 2 uploads, one audit, one failed call; ~1.0 million states | `ListedIsStored`, `VersionsKept` |
| `file_restore` | 2 corrupted blocks, 2 batches, a request that renames, removes or lists, one fault, one crash; ~290,000 states | `SpaceIsReal`; every batch is finished (`RestoreEnds`) |
| `folders` | 2 threads and 3 requests on 2 folders with a file in each, one sharee, one failed call, one whole document written; ~1.5 million states | `FilesAreFound`, `SavedIsKept`, `SharesHold` |

### Bounds, and why they are enough

* *Two handlers* in the store: its races are between pairs (check and act, copy
  and remove, insert and restart). `OvercommitBounded` and `OverfillBounded` grow
  with the number of handlers, and their formulas have that number in them. The
  theorems are for any number.
* `b1` and `b3` are sent once, by one renter, and together fill more than one of its
  contracts; `b2` is in `Shared`. A behaviour has b1 and b2, or b1 and b3 with two
  updates of the configuration: two stores of one renter that pass the check together,
  and a SpaceAvail lowered below what is promised and raised again, both occur.
  `MaxRows = 2` lets an ID be listed twice, enough for "every row of the ID" and
  "one row" to differ. `MaxDrift = 1` lets the counter of such a block go
  negative by overlapping deletes, and stops it there.
* *Three contracts*: the smallest list on which a candidate removed in the
  middle of the walk makes a third one be passed over. Capacities 2, 2, 3 and
  blocks of 1 and 2 give leftovers and give none. Two confirmations at once are a
  request and its retry.
* *Three uploads for two workers* are needed to make the thread reach its limit
  while a request is waiting. One of the files has two blocks, so that an upload can
  give up with one block stored. What a worker does in several rounds is in
  `upload_folder` too, where one contract cannot take all blocks and a retry can
  therefore run out of storage.
* *Five blocks*: queue of one, scheduler, worker's queue of one, worker, and one
  more that finds everything full.
* `MaxDownloads = 2`, `MaxOpenFiles = 2` with files of 2, 1 and 1 data blocks:
  each of the two limits is the one that stops a download in some state.

* *Two handlers and the runner*: a lost update takes two holders of one document:
  two handlers, or a handler and the runner. `MaxRequests = 1` counts what users do
  next to the contract that is posted, so a race still has its two sides; one
  fault is enough to cut any move. `Duration = 2` and a fee of 1 make an amount
  that truncates to nothing after one tick; the third contract has a fee of -10, and
  `MaxContracts = 2` of the three happen. `MaxAge = Duration`: the runner is never later
  than a contract is long. (Later, it would take more than a negative fee from the
  provider, since `amountToPay` is capped from above only; the properties about
  providers except such fees anyway.) One of the contracts and one of the two
  providers can be deleted, so each occurs with and without. Amounts
  have two digits of cents: for others `Formatted` pays out more than is debited
  (5 cents become 0.5) and `Solvent` fails.

* *One file* in `FileVersions`: versions of different files share nothing but
  space. For the restorer it has two blocks, the fewest of which one can fail and
  the other succeed in a round, which is when the restorer mistakes one for the
  other; the third provider has room for two blocks, so a restoration can also run
  out of it. Where the blocks of a version are does not change by requests, so one
  block is enough for them. The three are, for instance, an upload that makes a
  second version and two removals of the first one at once (what the first moves up
  loses its blocks to the second), or two uploads at once of which one overwrites,
  and a third request that looks on. Requests and restoration are two
  configurations of one module: together they do not finish, and what couples
  them, a whole-file PUT from an older copy, is in both (`UpdateFile`,
  `RestoredPut`).
* *Two requests at once out of three* in `FileDirectory`: every mishap of its
  properties takes two requests, or one and a failed call, or one and the writer;
  the third sets the scene (a share before a rename, a list before a removal, a
  rename that is refused before a removal).
  Four files are the two at the start and a folder upload.

### Deadlock

TLC checks for deadlock in the store, the storage manager and the billing. The pipelines'
configurations, and those of the files, turn it off: a renter that has answered
all requests of the instance is idle, which is no error. That nothing is stuck before is what the
liveness properties say.

### Fairness

`UploadPipeline` and `DownloadPipeline` have weak fairness for each goroutine's
actions: Go's scheduler runs every goroutine that can run, and a channel
operation whose other end is ready happens. A call to a provider or to the
metaserver returns, with an answer or an error (the transport reports a broken
connection). Nothing is assumed about which answer comes, and users need not
ask for anything: `Upload` and `Download` are not fair. Weak fairness of the
upload thread as a whole does not promise that it serves a *certain* request
first; the instances are finite, so every request is served in the end.

`Billing` has weak fairness for the payment runner, which a ticker starts for as
long as the process lives, and for time. Failures are not fair, and finitely many
(`MaxFaults`); with a failure in every run no payment would ever be made.

`FileVersions` has weak fairness for the restorer alone, a goroutine that lives as
long as the process and whose calls answer or fail. Clients, the auditor, faults
and crashes are not fair; a restart empties the queue, which ends a batch too.

## 4. What is proved

Every theorem is about the specification a run checks, for every value of the
constants, from the named assumptions of the module (sets are finite, sizes are
natural numbers, sentinels are no members) and nothing else. Its pattern is
always the same: an inductive invariant, shown to hold at first and to survive
every action, one lemma per action or per variable that an action may change,
and a temporal step at the end. Liveness under fairness is not proved (section 5).

### The provider (`ProviderStoreProofs`)

All the invariants its run checks: `OrphanFree`, `PromisesKept`, `TypeCorrect`,
`ReservationsAccounted`, `OvercommitIsBounded`, `AdvertisedSafely`,
`OverfillIsBounded`, and `DiskTypeCorrect` and `UsedAccounted` on which they stand.

1. `DiskInv`: the types, and that a handler past a check carries the block, the
   renter and the amount it checked (`Carries`).
2. `LedgerInv`: `NoOrphanRows` alone is not inductive, because an insert of a
   row happens long after the check that the renter is known. `ContractFirst`
   bridges the gap: a known renter has a contract row, a negotiation that stands
   before the counter has inserted one, and a store past its check belongs to a
   renter who has one. Contract rows are never deleted (`LedgerGrows`), so this
   survives every other step, and `Restart`, which forgets the handlers and
   recomputes `known` from the rows.
3. `PromiseInv`: what an undisturbed handler may rely on at each label (`Holds`:
   its file is still its own while it copies, whole once copied, its row there
   once inserted, and so on for a delete), that no other handler has its block
   (`Apart`), and that a promise about a block ends when a request for it starts
   (`Unclaimed`). `WorkStep`, `QuietStep` and `StartStep` are the three kinds of
   steps; each action is one of them.
4. `ContractInv`: the sum of the contracts' rows is the counter plus what the
   negotiations between the two are about to add; that sum is within
   `agreedSpace`, the SpaceAvail of the last check that let a contract pass, by one
   contract for each handler past the check (the handler that agreed last is the one
   that is not too many); and a snapshot sent to the metaserver is older, hence not
   less, than what is free now of the SpaceAvail it was taken from.
5. `UsedInv`: a block that is sent once is in the hands of one handler, whose
   label says whether its row is there and counted (`Tracks`), so the counter is the
   sum of the rows up to the requests in between. `FillInv` adds that rows and the
   blocks past the check are within the contracts by one block for each other
   handler: a check reads a counter that lacks at most what the others have under way.

### The money (`BillingProofs`)

`BalancesStayPositive`, `NotPaidAhead`, `TypeCorrect`, `StatementsExplain` and
`MoneyIsCovered`: all the invariants its run checks, for fees of either sign.

1. `MoneyInv`: balances are integers; what a handler holds *covers* what it
   will subtract (`Covers`), which no other writer can change since it is the
   handler's own copy. `DebtInv` adds that a balance below zero, in a document or in
   a copy of it, is that of a provider of a contract tried with a negative fee.
2. `PaymentInv`, for the contracts whose fee is not negative: a contract is posted once (`PostInv`), what was paid
   for it and what is left add up to its fee, but for the share the runner has
   just credited, and shares are linear in time up to rounding (`OnTime`), from
   which the nonlinear `NeverAhead` follows.
3. `FreshInv`: a document that was in one hand at a time is as that hand read it.
   With it `ExplainInv`, for each user the transactions and the amounts under way
   add up to the balance, and `SolventInv`, until a contract with a negative fee is
   posted the surplus over all users is never below what was there at first.

`MoneyIsCovered` has a hypothesis, that no amount is paid out above what was
debited: `Formatted(cents) <= cents` for the cents that occur. The code does not
grant it: `paypal.go:60` writes the cents 1 to 9 without their zero. The run takes
amounts for which it holds; the hazard is listed.

### The freelist (`StorageManagerProofs`)

`ManagerTypes`, `OneBlob`, `FindsWhatFits`, `SearchesSpread` and the refinement
`LedgerKept`: all the properties its run checks, for any contracts, estimates,
clients, block sizes and lists; and `BytesConserved`, the sum that follows from the
ledger. That block sizes are finitely many is assumed (`StorageAssumption`; they are
64-bit numbers), so that amounts can be summed over them.

1. The algorithms are functions of lists, and most lemmas are about lists alone.
   `AddBlobsOf`: blobs that come back, in any order, leave one blob per contract and
   add what they have, contract by contract. `SearchInv`: after each turn of a
   search the candidates are the positions that still fit, the room there was is the
   room that is left and the blobs taken, and so is what each contract has. A search
   that ends early has no candidate, so there is no room left (`NoRoom`), and its
   blobs put back make the list it took them from: a list with one blob per contract
   is known by its contracts and what each has (`SameLists`).
2. `Spread` is the invariant of the round-robin. Let i be a position that could give
   every block, and j another. j has given at most one more than i, plus one for each
   other position used up (`Drained`); and not even that one if j is met before i from
   the next turn on (`MetFirst`). A turn of i or j changes the order in which the two
   are met; a position that is dropped may change it too, since its successor is passed
   over, but is then one of those used up and pays for it. That is why the bound has
   this term.
3. `ManagerInv`, the invariant of the actions. For the list its two properties are
   enough (`ListOK`). That an estimate is added once needs `ConfirmInv`: of the
   requests that confirm it only one can be past its first contract, because that
   contract's payment is unique, and once the contracts are added none can get there.
4. The refinement maps lists and bags of blobs to sums per contract. A search, a
   return or a removal takes from one sum what it gives to another (`CountsList`,
   `CountsOne`), a confirmation brings in the capacity of each of its contracts
   (`NewBlobs`).

### The uploads (`UploadPipelineProofs`)

`ResetQuiet`, `RetriesElsewhere`, `AcknowledgedStored`, `UndoComplete` and
`TypeCorrect`, and the refinement `LedgerImplemented`: every step is a step of
`StorageLedger` or leaves it alone. The invariant `IInv` follows an upload through
the hands it is in (`Handed`: its request, the thread, one worker, or done), a
block through its stages (`Placed`: from its place to the scheduler to the
provider, awaited by its worker all the while), what a round of a worker has left
(`Jobs`) and what a request knows of its uploads (`Asked`). That no freelist entry
exceeds its contract is not in `IInv`: it follows from the refinement, since a
step of the ledger leaves the sum of a contract as it is (`StorageConserved`).

### The downloads (`DownloadPipelineProofs`)

`LimitsKept`, `AlignedShards`, `EarnedSuccess`, `QuietClose` and `TypeCorrect`: all
the invariants its run checks. `IInv` says that a download is started once
(`Staged`), that the two counters of the thread are the number and the blocks of
the downloads it started and did not hear of (`Counted`), that shards are
numbered in order and each beyond the data blocks makes up for a failure
(`Aligned`), and that a block is in one queue or one hand at a time (`Routed`) and
answered once (`Answered`), so `pending` and `failed` are what they count
(`Tallied`).

### The folders (`FileDirectoryProofs`)

`FilesFound`, `SharesAreKept`, `SavedStays` and `TypeCorrect`: all the invariants
its run checks, for any number of requests, sharees, names and files and
failures of any call.

1. `DirectoryInv`: a document and its entry are written and removed by different
   calls, so the invariant says what a request between the two knows. IDs are
   drawn from a counter, so nobody else has the one a POST is about to insert
   (`Fresh`); what a removal is about to take from the directory has no document
   any more, or was taken out of it by a rename (`FoundIsGone`); sharing
   changes no owner's directory. Removing the children is the step that needs
   care: those it removes and those it found before differ by what was posted and
   renamed in between, and only the renamed ones can be left without an entry.
2. `SharesInv`: between the two writes of a share the request knows that the
   first still holds, or that a mishap is recorded (`ShareInProgress`).
3. `TypesInv`: what each request holds at each of its places, from which names
   stay distinct.
4. `SavedInv`: a file belongs to the request that makes it until the user is told
   (`OwnersApart`); what requests and the cache know of files is true
   (`Faithful`); the cached children of a folder that is being removed are under
   it, or gone, or a mishap is recorded (`Busy`): a rename while the removal is
   under way must say so of what the removal has found or will empty (`Noted`),
   and a removal that begins with names that the metaserver does not have must say
   so at once (`misnamed`).

### The versions of a file (`FileVersionsProofs`)

`TypeCorrect`, `SpaceReal`, `ListedStored` and `KeptVersions`: all the invariants
its runs check, for any number of requests, providers, blocks, restarts, batches,
audits and mishaps.

Versions are copied everywhere: into the renter's objects, of which a request may
hold an old one, the snapshot, the bodies of whole-file PUTs, the restorer and the
auditor, and each copy may be written back. The proof therefore rests on one
relation between a state and the next (`Source`, `CopiesStep`): a copy anybody has
after a step was a copy before it, with its blocks where they were, or moved by the
restorer to where they landed; or was just pushed; or was made up by a request whose
refresh failed. The invariant on top of it:

1. `TypesInv`: an object is a length within its array, no two objects share an
   array, and the slots that requests and the restorer keep exist still (`Points`):
   arrays never get shorter, but for a restart, which ends everybody who points.
2. `StoreInv` and `SpaceInv`: the freelist together with the blobs that the
   restorer keeps (`Kept`) fits the contract, and so does the freelist of the
   snapshot, to which a restart goes back (`DiskFits`). Neither part is inductive
   without the other. A round returns no more blobs than those that did not land
   and those it mistook for failures (`RoundCounts`).
3. `IdsInv`: IDs and numbers come from counters, so nobody has a copy of a version
   that is not posted, and the copies of one upload have one number, unless a refresh
   failed (`OneNumber`).
4. `StoredInv`: *every* copy of what is listed has its blocks where it says, not
   only the listed one, because a later write may bring any of them; and the number
   that a removal deleted is not listed any more (`RemovedUnlisted`), nor pushed by
   anybody (`NumbersNamed`). It then removes the blocks of what its pointer is to by
   now: a version with that number, or another one that slipped under the pointer,
   which `suspect` records (`SlippedOn`).
5. `NumbersInv`: while no object has a wrong number, no list and no object has a number
   twice (`Apart`) and a number belongs to one upload (`OneUpload`), which is one
   that was asked for if a removal is about to delete its number (`NamedAsked`). So
   deleting a number takes away what was asked for, and an overwriting upload, which
   picks its number late, that or what `overtaken` records (`AckedKept`).

Two of the history variables are as precise as they are because the proof found
them too coarse: versions slip under a kept pointer in two places of
`updateFileVersion` as well (`renter.go:682`, `:685`, not only when a
version is removed, `:531`), so `suspect` is taken where the blocks are removed,
from what the pointer is to then; and the old version that is put back when an update
failed can come to lie over another one, after which a cached object has a number
twice (`misnumbered`).

### What they rest on (`DataLemmas`)

Facts about sums over sets and over lists, lists without repetitions, sublists
and flattened lists. A sum of `FiniteSetsExt` is a recursive function over sets;
its facts are proved without an induction rule, from a minimal counterexample
(`MinimalSubset`, `TableExists`), as are those about `Those` (`Lists`), the sublist
of the elements of a set, from the least index at which they would fail. That a
function over 0..n is what its steps make it is shown the same way, by counting
up to n (`CountUp`), in the proofs about the searches of the freelist too.

## 5. What is only model-checked

* Liveness: `PaidInFull`, the two `RequestsReturn`, `RestoreEnds`. The prover has no
  rules for fairness and ENABLED.
  What is proved instead is the safety that they rest on: limits, counters, queues
  that are closed when they are quiet, balances.
* The two disagreements of section 6, which are violations.

## 6. Where the code and its documentation part

Each is a run that TLC ends with a counterexample; `PROJECT.json` quotes the
sentence.

1. `upload_hang` (`upload.go:441`): a failed preparation leaves `doneCh` open.
   `RequestsReturn` shows that this is the only reason for a request to hang.
2. `download_unrecovered` (`download.go:412`): blocks of a failed download go to
   the restorer.

Others show in the exceptions that a property makes, each of which the model
needs in order to hold:

* `OvercommitBounded`: the space check (`negotiate.go:19`, "Determine if provider
  has sufficient space") is not atomic with the reservation; the bound says how
  far it can be exceeded.
  It holds for the SpaceAvail that the last contract fitted; the owner may set it
  below what is promised (`provider.go:221`).
* `AdvertisedNeverBelowFree`: a raise of SpaceAvail whose UpdateMeta failed, or was
  overtaken by an older one, is not at the metaserver (`provider.go:237`).
* `OverfillBounded`: the check of a block (`blocks.go:20`) is not atomic with the
  count either.
* `UndoIsComplete`: the blocks that an upload had stored when it gave up are not
  removed (`upload.go:495-506`) although their storage is offered again, and neither
  are the blocks of a folder that could not be saved: its documents go first
  (`upload.go:335`), so removing each file finds none.
* `NeverOverdrawn`, `Solvent`, `NeverAhead`, `PaidInFull` except contracts with
  negative fees, which `contracts.go:86` lets pass.
* `FilesAreFound`: the three ways in which a document loses its entry, `cut`,
  `overwritten` and `moved` (a removal found it and a rename took it away).
* `SavedIsKept`: a saved file loses its blocks when a rename takes it out of a folder
  that is being removed (`moved`, `renter.go:501`); when the cache has it in the
  folder and the metaserver does not (`misnamed`): RenameFile changes the cached
  names first, and a refused PUT does not take that back (`renter.go:424`, `:438`), so a
  later removal of the folder destroys files that stay listed elsewhere, with no
  two requests at once; and it goes with whatever else is under the name of a
  folder removed, if the folder has another name by then or an upload that failed
  removes it (`swept`, `upload.go:283`). The comment at `renter.go:495`, that deleting
  a folder "will delete the children's metadata as well", holds for the children the
  metaserver has, whose blocks need not be those of the children cached.
* `SharesHold`: the two ways in which a share ends by itself, `lapsed` and
  `overwritten`.
* `ListedIsStored`, `VersionsKept`: a lost answer to a POST makes the renter remove
  the blocks of a listed version (`upload.go:166`); of two removals at once the
  first moves the versions behind under the second's pointer, so that the second
  deletes one number and removes the blocks of another version, which stays listed
  (`renter.go:526`, `:530`, `:531`); an overwriting upload deletes the last version
  of an object that another upload has refreshed meanwhile, so that the version just
  acknowledged to the other user goes without anybody's asking (`upload.go:170`,
  `:187`); a failed refresh leaves a number
  0 under which the metaserver may know another version (`upload.go:184`); whole-file
  PUTs bring back deleted versions and drop posted ones (`renter.go:439`,
  `renter.go:683`, the race that `restore.go:191` mentions).
* `SpaceIsReal`: the restorer returns the storage of blocks it did store
  (`restore.go:164`).

## 7. Plan

The parts whose state several actors change are modelled. What is left, in this
order:

1. The reservations that a half-confirmed estimate leaves with providers, as a
   composition of `ProviderStore`, `Billing` and the confirmation.
2. The handshakes of concurrent logins.

## 8. What is not modelled, and why

* Encryption, compression, erasure coding, hashes and signatures: data
  transformations that succeed or fail.
* Shutting down the threads of the renter: it happens only when the process
  ends, with nothing left to be seen.
* The cache update of the storage manager: the function the renter installs
  always returns an error (`renter.go:112-115`).
* Parsing of HTTP requests, configuration files, command-line flags; the
  JavaScript and Python front ends and test drivers.
* `PUT` of a contract, which nothing in the repository sends, and of a payment,
  which never finds its document (`mongoDB.go:705` selects by `contract`, the
  documents have `contractid`). Registration of users.
* `PUT` of one version and of one permission, and the client's `UnshareFile`:
  the first two are sent by integration tests only and are left out; the last is
  sent by them only too, but is the one way a share ends at its owner's side, so
  `StartUnshare` is there.
* The choice of the providers of an estimate (`createStorageEstimate`), which
  changes nothing; and what a half-confirmed estimate leaves behind: reservations
  with the providers before the one that refused (`reserve.go:203`), and a fee that
  was taken.
* Authorization: the handshakes of one user share a nonce
  (`authorization.go:122`), tokens are signatures.
* `GetFile` of a file that is not cached, which asks the metaserver; a sharee's
  downloads. Folder names with characters that mean something in a regular
  expression, which `RenameFolder` and `RemoveFolderChildren` do not escape.
* `blocksToDelete`, which is saved and read back and used by nobody; the dashboard's
  audit of one block, which writes one version back as the audit run does.
* The parts listed under `not_modelled` in `PROJECT.json`, each with its reason.
