--------------------------- MODULE UploadPipeline --------------------------
(***************************************************************************)
(* The renter's upload pipeline (renter/upload.go).                        *)
(*                                                                         *)
(* A request hands its file uploads, one at a time, to the upload thread,  *)
(* which hands them to a fixed pool of file workers.  A worker sends its   *)
(* blocks to the one block scheduler, which passes each on to the thread   *)
(* of the block's provider.  Every channel is unbuffered: a send and its   *)
(* receive are one action.  The request waits for the doneCh of each of    *)
(* its uploads, undoes them all if one failed, and saves the metadata.     *)
(*                                                                         *)
(* Every block takes one unit of storage, and FindStorage picks contracts  *)
(* as StorageManager!FindIsExact says: any that have room, and it fails    *)
(* only when there is no room.                                             *)
(***************************************************************************)
EXTENDS Integers, FiniteSets, SequencesExt, Lists

CONSTANTS
    Requests,       \* requests to upload a file or a folder
    Folders,        \* those that upload a folder
    Batch,          \* Batch[q]: the file uploads of q, in order
    BlocksOf,       \* BlocksOf[u]: the blocks of upload u, in order
    Workers,        \* the file workers (maxConcurrentUploads of them)
    Contracts,
    Providers,
    ProviderOf,     \* ProviderOf[c]: the provider contract c is with
    Capacity,       \* Capacity[c]: the blocks contract c has room for
    PrepareMayFail, \* whether prepareUpload may return an error
    NoUpload, NoBlock, NoContract

Uploads == UNION {ToSet(Batch[q]) : q \in Requests}
Blocks == UNION {ToSet(BlocksOf[u]) : u \in Uploads}
Owner(b) == CHOOSE u \in Uploads : b \in ToSet(BlocksOf[u])

ASSUME UploadAssumption ==
    /\ Folders \subseteq Requests
    /\ IsFiniteSet(Workers) /\ IsFiniteSet(Contracts) /\ IsFiniteSet(Requests)
    /\ Batch \in [Requests -> Seq(Uploads) \ {<<>>}]
    /\ \A q \in Requests :
          /\ IsInjective(Batch[q])
          /\ \A r \in Requests \ {q} : ToSet(Batch[q]) \cap ToSet(Batch[r]) = {}
    /\ BlocksOf \in [Uploads -> Seq(Blocks) \ {<<>>}]
    /\ \A u \in Uploads :
          /\ IsInjective(BlocksOf[u])
          /\ \A v \in Uploads \ {u} : ToSet(BlocksOf[u]) \cap ToSet(BlocksOf[v]) = {}
    /\ ProviderOf \in [Contracts -> Providers]
    /\ Capacity \in [Contracts -> Nat]
    /\ PrepareMayFail \in BOOLEAN
    /\ NoUpload \notin Uploads /\ NoBlock \notin Blocks /\ NoContract \notin Contracts

VARIABLES
    request,   \* request[q]: where q is, the upload it is at, the blocks it removes
    failed,    \* uploads whose err is set
    done,      \* uploads whose doneCh is closed
    saved,     \* uploads whose file the metaserver has
    thread,    \* the upload thread, and the upload in its hands
    active,    \* its activeUploads
    worker,    \* worker[w]: a fileUploadWorker in performUpload
    block,     \* block[b]: how far b is and the contract it is placed under
    sched,     \* the block in the scheduler's hands
    conn,      \* conn[p]: the upload thread of provider p and its authorization
    stored,    \* <<b, p>>: provider p stores block b
    free       \* free[c]: the storage manager's blob of contract c

vars == <<request, failed, done, saved, thread, active, worker, block, sched,
          conn, stored, free>>

IdleWorker == [pc |-> "idle", upload |-> NoUpload, pending |-> <<>>, next |-> 1,
               offline |-> {}, toReturn |-> <<>>]

Unplaced == [stage |-> "none", contract |-> NoContract]

Init ==
    /\ request = [q \in Requests |-> [pc |-> "new", at |-> 1, todo |-> <<>>]]
    /\ failed = {} /\ done = {} /\ saved = {}
    /\ thread = [pc |-> "select", upload |-> NoUpload]
    /\ active = 0
    /\ worker = [w \in Workers |-> IdleWorker]
    /\ block = [b \in Blocks |-> Unplaced]
    /\ sched = NoBlock
    /\ conn = [p \in Providers |-> "none"]
    /\ stored = {}
    /\ free = Capacity

Count(seq, c) == Cardinality({i \in DOMAIN seq : seq[i] = c})

Provider(b) == ProviderOf[block[b].contract]
BlocksIn(seq) == FlattenSeq([i \in DOMAIN seq |-> BlocksOf[seq[i]]])

-----------------------------------------------------------------------------
(* The upload thread.                                                      *)

Accept(q) ==
    /\ thread.pc \in {"select", "polling"}
    /\ request[q].pc = "sending"
    /\ LET i == request[q].at
       IN  /\ thread' = [pc |-> "handing", upload |-> Batch[q][i]]
           /\ request' = [request EXCEPT ![q] =
                 IF i = Len(Batch[q]) THEN [@ EXCEPT !.pc = "waiting", !.at = 1]
                                      ELSE [@ EXCEPT !.at = i + 1]]
    /\ UNCHANGED <<failed, done, saved, active, worker, block, sched, conn, stored, free>>

\* The thread hands an upload to a worker that is waiting for one; at the
\* limit it will do nothing but wait for an upload to finish.
HandUpTo(w, limit) ==
    /\ thread.pc = "handing"
    /\ worker[w].pc = "idle"
    /\ worker' = [worker EXCEPT ![w].pc = "preparing", ![w].upload = thread.upload]
    /\ active' = active + 1
    /\ thread' = [pc |-> IF active' >= limit THEN "full" ELSE "select", upload |-> NoUpload]
    /\ UNCHANGED <<request, failed, done, saved, block, sched, conn, stored, free>>

\* Mutant of Hand: one upload more than there are workers is accepted.
HandOneTooMany(w) == HandUpTo(w, Cardinality(Workers) + 1)

Hand(w) == HandUpTo(w, Cardinality(Workers))

\* A worker reports; outside of the limit the thread looks whether it may
\* shut the connections down.
FinishWith(w, count, quiet) ==
    /\ thread.pc \in {"select", "full"}
    /\ worker[w].pc = "reporting"
    /\ worker' = [worker EXCEPT ![w] = IdleWorker]
    /\ active' = active - count
    /\ thread' = [thread EXCEPT !.pc = IF quiet THEN "polling" ELSE "select"]
    /\ UNCHANGED <<request, failed, done, saved, block, sched, conn, stored, free>>

\* Mutant of Finish: the connections are reset whenever an upload ends.
FinishAny(w) == FinishWith(w, 1, TRUE)

\* Mutant of Finish: the upload is counted down twice.
FinishTwice(w) == FinishWith(w, 2, thread.pc = "select" /\ active = 2)

Finish(w) == FinishWith(w, 1, thread.pc = "select" /\ active = 1)

\* The default of the inner select: no request was waiting to send.
PollNothing ==
    /\ thread.pc = "polling"
    /\ thread' = [thread EXCEPT !.pc = "resetting"]
    /\ UNCHANGED <<request, failed, done, saved, active, worker, block, sched,
                   conn, stored, free>>

\* The scheduler takes resetProviderConns and closes the providers' queues.
ResetProviderConns ==
    /\ thread.pc = "resetting"
    /\ sched = NoBlock
    /\ thread' = [thread EXCEPT !.pc = "select"]
    /\ conn' = [p \in Providers |-> "none"]
    /\ UNCHANGED <<request, failed, done, saved, active, worker, block, sched, stored, free>>

UploadThread ==
    \/ \E q \in Requests : Accept(q)
    \/ \E w \in Workers : Hand(w) \/ Finish(w)
    \/ PollNothing
    \/ ResetProviderConns

-----------------------------------------------------------------------------
(* performUpload in a file worker.                                         *)

\* A failed prepareUpload returns without closing doneCh.
PrepareUpload(w) ==
    /\ worker[w].pc = "preparing"
    /\ LET u == worker[w].upload
       IN  \/ /\ worker' = [worker EXCEPT ![w].pc = "finding", ![w].pending = BlocksOf[u]]
              /\ UNCHANGED failed
           \/ /\ PrepareMayFail
              /\ worker' = [worker EXCEPT ![w].pc = "reporting"]
              /\ failed' = failed \cup {u}
    /\ UNCHANGED <<request, done, saved, thread, active, block, sched, conn, stored, free>>

\* The contracts with providers this upload has not seen failing.
Open(w) == {c \in Contracts : ProviderOf[c] \notin worker[w].offline}

FindStorage(w) ==
    /\ worker[w].pc = "finding"
    /\ LET pending == worker[w].pending
           room == SumFunctionOnSet(free, Open(w))
       IN  \/ \E place \in [DOMAIN pending -> Open(w)] :
                 /\ \A c \in Contracts : Count(place, c) <= free[c]
                 /\ free' = [c \in Contracts |-> free[c] - Count(place, c)]
                 /\ block' = [b \in Blocks |->
                       IF \E i \in DOMAIN pending : pending[i] = b
                       THEN [stage |-> "placed",
                             contract |-> place[CHOOSE i \in DOMAIN pending : pending[i] = b]]
                       ELSE block[b]]
                 /\ worker' = [worker EXCEPT ![w].pc = "queueing", ![w].next = 1]
                 /\ UNCHANGED failed
           \/ /\ room < Len(pending)
              /\ failed' = failed \cup {worker[w].upload}
              /\ worker' = [worker EXCEPT ![w].pc = "settling"]
              /\ UNCHANGED <<free, block>>
    /\ UNCHANGED <<request, done, saved, thread, active, sched, conn, stored>>

\* blockQ <- block
Queue(w) ==
    /\ worker[w].pc = "queueing"
    /\ sched = NoBlock
    /\ LET i == worker[w].next
           b == worker[w].pending[i]
       IN  /\ sched' = b
           /\ block' = [block EXCEPT ![b].stage = "scheduled"]
           /\ worker' = [worker EXCEPT ![w].next = i + 1,
                            ![w].pc = IF i = Len(worker[w].pending) THEN "waiting" ELSE @]
    /\ UNCHANGED <<request, failed, done, saved, thread, active, conn, stored, free>>

\* All blocks of the round are done; those that failed go another round.
CollectAvoiding(w, avoided(_)) ==
    /\ worker[w].pc = "waiting"
    /\ LET pending == worker[w].pending
           failures == Those(pending, {b \in Blocks : block[b].stage = "bad"})
       IN  /\ \A b \in ToSet(pending) : block[b].stage \in {"ok", "bad"}
           /\ worker' = [worker EXCEPT
                 ![w].pending = failures,
                 ![w].offline = avoided(failures),
                 ![w].toReturn = @ \o [i \in DOMAIN failures |-> block[failures[i]].contract],
                 ![w].pc = IF failures = <<>> THEN "settling" ELSE "finding"]
           /\ block' = [b \in Blocks |-> IF b \in ToSet(failures) THEN Unplaced ELSE block[b]]
    /\ UNCHANGED <<request, failed, done, saved, thread, active, sched, conn, stored, free>>

\* Mutant of Collect: only the providers that failed in this round are avoided.
CollectLastRound(w) ==
    CollectAvoiding(w, LAMBDA failures : {Provider(b) : b \in ToSet(failures)})

Collect(w) ==
    CollectAvoiding(w, LAMBDA failures :
        worker[w].offline \cup {Provider(b) : b \in ToSet(failures)})

\* The blocks that were stored in vain: they stay with their providers.
GivenUp(w) ==
    IF worker[w].pending = <<>> THEN {}
    ELSE {b \in ToSet(BlocksOf[worker[w].upload]) : block[b].stage = "ok"}

SettleReturning(w, extra(_)) ==
    /\ worker[w].pc = "settling"
    /\ free' = [c \in Contracts |-> free[c] + Count(worker[w].toReturn, c) + extra(c)]
    /\ block' = [b \in Blocks |->
                   IF b \in GivenUp(w) THEN [block[b] EXCEPT !.stage = "abandoned"] ELSE block[b]]
    /\ done' = done \cup {worker[w].upload}
    /\ worker' = [worker EXCEPT ![w].pc = "reporting", ![w].toReturn = <<>>]
    /\ UNCHANGED <<request, failed, saved, thread, active, sched, conn, stored>>

\* Mutant of Settle: the storage of the blocks that were stored is not returned.
SettleFailuresOnly(w) == SettleReturning(w, LAMBDA c : 0)

\* AddBlobs, then close(doneCh).
Settle(w) ==
    SettleReturning(w, LAMBDA c : Cardinality({b \in GivenUp(w) : block[b].contract = c}))

FileUploadWorker(w) ==
    PrepareUpload(w) \/ FindStorage(w) \/ Queue(w) \/ Collect(w) \/ Settle(w)

-----------------------------------------------------------------------------
(* The block scheduler and the threads of the providers.                   *)

Dial ==
    /\ sched # NoBlock
    /\ conn[Provider(sched)] = "none"
    /\ conn' = [conn EXCEPT ![Provider(sched)] = "dialing"]
    /\ UNCHANGED <<request, failed, done, saved, thread, active, worker, block,
                   sched, stored, free>>

\* The thread of the provider must be done with its last block.
Forward ==
    /\ sched # NoBlock
    /\ conn[Provider(sched)] \in {"open", "refused"}
    /\ \A b \in Blocks : block[b].stage = "sending" => Provider(b) # Provider(sched)
    /\ block' = [block EXCEPT ![sched].stage = "sending"]
    /\ sched' = NoBlock
    /\ UNCHANGED <<request, failed, done, saved, thread, active, worker, conn, stored, free>>

\* The outcome is kept for every block until the connections are reset.
AuthorizeRenter(p) ==
    /\ conn[p] = "dialing"
    /\ \E answer \in {"open", "refused"} : conn' = [conn EXCEPT ![p] = answer]
    /\ UNCHANGED <<request, failed, done, saved, thread, active, worker, block,
                   sched, stored, free>>

\* Mutant of PutBlock: an error of the provider is taken for success.
PutBlockUnchecked(p, b) ==
    /\ block[b].stage = "sending" /\ Provider(b) = p
    /\ block' = [block EXCEPT ![b].stage = "ok"]
    /\ \/ conn[p] = "open" /\ stored' = stored \cup {<<b, p>>}
       \/ UNCHANGED stored
    /\ UNCHANGED <<request, failed, done, saved, thread, active, worker, sched, conn, free>>

\* The provider may store the block and the answer still be lost.
PutBlock(p, b) ==
    /\ block[b].stage = "sending" /\ Provider(b) = p
    /\ \/ /\ conn[p] = "open"
          /\ block' = [block EXCEPT ![b].stage = "ok"]
          /\ stored' = stored \cup {<<b, p>>}
       \/ /\ block' = [block EXCEPT ![b].stage = "bad"]
          /\ \/ conn[p] = "open" /\ stored' = stored \cup {<<b, p>>}
             \/ UNCHANGED stored
    /\ UNCHANGED <<request, failed, done, saved, thread, active, worker, sched, conn, free>>

BlockUploadScheduleThread == Dial \/ Forward

BlockUploadThread(p) == AuthorizeRenter(p) \/ \E b \in Blocks : PutBlock(p, b)

-----------------------------------------------------------------------------
(* The request: doUploads, then uploadFile or doUploadDir.                 *)

Upload(q) ==
    /\ request[q].pc = "new"
    /\ request' = [request EXCEPT ![q].pc = "sending"]
    /\ UNCHANGED <<failed, done, saved, thread, active, worker, block, sched,
                   conn, stored, free>>

UndoBlocks(q, blocks) ==
    request' = [request EXCEPT ![q] = [pc |-> "undoing", at |-> 1, todo |-> blocks]]

\* Mutant of Undo: the last upload to undo is left out.
UndoButLast(q, uploads) ==
    UndoBlocks(q, IF uploads = <<>> THEN <<>> ELSE BlocksIn(Front(uploads)))

Undo(q, uploads) == UndoBlocks(q, BlocksIn(uploads))

\* When all uploads of the batch are done and one failed, those that did not
\* are undone.
AwaitUploads(q) ==
    /\ request[q].pc = "waiting"
    /\ LET i == request[q].at
           good == Those(Batch[q], Uploads \ failed)
       IN  /\ Batch[q][i] \in done
           /\ IF i < Len(Batch[q]) THEN request' = [request EXCEPT ![q].at = i + 1]
              ELSE IF good # Batch[q] THEN Undo(q, good)
              ELSE request' = [request EXCEPT ![q].pc = "making"]
    /\ UNCHANGED <<failed, done, saved, thread, active, worker, block, sched,
                   conn, stored, free>>

MakeNewFile(q) ==
    /\ request[q].pc = "making"
    /\ \/ request' = [request EXCEPT ![q] = [@ EXCEPT !.pc = "saving", !.at = 1]]
       \/ Undo(q, Batch[q])
    /\ UNCHANGED <<failed, done, saved, thread, active, worker, block, sched,
                   conn, stored, free>>

\* saveFile may fail after the metaserver took the file.  A single file's
\* upload is undone then.  Of a folder, the folders are removed first, and the
\* documents in them with them (swept), unless the metaserver refuses; then
\* the files saved before are removed one by one, each with its blocks, unless
\* its document is gone already, or the DELETE is refused or its answer lost.
\* The uploads not saved yet are left as they are.
SaveFile(q) ==
    /\ request[q].pc = "saving"
    /\ LET i == request[q].at
           before == SubSeq(Batch[q], 1, i - 1)
       IN  \/ /\ saved' = saved \cup {Batch[q][i]}
              /\ request' = [request EXCEPT ![q] =
                    IF i = Len(Batch[q]) THEN [@ EXCEPT !.pc = "returned"]
                                         ELSE [@ EXCEPT !.at = i + 1]]
           \/ \E posted \in SUBSET {Batch[q][i]} :
                 IF q \in Folders
                 THEN \E swept \in SUBSET (ToSet(before) \cup posted) :
                      \E removed \in SUBSET (ToSet(before) \ swept) :
                        /\ saved' = (saved \cup posted) \ (swept \cup removed)
                        /\ Undo(q, Those(before, removed))
                 ELSE saved' = saved \cup posted /\ Undo(q, Batch[q])
    /\ UNCHANGED <<failed, done, thread, active, worker, block, sched, conn, stored, free>>

\* removeBlock, for one block after the other; the storage of a block whose
\* provider does not answer is not reclaimed.
RemoveBlock(q) ==
    /\ request[q].pc = "undoing"
    /\ request[q].todo # <<>>
    /\ LET b == Head(request[q].todo)
       IN  /\ request' = [request EXCEPT ![q].todo = Tail(@)]
           /\ \/ /\ block' = [block EXCEPT ![b].stage = "removed"]
                 /\ stored' = stored \ {<<b, Provider(b)>>}
                 /\ free' = [free EXCEPT ![block[b].contract] = @ + 1]
              \/ /\ block' = [block EXCEPT ![b].stage = "stranded"]
                 /\ \E gone \in SUBSET {<<b, Provider(b)>>} : stored' = stored \ gone
                 /\ UNCHANGED free
    /\ UNCHANGED <<failed, done, saved, thread, active, worker, sched, conn>>

ReturnError(q) ==
    /\ request[q].pc = "undoing"
    /\ request[q].todo = <<>>
    /\ request' = [request EXCEPT ![q].pc = "failed"]
    /\ UNCHANGED <<failed, done, saved, thread, active, worker, block, sched,
                   conn, stored, free>>

RequestThread(q) ==
    AwaitUploads(q) \/ MakeNewFile(q) \/ SaveFile(q) \/ RemoveBlock(q) \/ ReturnError(q)

-----------------------------------------------------------------------------
Next ==
    \/ UploadThread
    \/ \E w \in Workers : FileUploadWorker(w)
    \/ BlockUploadScheduleThread
    \/ \E p \in Providers : BlockUploadThread(p)
    \/ \E q \in Requests : Upload(q) \/ RequestThread(q)

\* Every goroutine that can run runs, and every call to a provider or to the
\* metaserver returns; nobody has to ask for an upload.
Fairness ==
    /\ WF_vars(UploadThread)
    /\ \A w \in Workers : WF_vars(FileUploadWorker(w))
    /\ WF_vars(BlockUploadScheduleThread)
    /\ \A p \in Providers : WF_vars(BlockUploadThread(p))
    /\ \A q \in Requests : WF_vars(RequestThread(q))

Spec == Init /\ [][Next]_vars /\ Fairness

-----------------------------------------------------------------------------
\* The type of the state, with activeUploads and the free storage in bounds.
TypeOK ==
    /\ request \in [Requests ->
          [pc : {"new", "sending", "waiting", "making", "saving", "undoing",
                 "returned", "failed"},
           at : Nat \ {0}, todo : Seq(Blocks)]]
    /\ failed \subseteq Uploads /\ done \subseteq Uploads /\ saved \subseteq Uploads
    /\ thread \in [pc : {"select", "polling", "handing", "full", "resetting"},
                   upload : Uploads \cup {NoUpload}]
    /\ active \in 0..Cardinality(Workers)
    /\ worker \in [Workers ->
          [pc : {"idle", "preparing", "finding", "queueing", "waiting", "settling",
                 "reporting"},
           upload : Uploads \cup {NoUpload}, pending : Seq(Blocks), next : Nat \ {0},
           offline : SUBSET Providers, toReturn : Seq(Contracts)]]
    /\ block \in [Blocks ->
          [stage : {"none", "placed", "scheduled", "sending", "ok", "bad", "abandoned",
                    "removed", "stranded"},
           contract : Contracts \cup {NoContract}]]
    /\ sched \in Blocks \cup {NoBlock}
    /\ conn \in [Providers -> {"none", "dialing", "open", "refused"}]
    /\ stored \subseteq Blocks \X Providers
    /\ \A c \in Contracts : free[c] \in 0..Capacity[c]

\* The connections are shut down only when no block is on its way: between
\* the last worker's report and the reset, no worker starts (upload.go:412).
ResetWhenQuiet ==
    thread.pc = "resetting" =>
        /\ sched = NoBlock
        /\ \A w \in Workers : worker[w].pc = "idle"
        /\ \A b \in Blocks : block[b].stage \notin {"placed", "scheduled", "sending"}

\* No block of an upload is tried again with a provider that failed a block
\* of it in any earlier round, which is what its storage to return tells.
RetryElsewhere ==
    \A w \in Workers : worker[w].pc \in {"queueing", "waiting"} =>
        \A b \in ToSet(worker[w].pending) : \A c \in ToSet(worker[w].toReturn) :
            Provider(b) # ProviderOf[c]

\* An upload request that returned success has its files with the metaserver
\* and every block of theirs with the provider the metadata names, whatever
\* was retried, undone or lost meanwhile.
AcknowledgedIsStored ==
    \A q \in Requests : request[q].pc = "returned" =>
        \A u \in ToSet(Batch[q]) :
            /\ u \in saved
            /\ \A b \in ToSet(BlocksOf[u]) :
                  block[b].stage = "ok" /\ <<b, Provider(b)>> \in stored

\* An upload that succeeded was undone: each block is gone from the provider
\* its metadata names, or keeps its storage since the removal was not answered.
Undone(u) ==
    \A b \in ToSet(BlocksOf[u]) :
        \/ block[b].stage = "removed" /\ <<b, Provider(b)>> \notin stored
        \/ block[b].stage = "stranded"

\* An upload that gave up uses no storage of the renter's.  Whatever it had
\* stored stays with the providers all the same, and nobody removes it
\* (upload.go:495).
WasGivenUp(u) == \A b \in ToSet(BlocksOf[u]) : block[b].stage \in {"none", "abandoned"}

\* What a request that failed leaves behind.  If one of its uploads failed, the
\* others were undone; so was a single file that could not be saved.  A folder
\* of which a file could not be saved leaves uploads as they are, listed or not
\* (upload.go:335); but those that are listed still have all their blocks.
UndoIsComplete ==
    \A q \in Requests : request[q].pc = "failed" =>
        \A u \in ToSet(Batch[q]) :
            /\ u \in failed => WasGivenUp(u)
            /\ u \notin failed => \/ Undone(u)
                                  \/ q \in Folders /\ ToSet(Batch[q]) \cap failed = {}
            /\ q \in Folders /\ u \in saved =>
                  \A b \in ToSet(BlocksOf[u]) :
                      block[b].stage = "ok" /\ <<b, Provider(b)>> \in stored

\* The blocks whose storage under c is taken: by uploads that are not done,
\* or by those that are.
Taken(c, isDone) ==
    {b \in Blocks : /\ block[b].contract = c
                    /\ block[b].stage \notin {"abandoned", "removed"}
                    /\ (Owner(b) \in done) = isDone}

\* The storage of failed blocks that the workers are to return.
Owed(c) == SumFunctionOnSet([w \in Workers |-> Count(worker[w].toReturn, c)], Workers)

Held == [c \in Contracts |-> Cardinality(Taken(c, FALSE)) + Owed(c)]
Used == [c \in Contracts |-> Cardinality(Taken(c, TRUE))]

Ledger == INSTANCE StorageLedger WITH signed <- Contracts, held <- Held, used <- Used

\* The pipeline implements the storage ledger: with retries, failures and
\* removals in any order, every unit of storage is returned or used once.
ImplementsLedger == Ledger!Spec

\* A request whose files can all be prepared returns, although the thread,
\* its workers and the scheduler wait for each other on unbuffered channels,
\* and although the preparation of other files fails or providers are away.
RequestsReturn ==
    \A q \in Requests :
        request[q].pc = "sending" ~>
            \/ request[q].pc \in {"returned", "failed"}
            \/ \E u \in ToSet(Batch[q]) : u \in failed \ done

\* upload.go:53: doneCh is "Closed when the upload is complete"; :376, the
\* upload thread "notifies the waiting request thread when the upload is
\* complete": every request returns.
EveryRequestReturns ==
    \A q \in Requests :
        request[q].pc = "sending" ~> request[q].pc \in {"returned", "failed"}
=============================================================================
