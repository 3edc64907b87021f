------------------------- MODULE DownloadPipeline -------------------------
(***************************************************************************)
(* The renter's download pipeline (renter/download.go).                    *)
(*                                                                         *)
(* A request sends its batch of file downloads to the download thread,     *)
(* which runs each in a goroutine, within limits on their number and on    *)
(* the temporary files.  A download sends its blocks through a buffered    *)
(* queue to a scheduler, and that to a worker for each provider; it asks   *)
(* for one parity block for every block that fails.  When the thread is    *)
(* out of work it closes the queue and starts another scheduler.           *)
(*                                                                         *)
(* A block is <<d, i>>: the i-th of the version that d downloads, counted  *)
(* from one.  That a file has no more data blocks than maxOpenFiles is     *)
(* the erasure coder's limit on blocks.  Every request makes fileDownloads *)
(* of its own, one for each file it downloads.                             *)
(***************************************************************************)
EXTENDS Integers, FiniteSets, SequencesExt

CONSTANTS
    Requests,        \* requests to download a file or a folder
    Batch,           \* Batch[q]: the downloads of q, in order
    Data,            \* Data[d]: the data blocks of d's version
    Parity,          \* Parity[d]: its parity blocks
    Providers,
    Location,        \* Location[d][i]: the provider of the i-th block
    MaxDownloads,    \* maxConcurrentDownloads
    MaxOpenFiles,    \* maxOpenFiles
    BlockQSize,      \* the buffer of the scheduler's queue (32)
    WorkQSize,       \* the buffer of a provider's queue (16)
    TempMayFail,     \* whether creating a temporary file may fail
    NoBlock

Downloads == UNION {ToSet(Batch[q]) : q \in Requests}
Blocks == UNION {{d} \X (1..(Data[d] + Parity[d])) : d \in Downloads}

ASSUME DownloadAssumption ==
    /\ IsFiniteSet(Requests)
    /\ \A q \in Requests :
          /\ Batch[q] \in Seq(ToSet(Batch[q])) /\ IsInjective(Batch[q])
          /\ \A r \in Requests \ {q} : ToSet(Batch[q]) \cap ToSet(Batch[r]) = {}
    /\ Data \in [Downloads -> Nat \ {0}] /\ Parity \in [Downloads -> Nat]
    /\ \A b \in Blocks : Location[b[1]][b[2]] \in Providers
    /\ MaxDownloads \in Nat \ {0} /\ MaxOpenFiles \in Nat
    /\ \A d \in Downloads : Data[d] <= MaxOpenFiles
    /\ BlockQSize \in Nat \ {0} /\ WorkQSize \in Nat \ {0}
    /\ TempMayFail \in BOOLEAN
    /\ NoBlock \notin Blocks

VARIABLES
    request,       \* request[q]: where q is, and the download it waits for
    thread,        \* the download thread, its batch and its place in it
    active,        \* activeDownloads
    activeBlocks,  \* activeBlocks
    down,          \* down[d]: performDownload's goroutine, and what it counts
    outcome,       \* outcome[b]: how fetching b ended
    blockQ,        \* the scheduler's queue
    sched,         \* the block in the scheduler's hands
    workQ,         \* workQ[p]: the queue of provider p's worker
    hand,          \* hand[p]: the block p's worker is fetching
    answers,       \* blocks whose goroutine is sending on blockCh
    rebuilt,       \* downloads the erasure decoder ran for without an error
    restoreQ       \* downloads whose corrupted blocks were submitted

queues == <<blockQ, sched, workQ, hand>>
vars == <<request, thread, active, activeBlocks, down, outcome, blockQ, sched,
          workQ, hand, answers, rebuilt, restoreQ>>

\* shards: the blocks of blockDownloads, in order.
NewDownload == [pc |-> "none", shards |-> <<>>, pending |-> 0, failed |-> 0, err |-> FALSE]

\* performDownload is at work and may send to the queue it was given.
Working == {"creating", "sending", "collecting", "aborted"}

Init ==
    /\ request = [q \in Requests |-> [pc |-> "new", at |-> 1]]
    /\ thread = [pc |-> "idle", batch |-> <<>>, at |-> 1]
    /\ active = 0 /\ activeBlocks = 0
    /\ down = [d \in Downloads |-> NewDownload]
    /\ outcome = [b \in Blocks |-> "none"]
    /\ blockQ = <<>> /\ sched = NoBlock
    /\ workQ = [p \in Providers |-> <<>>]
    /\ hand = [p \in Providers |-> NoBlock]
    /\ answers = {} /\ rebuilt = {} /\ restoreQ = {}

At(b) == Location[b[1]][b[2]]

-----------------------------------------------------------------------------
(* The requests.                                                           *)

Download(q) ==
    /\ request[q].pc = "new"
    /\ request' = [request EXCEPT ![q].pc = "sending"]
    /\ UNCHANGED <<thread, active, activeBlocks, down, outcome, queues, answers,
                   rebuilt, restoreQ>>

\* <-download.doneCh, for one download of the batch after the other.
AwaitDownloads(q) ==
    /\ request[q].pc = "waiting"
    /\ \/ /\ request[q].at > Len(Batch[q])
          /\ request' = [request EXCEPT ![q].pc = "returned"]
       \/ /\ request[q].at <= Len(Batch[q])
          /\ down[Batch[q][request[q].at]].pc \in {"reporting", "over"}
          /\ request' = [request EXCEPT ![q].at = @ + 1]
    /\ UNCHANGED <<thread, active, activeBlocks, down, outcome, queues, answers,
                   rebuilt, restoreQ>>

-----------------------------------------------------------------------------
(* downloadThread.                                                         *)

\* The next batch, also when it was only polled for.
Dequeue(q) ==
    /\ thread.pc \in {"idle", "select"}
    /\ request[q].pc = "sending"
    /\ request' = [request EXCEPT ![q].pc = "waiting"]
    /\ thread' = [pc |-> "batch", batch |-> Batch[q], at |-> 1]
    /\ UNCHANGED <<active, activeBlocks, down, outcome, queues, answers,
                   rebuilt, restoreQ>>

\* Mutant of Fits: the blocks of the next download are not counted.
FitsUncounted(d) == active < MaxDownloads /\ activeBlocks <= MaxOpenFiles

Fits(d) == active < MaxDownloads /\ Data[d] + activeBlocks <= MaxOpenFiles

Start ==
    /\ thread.pc = "batch"
    /\ thread.at <= Len(thread.batch)
    /\ LET d == thread.batch[thread.at]
       IN  /\ Fits(d)
           /\ down' = [down EXCEPT ![d].pc = "creating"]
           /\ activeBlocks' = activeBlocks + Data[d]
    /\ active' = active + 1
    /\ thread' = [thread EXCEPT !.at = @ + 1]
    /\ UNCHANGED <<request, outcome, queues, answers, rebuilt, restoreQ>>

\* <-finishedDownloads, to make room for the next download or to drain.
ReceiveFinishedOf(d, blocks) ==
    /\ \/ /\ thread.pc = "batch"
          /\ thread.at <= Len(thread.batch)
          /\ ~Fits(thread.batch[thread.at])
       \/ thread.pc = "draining" /\ active > 0
    /\ down[d].pc = "reporting"
    /\ down' = [down EXCEPT ![d].pc = "over"]
    /\ active' = active - 1
    /\ activeBlocks' = activeBlocks - blocks
    /\ UNCHANGED <<request, thread, outcome, queues, answers, rebuilt, restoreQ>>

\* Mutant of ReceiveFinished: the parity blocks are given back too.
ReceiveFinishedAll(d) == ReceiveFinishedOf(d, Data[d] + Parity[d])

ReceiveFinished(d) == ReceiveFinishedOf(d, Data[d])

BatchStarted ==
    /\ thread.pc = "batch"
    /\ thread.at > Len(thread.batch)
    /\ thread' = [thread EXCEPT !.pc = "select"]
    /\ UNCHANGED <<request, active, activeBlocks, down, outcome, queues, answers,
                   rebuilt, restoreQ>>

PollNothing ==
    /\ thread.pc = "select"
    /\ thread' = [thread EXCEPT !.pc = "draining"]
    /\ UNCHANGED <<request, active, activeBlocks, down, outcome, queues, answers,
                   rebuilt, restoreQ>>

\* close(blockQ): what is still queued belongs to downloads that are over,
\* and the old scheduler and workers get through it unheard.
RestartWhen(quiet) ==
    /\ thread.pc = "draining" /\ quiet
    /\ thread' = [pc |-> "idle", batch |-> <<>>, at |-> 1]
    /\ blockQ' = <<>> /\ sched' = NoBlock
    /\ workQ' = [p \in Providers |-> <<>>]
    /\ hand' = [p \in Providers |-> NoBlock]
    /\ UNCHANGED <<request, active, activeBlocks, down, outcome, answers,
                   rebuilt, restoreQ>>

\* Mutant of Restart: one download may still be running.
RestartEarly == RestartWhen(active <= 1)

Restart == RestartWhen(active = 0)

DownloadThread ==
    \/ \E q \in Requests : Dequeue(q)
    \/ Start
    \/ \E d \in Downloads : ReceiveFinished(d)
    \/ BatchStarted \/ PollNothing \/ Restart

-----------------------------------------------------------------------------
(* performDownload.                                                        *)

\* newBlockDownload, for the next data block or the parity block that makes
\* up for the last failure.  Without a temporary file the download fails: at
\* once among the data blocks, after the blocks under way otherwise.
CreateBlock(d) ==
    /\ down[d].pc = "creating"
    /\ LET n == Len(down[d].shards)
           i == IF n < Data[d] THEN n + 1 ELSE Data[d] + down[d].failed
       IN  \/ down' = [down EXCEPT ![d].pc = "sending", ![d].shards = Append(@, i)]
           \/ /\ TempMayFail
              /\ down' = [down EXCEPT ![d].err = TRUE,
                             ![d].pc = IF n < Data[d] THEN "aborted" ELSE "collecting"]
    /\ UNCHANGED <<request, thread, active, activeBlocks, outcome, queues, answers,
                   rebuilt, restoreQ>>

\* blockQ <- bd
SendBlock(d) ==
    /\ down[d].pc = "sending"
    /\ Len(blockQ) < BlockQSize
    /\ blockQ' = Append(blockQ, <<d, Last(down[d].shards)>>)
    /\ down' = [down EXCEPT ![d].pending = @ + 1,
                   ![d].pc = IF Len(down[d].shards) < Data[d] THEN "creating" ELSE "collecting"]
    /\ UNCHANGED <<request, thread, active, activeBlocks, outcome, sched, workQ, hand,
                   answers, rebuilt, restoreQ>>

\* A block arrives on blockCh; a failure is made up for, if it can be.
CollectIf(d, b, madeUp) ==
    /\ down[d].pc = "collecting"
    /\ b \in answers /\ b[1] = d
    /\ answers' = answers \ {b}
    /\ LET bad == outcome[b] # "ok"
           failed == down[d].failed + 1
       IN  down' = [down EXCEPT
             ![d].pending = @ - 1,
             ![d].failed = IF bad THEN failed ELSE @,
             ![d].err = @ \/ (bad /\ failed > Parity[d]),
             ![d].pc = IF bad /\ madeUp /\ failed <= Parity[d] THEN "creating" ELSE @]
    /\ UNCHANGED <<request, thread, active, activeBlocks, outcome, queues, rebuilt, restoreQ>>

\* Mutant of Collect: a corrupted block is not made up for.
CollectMissing(d, b) == CollectIf(d, b, ~down[d].err /\ outcome[b] = "missing")

\* Mutant of Collect: parity is asked for although the download has failed.
CollectAnyway(d, b) == CollectIf(d, b, TRUE)

Collect(d, b) == CollectIf(d, b, ~down[d].err)

\* The data blocks that performDownload submits as recovered.
CorruptedData(d) == {b \in Blocks : b[1] = d /\ b[2] <= Data[d] /\ outcome[b] = "corrupt"}

\* reconstructFile, unless the download failed; the corrupted blocks are
\* submitted either way.  Then doneCh is closed.
Finish(d) ==
    /\ \/ down[d].pc = "collecting" /\ down[d].pending = 0
       \/ down[d].pc = "aborted"
    /\ \E decoded, placed \in BOOLEAN :
          /\ placed => decoded
          /\ decoded => ~down[d].err
          /\ down' = [down EXCEPT ![d].pc = "reporting", ![d].err = ~placed]
          /\ rebuilt' = IF decoded THEN rebuilt \cup {d} ELSE rebuilt
    /\ restoreQ' = IF down[d].failed > 0 /\ CorruptedData(d) # {}
                   THEN restoreQ \cup {d} ELSE restoreQ
    /\ UNCHANGED <<request, thread, active, activeBlocks, outcome, queues, answers>>

PerformDownload(d) ==
    CreateBlock(d) \/ SendBlock(d) \/ (\E b \in Blocks : Collect(d, b)) \/ Finish(d)

-----------------------------------------------------------------------------
(* The scheduler and the workers.                                          *)

ScheduleTake ==
    /\ sched = NoBlock /\ blockQ # <<>>
    /\ sched' = Head(blockQ)
    /\ blockQ' = Tail(blockQ)
    /\ UNCHANGED <<request, thread, active, activeBlocks, down, outcome, workQ, hand,
                   answers, rebuilt, restoreQ>>

SchedulePass ==
    /\ sched # NoBlock
    /\ Len(workQ[At(sched)]) < WorkQSize
    /\ workQ' = [workQ EXCEPT ![At(sched)] = Append(@, sched)]
    /\ sched' = NoBlock
    /\ UNCHANGED <<request, thread, active, activeBlocks, down, outcome, blockQ, hand,
                   answers, rebuilt, restoreQ>>

BlockScheduleThread == ScheduleTake \/ SchedulePass

WorkerTake(p) ==
    /\ hand[p] = NoBlock /\ workQ[p] # <<>>
    /\ hand' = [hand EXCEPT ![p] = Head(workQ[p])]
    /\ workQ' = [workQ EXCEPT ![p] = Tail(@)]
    /\ UNCHANGED <<request, thread, active, activeBlocks, down, outcome, blockQ, sched,
                   answers, rebuilt, restoreQ>>

WorkerFetchWhen(p, ready) ==
    /\ hand[p] # NoBlock /\ ready
    /\ \E end \in {"ok", "missing", "corrupt"} :
          outcome' = [outcome EXCEPT ![hand[p]] = end]
    /\ answers' = answers \cup {hand[p]}
    /\ hand' = [hand EXCEPT ![p] = NoBlock]
    /\ UNCHANGED <<request, thread, active, activeBlocks, down, blockQ, sched, workQ,
                   rebuilt, restoreQ>>

\* Mutant of WorkerFetch: the worker itself waits until blockCh is received from.
WorkerFetchSync(p) == WorkerFetchWhen(p, down[hand[p][1]].pc = "collecting")

\* downloadBlock; a goroutine of its own sends the block on blockCh.
WorkerFetch(p) == WorkerFetchWhen(p, TRUE)

DownloadWorker(p) == WorkerTake(p) \/ WorkerFetch(p)

-----------------------------------------------------------------------------
Next ==
    \/ \E q \in Requests : Download(q) \/ AwaitDownloads(q)
    \/ DownloadThread
    \/ \E d \in Downloads : PerformDownload(d)
    \/ BlockScheduleThread
    \/ \E p \in Providers : DownloadWorker(p)

\* Every goroutine that can run runs, and every call to a provider returns;
\* nobody has to ask for a download.
Fairness ==
    /\ \A q \in Requests : WF_vars(AwaitDownloads(q))
    /\ WF_vars(DownloadThread)
    /\ \A d \in Downloads : WF_vars(PerformDownload(d))
    /\ WF_vars(BlockScheduleThread)
    /\ \A p \in Providers : WF_vars(DownloadWorker(p))

Spec == Init /\ [][Next]_vars /\ Fairness

-----------------------------------------------------------------------------
\* The type of the state.
TypeOK ==
    /\ request \in [Requests -> [pc : {"new", "sending", "waiting", "returned"},
                                 at : Nat \ {0}]]
    /\ thread \in [pc : {"idle", "batch", "select", "draining"},
                   batch : Seq(Downloads), at : Nat \ {0}]
    /\ active \in Nat /\ activeBlocks \in Nat
    /\ down \in [Downloads -> [pc : Working \cup {"none", "reporting", "over"},
                               shards : Seq(Nat \ {0}), pending : Nat, failed : Nat,
                               err : BOOLEAN]]
    /\ outcome \in [Blocks -> {"none", "ok", "missing", "corrupt"}]
    /\ blockQ \in Seq(Blocks) /\ Len(blockQ) <= BlockQSize
    /\ workQ \in [Providers -> Seq(Blocks)]
    /\ sched \in Blocks \cup {NoBlock}
    /\ hand \in [Providers -> Blocks \cup {NoBlock}]
    /\ answers \subseteq Blocks
    /\ rebuilt \subseteq Downloads /\ restoreQ \subseteq Downloads

\* The limits hold across independent requests: the downloads at work, and
\* the temporary files of the blocks they fetch, the parity blocks that make
\* up for failures aside, which the thread does not count.
WithinLimits ==
    LET working == {d \in Downloads : down[d].pc \in Working}
        files == [d \in Downloads |-> Len(down[d].shards) - down[d].failed]
    IN  /\ Cardinality(working) <= MaxDownloads
        /\ SumFunctionOnSet(files, working) <= MaxOpenFiles

\* The i-th of blockDownloads is the version's i-th block, as the erasure
\* decoder takes them to be, whatever failed and in whatever order.
ShardsAligned ==
    \A d \in Downloads :
        /\ Len(down[d].shards) <= Data[d] + Parity[d]
        /\ \A i \in DOMAIN down[d].shards : down[d].shards[i] = i

\* A download that reports success fetched as many blocks unharmed as the
\* file has data blocks.
SuccessIsEarned ==
    \A d \in Downloads : down[d].pc \in {"reporting", "over"} /\ ~down[d].err =>
        Cardinality({b \in Blocks : b[1] = d /\ outcome[b] = "ok"}) >= Data[d]

\* The queue is closed only when no download may send to it any more: a send
\* on a closed channel would take the process down (download.go:302-304).
CloseIsQuiet ==
    [][thread.pc = "draining" /\ thread'.pc = "idle" =>
         \A d \in Downloads : down[d].pc \notin Working]_vars

\* Every request returns: the queues, full as they may be, the limits and the
\* failures never leave the goroutines waiting for each other.
RequestsReturn ==
    \A q \in Requests : request[q].pc = "sending" ~> request[q].pc = "returned"

\* restore.go:19-20, "The blocks that were corrupted but whose contents were
\* recovered through erasure coding": what is submitted to be uploaded in
\* place of a corrupted block was recovered.
SubmittedAreRecovered == restoreQ \subseteq rebuilt
=============================================================================
