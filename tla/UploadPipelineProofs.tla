----------------------- MODULE UploadPipelineProofs ------------------------
(***************************************************************************)
(* The safety of the uploads, for any number of requests, uploads, blocks, *)
(* workers, contracts and providers.  The parts of the invariant:          *)
(*                                                                         *)
(*   Handed   an upload is with its request, the thread or one worker, and *)
(*            nothing was done with it before a worker has it;             *)
(*   Counted  activeUploads is the number of busy workers;                 *)
(*   Jobs     what a worker has done with the blocks of its round, and     *)
(*            with those of the rounds before: RetriesElsewhere;           *)
(*   Placed   a block on its way has a place, and a worker that waits for  *)
(*            it: ResetQuiet;                                              *)
(*   Ended    the blocks of an upload that is done are stored or given up; *)
(*   Asked    what a request knows of its uploads, and the blocks it has   *)
(*            still to remove: AcknowledgedStored, UndoComplete.           *)
(*                                                                         *)
(* From it follows that the pipeline implements the storage ledger         *)
(* (LedgerImplemented), and from that the bounds of TypeCorrect.           *)
(***************************************************************************)
EXTENDS UploadPipeline, DataLemmas, TLAPS

-----------------------------------------------------------------------------
(* The parts of the invariant.                                             *)

Request == [pc : {"new", "sending", "waiting", "making", "saving", "undoing",
                  "returned", "failed"},
            at : Nat \ {0}, todo : Seq(Blocks)]

Job == [pc : {"idle", "preparing", "finding", "queueing", "waiting", "settling",
              "reporting"},
        upload : Uploads \cup {NoUpload}, pending : Seq(Blocks), next : Nat \ {0},
        offline : SUBSET Providers, toReturn : Seq(Contracts)]

Place == [stage : {"none", "placed", "scheduled", "sending", "ok", "bad", "abandoned",
                   "removed", "stranded"},
          contract : Contracts \cup {NoContract}]

\* That no more is free than was reserved follows from the ledger: TypeCorrect.
Typed ==
    /\ request \in [Requests -> Request]
    /\ failed \subseteq Uploads /\ done \subseteq Uploads /\ saved \subseteq Uploads
    /\ thread \in [pc : {"select", "polling", "handing", "full", "resetting"},
                   upload : Uploads \cup {NoUpload}]
    /\ active \in Int
    /\ worker \in [Workers -> Job]
    /\ block \in [Blocks -> Place]
    /\ sched \in Blocks \cup {NoBlock}
    /\ conn \in [Providers -> {"none", "dialing", "open", "refused"}]
    /\ stored \subseteq Blocks \X Providers
    /\ free \in [Contracts -> Nat]

(* Who has an upload: its request, the thread, a worker, or nobody.        *)

\* The request has not handed over its i-th upload.
Ahead(q, i) == request[q].pc \in {"new", "sending"} /\ i >= request[q].at

InHand(u) == thread.pc = "handing" /\ thread.upload = u

Has(w, u) == worker[w].pc # "idle" /\ worker[w].upload = u

Untouched(u) ==
    /\ u \notin failed /\ u \notin done
    /\ \A w \in Workers : ~Has(w, u)
    /\ \A b \in ToSet(BlocksOf[u]) : block[b] = Unplaced

Handed ==
    /\ \A q \in Requests : \A i \in DOMAIN Batch[q] :
          Ahead(q, i) => Untouched(Batch[q][i]) /\ ~InHand(Batch[q][i])
    /\ thread.pc = "handing" => thread.upload \in Uploads /\ Untouched(thread.upload)
    /\ \A w \in Workers : worker[w].pc # "idle" => worker[w].upload \in Uploads
    /\ \A u \in Uploads : \A v, w \in Workers : Has(v, u) /\ Has(w, u) => v = w

(* The thread counts the workers that are busy.                            *)

Busy == {w \in Workers : worker[w].pc # "idle"}

Counted ==
    /\ active = Cardinality(Busy)
    /\ thread.pc \in {"polling", "resetting"} => active = 0

(* What a worker does with its upload.                                     *)

\* A block is on its way, or was.
Sent(b) == block[b].stage \in {"scheduled", "sending", "ok", "bad"}

\* It has its place with a provider that failed no block of the upload.
WellPlaced(w, b) == block[b].contract \in Open(w)

\* The blocks of the round are in pending; the others are stored.
Rounds(w) ==
    LET j == worker[w]
    IN  /\ IsInjective(j.pending)
        /\ ToSet(j.pending) \subseteq ToSet(BlocksOf[j.upload])
        /\ \A b \in ToSet(BlocksOf[j.upload]) \ ToSet(j.pending) : block[b].stage = "ok"

JobOK(w) ==
    LET j == worker[w]
    IN  /\ j.pc \notin {"idle", "reporting"} => j.upload \notin done
        /\ j.pc \in {"preparing", "finding", "queueing", "waiting"} => j.upload \notin failed
        /\ j.pc \in {"idle", "preparing", "reporting"} => j.toReturn = <<>>
        /\ \A i \in DOMAIN j.toReturn : ProviderOf[j.toReturn[i]] \in j.offline
        /\ j.pc = "preparing" => \A b \in ToSet(BlocksOf[j.upload]) : block[b] = Unplaced
        /\ j.pc \in {"finding", "queueing", "waiting", "settling"} => Rounds(w)
        /\ j.pc \in {"finding", "settling"} =>
              \A b \in ToSet(j.pending) : block[b] = Unplaced
        /\ j.pc = "finding" => j.pending # <<>>
        /\ j.pc = "settling" => (j.pending = <<>> <=> j.upload \notin failed)
        /\ j.pc \in {"queueing", "waiting"} =>
              \A b \in ToSet(j.pending) : WellPlaced(w, b)
        /\ j.pc = "queueing" =>
              /\ j.next \in DOMAIN j.pending
              /\ \A i \in DOMAIN j.pending :
                    IF i < j.next THEN Sent(j.pending[i])
                    ELSE block[j.pending[i]].stage = "placed"
        /\ j.pc = "waiting" => \A b \in ToSet(j.pending) : Sent(b)

Jobs == \A w \in Workers : JobOK(w)

(* Where a block is.                                                       *)

\* Its worker waits for it.
Expected(b) ==
    \E w \in Workers : /\ worker[w].pc \in {"queueing", "waiting"}
                       /\ b \in ToSet(worker[w].pending)

PlacedOK(b) ==
    /\ block[b].stage = "none" <=> block[b].contract = NoContract
    /\ block[b].stage = "scheduled" <=> sched = b
    /\ block[b].stage = "ok" => <<b, Provider(b)>> \in stored
    /\ block[b].stage = "removed" => <<b, Provider(b)>> \notin stored
    /\ block[b].stage \in {"placed", "scheduled", "sending", "bad"} => Expected(b)

Placed == \A b \in Blocks : PlacedOK(b)

\* What became of the blocks of an upload that is done.
EndedOK(u) ==
    \A b \in ToSet(BlocksOf[u]) :
        block[b].stage \in IF u \in failed THEN {"none", "abandoned"}
                           ELSE {"ok", "removed", "stranded"}

Ended == \A u \in done : EndedOK(u)

(* What a request knows of its uploads.                                    *)

AllStored(u) == \A b \in ToSet(BlocksOf[u]) : block[b].stage = "ok"

Awaits(q) ==
    LET r == request[q]
    IN  /\ r.pc \in {"new", "sending", "waiting", "saving"} => r.at \in DOMAIN Batch[q]
        /\ r.pc \notin {"undoing", "failed"} =>
              \A u \in ToSet(Batch[q]) : u \in done \ failed => AllStored(u)
        /\ r.pc = "waiting" => \A i \in 1..(r.at - 1) : Batch[q][i] \in done
        /\ r.pc \in {"making", "saving", "returned"} => ToSet(Batch[q]) \subseteq done \ failed
        /\ r.pc \in {"new", "sending", "waiting", "making"} => ToSet(Batch[q]) \cap saved = {}
        /\ r.pc = "saving" => \A i \in 1..(r.at - 1) : Batch[q][i] \in saved
        /\ r.pc = "returned" => ToSet(Batch[q]) \subseteq saved

\* A file of a folder that the metaserver still lists is not undone.
ListedStays(q) ==
    q \in Folders =>
        \A u \in ToSet(Batch[q]) \cap saved : \A b \in ToSet(BlocksOf[u]) :
            block[b].stage = "ok" /\ b \notin ToSet(request[q].todo)

\* A request that undoes its uploads removes every block they have stored.
Undoes(q) ==
    LET r == request[q]
    IN  r.pc \in {"undoing", "failed"} =>
          /\ ToSet(Batch[q]) \subseteq done
          /\ IsInjective(r.todo)
          /\ r.pc = "failed" => r.todo = <<>>
          /\ \A b \in ToSet(r.todo) : /\ Owner(b) \in ToSet(Batch[q]) \ failed
                                      /\ block[b].stage = "ok"
          /\ q \notin Folders \/ ToSet(Batch[q]) \cap failed # {} =>
                \A u \in ToSet(Batch[q]) : \A b \in ToSet(BlocksOf[u]) :
                    block[b].stage = "ok" => b \in ToSet(r.todo)
          /\ ListedStays(q)

Asked == \A q \in Requests : Awaits(q) /\ Undoes(q)

IInv == Typed /\ Handed /\ Counted /\ Jobs /\ Placed /\ Ended /\ Asked


-----------------------------------------------------------------------------
(* The constants.                                                          *)

\* The uploads of a request, each once, in one request only.
LEMMA Batches ==
    /\ \A q \in Requests :
          /\ Batch[q] \in Seq(Uploads) /\ IsInjective(Batch[q])
          /\ Len(Batch[q]) \in Nat \ {0} /\ DOMAIN Batch[q] = 1..Len(Batch[q])
          /\ \A i \in DOMAIN Batch[q] : Batch[q][i] \in Uploads /\ Batch[q][i] \in ToSet(Batch[q])
          /\ ToSet(Batch[q]) \subseteq Uploads
    /\ \A q, r \in Requests : ToSet(Batch[q]) \cap ToSet(Batch[r]) # {} => q = r
<1>1. ASSUME NEW q \in Requests
      PROVE  /\ Batch[q] \in Seq(Uploads) /\ IsInjective(Batch[q])
             /\ Len(Batch[q]) \in Nat \ {0} /\ DOMAIN Batch[q] = 1..Len(Batch[q])
  <2>1. Batch[q] \in Seq(Uploads) /\ Batch[q] # <<>> /\ IsInjective(Batch[q])
    BY UploadAssumption
  <2> QED  BY <2>1
<1>2. ASSUME NEW q \in Requests, NEW i \in DOMAIN Batch[q]
      PROVE  Batch[q][i] \in Uploads /\ Batch[q][i] \in ToSet(Batch[q])
    BY <1>1 DEF ToSet
<1>3. \A q \in Requests : ToSet(Batch[q]) \subseteq Uploads
    BY <1>1, SetOfList
<1>4. \A q, r \in Requests : ToSet(Batch[q]) \cap ToSet(Batch[r]) # {} => q = r
    BY UploadAssumption
<1> QED
    BY <1>1, <1>2, <1>3, <1>4

\* The blocks of an upload, each once, in one upload only.
LEMMA BlockLists ==
    /\ \A u \in Uploads :
          /\ BlocksOf[u] \in Seq(Blocks) /\ IsInjective(BlocksOf[u]) /\ BlocksOf[u] # <<>>
          /\ ToSet(BlocksOf[u]) \subseteq Blocks
    /\ \A b \in Blocks : Owner(b) \in Uploads /\ b \in ToSet(BlocksOf[Owner(b)])
    /\ \A u \in Uploads : \A b \in ToSet(BlocksOf[u]) : Owner(b) = u
    /\ \A u, v \in Uploads : u # v => ToSet(BlocksOf[u]) \cap ToSet(BlocksOf[v]) = {}
<1>1. \A u \in Uploads :
          BlocksOf[u] \in Seq(Blocks) /\ IsInjective(BlocksOf[u]) /\ BlocksOf[u] # <<>>
    BY UploadAssumption
<1>2. \A u \in Uploads : ToSet(BlocksOf[u]) \subseteq Blocks
    BY <1>1, SetOfList
<1>3. ASSUME NEW b \in Blocks  PROVE Owner(b) \in Uploads /\ b \in ToSet(BlocksOf[Owner(b)])
  <2>1. \E u \in Uploads : b \in ToSet(BlocksOf[u])
    BY DEF Blocks
  <2> QED  BY <2>1 DEF Owner
<1>4. \A u, v \in Uploads : u # v => ToSet(BlocksOf[u]) \cap ToSet(BlocksOf[v]) = {}
    BY UploadAssumption
<1>5. ASSUME NEW u \in Uploads, NEW b \in ToSet(BlocksOf[u])  PROVE Owner(b) = u
    BY <1>2, <1>3, <1>4
<1> QED
    BY <1>1, <1>2, <1>3, <1>4, <1>5

\* What a finite list has is finite.
LEMMA ElementsFinite ==
    ASSUME NEW S, NEW s \in Seq(S)  PROVE IsFiniteSet(ToSet(s))
<1>1. IsFiniteSet(DOMAIN s)
    BY FS_Interval
<1>2. [i \in DOMAIN s |-> s[i]] \in Surjection(DOMAIN s, ToSet(s))
    BY DEF Surjection, ToSet
<1> QED
    BY <1>1, <1>2, FS_Surjection

\* Contracts are found for finitely many blocks.
LEMMA CountType ==
    ASSUME NEW S, NEW s \in Seq(S), NEW c
    PROVE  /\ Count(s, c) \in Nat /\ IsFiniteSet({i \in DOMAIN s : s[i] = c})
<1>1. IsFiniteSet(DOMAIN s) /\ {i \in DOMAIN s : s[i] = c} \in SUBSET (DOMAIN s)
    BY FS_Interval
<1>2. IsFiniteSet({i \in DOMAIN s : s[i] = c})
    BY <1>1, FS_Subset
<1> QED
    BY <1>2, FS_CardinalityType DEF Count

\* The blocks of some uploads, as one list.
LEMMA BlocksInOf ==
    ASSUME NEW s \in Seq(Uploads)
    PROVE  /\ BlocksIn(s) \in Seq(Blocks)
           /\ \A b : b \in ToSet(BlocksIn(s)) <=> \E u \in ToSet(s) : b \in ToSet(BlocksOf[u])
           /\ IsInjective(s) => IsInjective(BlocksIn(s))
<1> DEFINE t == [i \in DOMAIN s |-> BlocksOf[s[i]]]
<1>1. t \in Seq(Seq(Blocks)) /\ DOMAIN t = DOMAIN s /\ \A i \in DOMAIN s : t[i] = BlocksOf[s[i]]
  <2>1. DOMAIN s = 1..Len(s) /\ Len(s) \in Nat /\ \A i \in DOMAIN s : s[i] \in Uploads
    OBVIOUS
  <2>2. \A i \in DOMAIN s : BlocksOf[s[i]] \in Seq(Blocks)
    BY <2>1, BlockLists
  <2> QED  BY <2>1, <2>2
<1>2. BlocksIn(s) = FlattenSeq(t)
    BY DEF BlocksIn
<1> HIDE DEF t
<1>3. /\ FlattenSeq(t) \in Seq(Blocks)
      /\ ToSet(FlattenSeq(t)) = UNION {ToSet(t[i]) : i \in DOMAIN t}
      /\ (/\ \A i \in DOMAIN t : IsInjective(t[i])
          /\ \A i, j \in DOMAIN t : i # j => ToSet(t[i]) \cap ToSet(t[j]) = {})
         => IsInjective(FlattenSeq(t))
    BY <1>1, FlattenOf
<1>4. ASSUME NEW b  PROVE b \in ToSet(BlocksIn(s)) <=> \E u \in ToSet(s) : b \in ToSet(BlocksOf[u])
  <2>1. b \in ToSet(BlocksIn(s)) <=> \E i \in DOMAIN s : b \in ToSet(BlocksOf[s[i]])
    BY <1>1, <1>2, <1>3
  <2> QED  BY <2>1 DEF ToSet
<1>5. ASSUME IsInjective(s)  PROVE IsInjective(BlocksIn(s))
  <2>1. \A i \in DOMAIN s : s[i] \in Uploads
    OBVIOUS
  <2>2. \A i \in DOMAIN t : IsInjective(t[i])
    BY <1>1, <2>1, BlockLists
  <2>3. ASSUME NEW i \in DOMAIN t, NEW j \in DOMAIN t, i # j
        PROVE  ToSet(t[i]) \cap ToSet(t[j]) = {}
    <3>1. PICK u \in Uploads, v \in Uploads : u = s[i] /\ v = s[j]
      BY <1>1, <2>1
    <3>2. u # v
      BY <1>1, <1>5, <2>3, <3>1 DEF IsInjective
    <3>3. ToSet(BlocksOf[u]) \cap ToSet(BlocksOf[v]) = {}
      BY <3>2, BlockLists
    <3>4. t[i] = BlocksOf[u] /\ t[j] = BlocksOf[v]
      BY <1>1, <3>1
    <3> QED  BY <3>3, <3>4
  <2> QED  BY <1>2, <1>3, <2>2, <2>3
<1> QED
    BY <1>2, <1>3, <1>4, <1>5

-----------------------------------------------------------------------------
(* What the steps do to a worker, and to no other.                         *)

SameJobs(w) == \A v \in Workers \ {w} : worker'[v] = worker[v]
SameRequests(q) == \A r \in Requests \ {q} : request'[r] = request[r]
SameBlocks(S) == \A b \in Blocks \ S : block'[b] = block[b]

\* The worker takes the upload, and is as it was otherwise.
LEMMA HandOn ==
    ASSUME Typed, Handed, NEW w \in Workers, Hand(w)
    PROVE  LET j == worker[w]
               k == worker'[w]
           IN  /\ worker' \in [Workers -> Job] /\ SameJobs(w)
               /\ thread.pc = "handing" /\ thread.upload \in Uploads
               /\ j.pc = "idle" /\ k.pc = "preparing" /\ k.upload = thread.upload
               /\ k.toReturn = j.toReturn
<1>1. worker \in [Workers -> Job] /\ thread.upload \in Uploads
    BY DEF Typed, Handed, Hand, HandUpTo
<1>2. PICK j \in Job : j = worker[w]
    BY <1>1
<1>3. worker'[w] = [j EXCEPT !.pc = "preparing", !.upload = thread.upload]
    BY <1>1, <1>2 DEF Hand, HandUpTo
<1>4. worker'[w] \in Job
    BY <1>1, <1>3 DEF Job
<1> QED
    BY <1>1, <1>2, <1>3, <1>4 DEF Hand, HandUpTo, Job, SameJobs

\* Nothing of the upload is left to a worker that reported.
LEMMA FinishOn ==
    ASSUME Typed, NEW w \in Workers, Finish(w)
    PROVE  /\ worker' \in [Workers -> Job] /\ SameJobs(w)
           /\ worker[w].pc = "reporting" /\ worker'[w] = IdleWorker
<1>1. worker \in [Workers -> Job]
    BY DEF Typed
<1>2. IdleWorker \in Job
    BY DEF IdleWorker, Job
<1> QED
    BY <1>1, <1>2 DEF Finish, FinishWith, SameJobs

\* The blocks of the upload are the first round, or the upload has failed.
LEMMA PrepareOn ==
    ASSUME Typed, Handed, NEW w \in Workers, PrepareUpload(w)
    PROVE  LET j == worker[w]
               k == worker'[w]
           IN  /\ worker' \in [Workers -> Job] /\ SameJobs(w)
               /\ j.pc = "preparing" /\ j.upload \in Uploads
               /\ k.upload = j.upload /\ k.offline = j.offline /\ k.toReturn = j.toReturn
               /\ \/ k.pc = "finding" /\ k.pending = BlocksOf[j.upload] /\ failed' = failed
                  \/ k.pc = "reporting" /\ failed' = failed \cup {j.upload}
<1>1. worker \in [Workers -> Job] /\ worker[w].upload \in Uploads
    BY DEF Typed, Handed, PrepareUpload
<1>2. PICK j \in Job : j = worker[w]
    BY <1>1
<1>3. CASE /\ worker' = [worker EXCEPT ![w].pc = "finding", ![w].pending = BlocksOf[j.upload]]
           /\ failed' = failed
  <2>1. worker'[w] = [j EXCEPT !.pc = "finding", !.pending = BlocksOf[j.upload]]
    BY <1>1, <1>2, <1>3
  <2>2. BlocksOf[j.upload] \in Seq(Blocks)
    BY <1>1, <1>2, BlockLists
  <2>3. worker'[w] \in Job
    BY <2>1, <2>2 DEF Job
  <2> QED  BY <1>1, <1>2, <1>3, <2>1, <2>3 DEF PrepareUpload, Job, SameJobs
<1>4. CASE /\ worker' = [worker EXCEPT ![w].pc = "reporting"]
           /\ failed' = failed \cup {j.upload}
  <2>1. worker'[w] = [j EXCEPT !.pc = "reporting"]
    BY <1>1, <1>2, <1>4
  <2>2. worker'[w] \in Job
    BY <2>1 DEF Job
  <2> QED  BY <1>1, <1>2, <1>4, <2>1, <2>2 DEF PrepareUpload, Job, SameJobs
<1> QED
    BY <1>2, <1>3, <1>4 DEF PrepareUpload

\* Every block of the round gets a contract with room, or the upload fails.
LEMMA FindOn ==
    ASSUME Typed, NEW w \in Workers, FindStorage(w)
    PROVE  LET j == worker[w]
               k == worker'[w]
           IN  /\ worker' \in [Workers -> Job] /\ SameJobs(w)
               /\ block' \in [Blocks -> Place] /\ free' \in [Contracts -> Nat]
               /\ j.pc = "finding" /\ k.upload = j.upload /\ k.pending = j.pending
               /\ k.offline = j.offline /\ k.toReturn = j.toReturn
               /\ \/ /\ k.pc = "queueing" /\ k.next = 1 /\ failed' = failed
                     /\ SameBlocks(ToSet(j.pending))
                     /\ \A b \in ToSet(j.pending) : /\ block'[b].stage = "placed"
                                                    /\ block'[b].contract \in Open(w)
                  \/ /\ k.pc = "settling" /\ failed' = failed \cup {j.upload}
                     /\ block' = block /\ free' = free
<1>1. worker \in [Workers -> Job] /\ block \in [Blocks -> Place] /\ free \in [Contracts -> Nat]
    BY DEF Typed
<1>2. PICK j \in Job : j = worker[w]
    BY <1>1
<1>3. j.pending \in Seq(Blocks) /\ ToSet(j.pending) \subseteq Blocks
    BY SetOfList DEF Job
<1>4. ASSUME NEW place \in [DOMAIN j.pending -> Open(w)],
             \A c \in Contracts : Count(place, c) <= free[c],
             free' = [c \in Contracts |-> free[c] - Count(place, c)],
             block' = [b \in Blocks |->
                       IF \E i \in DOMAIN j.pending : j.pending[i] = b
                       THEN [stage |-> "placed",
                             contract |-> place[CHOOSE i \in DOMAIN j.pending : j.pending[i] = b]]
                       ELSE block[b]],
             worker' = [worker EXCEPT ![w].pc = "queueing", ![w].next = 1],
             failed' = failed
      PROVE  /\ worker' \in [Workers -> Job] /\ SameJobs(w)
             /\ worker'[w] = [j EXCEPT !.pc = "queueing", !.next = 1]
             /\ free' \in [Contracts -> Nat]
             /\ block' \in [Blocks -> Place] /\ SameBlocks(ToSet(j.pending))
             /\ \A b \in ToSet(j.pending) : /\ block'[b].stage = "placed"
                                            /\ block'[b].contract \in Open(w)
  <2>1. worker'[w] = [j EXCEPT !.pc = "queueing", !.next = 1]
    BY <1>1, <1>2, <1>4
  <2>2. worker'[w] \in Job
    <3>1. 1 \in Nat \ {0}
      OBVIOUS
    <3> QED  BY <2>1, <3>1 DEF Job
  <2>3. place \in Seq(Contracts)
    BY <1>3, <1>4 DEF Open
  <2>4. ASSUME NEW c \in Contracts  PROVE free[c] - Count(place, c) \in Nat
    <3>1. PICK n \in Nat, m \in Nat : n = free[c] /\ m = Count(place, c)
      BY <1>1, <2>3, CountType
    <3>2. m <= n
      BY <1>4, <3>1
    <3> QED  BY <3>1, <3>2
  <2>5. free' \in [Contracts -> Nat]
    BY <1>4, <2>4
  <2>6. ASSUME NEW b \in ToSet(j.pending)
        PROVE  block'[b].stage = "placed" /\ block'[b].contract \in Open(w)
    <3>1. b \in Blocks /\ \E i \in DOMAIN j.pending : j.pending[i] = b
      BY <1>3 DEF ToSet
    <3>2. (CHOOSE i \in DOMAIN j.pending : j.pending[i] = b) \in DOMAIN j.pending
      BY <3>1
    <3> QED  BY <1>4, <3>1, <3>2
  <2>7. \A b \in Blocks \ ToSet(j.pending) : block'[b] = block[b]
    BY <1>4 DEF ToSet
  <2>8. ASSUME NEW b \in Blocks  PROVE block'[b] \in Place
    <3>1. CASE b \in ToSet(j.pending)
      <4>1. /\ \E i \in DOMAIN j.pending : j.pending[i] = b
            /\ (CHOOSE i \in DOMAIN j.pending : j.pending[i] = b) \in DOMAIN j.pending
        BY <3>1 DEF ToSet
      <4> QED  BY <1>4, <4>1 DEF Place, Open
    <3>2. CASE b \notin ToSet(j.pending)
      BY <1>1, <2>7, <3>2
    <3> QED  BY <3>1, <3>2
  <2>9. block' = [b \in Blocks |-> block'[b]]
    BY <1>4
  <2> QED  BY <1>1, <1>4, <2>1, <2>2, <2>5, <2>6, <2>7, <2>8, <2>9 DEF SameJobs, SameBlocks
<1>5. CASE /\ failed' = failed \cup {j.upload} /\ worker' = [worker EXCEPT ![w].pc = "settling"]
           /\ UNCHANGED <<free, block>>
  <2>1. worker'[w] = [j EXCEPT !.pc = "settling"]
    BY <1>1, <1>2, <1>5
  <2>2. worker'[w] \in Job
    BY <2>1 DEF Job
  <2> QED  BY <1>1, <1>2, <1>5, <2>1, <2>2 DEF FindStorage, Job, SameJobs
<1>6. j.pc = "finding"
    BY <1>2 DEF FindStorage
<1>7. CASE /\ failed' = failed
           /\ \E place \in [DOMAIN j.pending -> Open(w)] :
                 /\ \A c \in Contracts : Count(place, c) <= free[c]
                 /\ free' = [c \in Contracts |-> free[c] - Count(place, c)]
                 /\ block' = [b \in Blocks |->
                       IF \E i \in DOMAIN j.pending : j.pending[i] = b
                       THEN [stage |-> "placed",
                             contract |-> place[CHOOSE i \in DOMAIN j.pending : j.pending[i] = b]]
                       ELSE block[b]]
                 /\ worker' = [worker EXCEPT ![w].pc = "queueing", ![w].next = 1]
  <2>1. /\ worker' \in [Workers -> Job] /\ SameJobs(w)
        /\ worker'[w] = [j EXCEPT !.pc = "queueing", !.next = 1]
        /\ free' \in [Contracts -> Nat]
        /\ block' \in [Blocks -> Place] /\ SameBlocks(ToSet(j.pending))
        /\ \A b \in ToSet(j.pending) : /\ block'[b].stage = "placed"
                                       /\ block'[b].contract \in Open(w)
    BY <1>4, <1>7
  <2> QED  BY <1>2, <1>6, <1>7, <2>1 DEF Job
<1> QED
    BY <1>2, <1>5, <1>7 DEF FindStorage

\* The next block of the round goes to the scheduler.
LEMMA QueueOn ==
    ASSUME Typed, Jobs, NEW w \in Workers, Queue(w)
    PROVE  LET j == worker[w]
               k == worker'[w]
               b == j.pending[j.next]
           IN  /\ worker' \in [Workers -> Job] /\ SameJobs(w)
               /\ j.pc = "queueing" /\ j.next \in DOMAIN j.pending
               /\ k.upload = j.upload /\ k.pending = j.pending /\ k.offline = j.offline
               /\ k.toReturn = j.toReturn /\ k.next = j.next + 1
               /\ k.pc = IF j.next = Len(j.pending) THEN "waiting" ELSE "queueing"
               /\ b \in Blocks /\ b \in ToSet(j.pending) /\ sched = NoBlock /\ sched' = b
               /\ block' \in [Blocks -> Place] /\ SameBlocks({b})
               /\ block'[b].stage = "scheduled" /\ block'[b].contract = block[b].contract
<1>1. worker \in [Workers -> Job] /\ block \in [Blocks -> Place]
    BY DEF Typed
<1>2. PICK j \in Job : j = worker[w]
    BY <1>1
<1>3. j.pc = "queueing" /\ j.next \in DOMAIN j.pending
    BY <1>2 DEF Queue, Jobs, JobOK
<1>4. PICK b \in Blocks : b = j.pending[j.next] /\ b \in ToSet(j.pending)
    BY <1>3 DEF Job, ToSet
<1>5. PICK r \in Place : r = block[b]
    BY <1>1
<1>6. worker'[w] = [j EXCEPT !.next = j.next + 1,
                            !.pc = IF j.next = Len(j.pending) THEN "waiting" ELSE "queueing"]
    BY <1>1, <1>2, <1>3 DEF Queue
<1>7. worker'[w] \in Job
  <2>1. j.next + 1 \in Nat \ {0}
    BY DEF Job
  <2> QED  BY <1>6, <2>1 DEF Job
<1>8. block'[b] = [r EXCEPT !.stage = "scheduled"] /\ SameBlocks({b})
    BY <1>1, <1>2, <1>4, <1>5 DEF Queue, SameBlocks
<1>9. block'[b] \in Place
    BY <1>8 DEF Place
<1>10. worker' \in [Workers -> Job] /\ SameJobs(w)
    BY <1>1, <1>7 DEF Queue, SameJobs
<1>11. block' \in [Blocks -> Place]
    BY <1>1, <1>2, <1>4, <1>9 DEF Queue
<1>12. /\ worker'[w].upload = j.upload /\ worker'[w].pending = j.pending
       /\ worker'[w].offline = j.offline /\ worker'[w].toReturn = j.toReturn
       /\ worker'[w].next = j.next + 1
       /\ worker'[w].pc = IF j.next = Len(j.pending) THEN "waiting" ELSE "queueing"
    BY <1>6 DEF Job
<1>13. block'[b].stage = "scheduled" /\ block'[b].contract = block[b].contract
    BY <1>5, <1>8 DEF Place
<1>14. sched = NoBlock /\ sched' = b
    BY <1>2, <1>4 DEF Queue
<1> QED
    BY <1>2, <1>3, <1>4, <1>8, <1>10, <1>11, <1>12, <1>13, <1>14

\* The blocks of the round that failed.
Failures(w) == Those(worker[w].pending, {b \in Blocks : block[b].stage = "bad"})

\* They are the next round, and their providers are avoided.
LEMMA CollectOn ==
    ASSUME Typed, Placed, NEW w \in Workers, Collect(w)
    PROVE  LET j == worker[w]
               k == worker'[w]
           IN  /\ worker' \in [Workers -> Job] /\ SameJobs(w)
               /\ Failures(w) \in Seq(Blocks)
               /\ ToSet(Failures(w)) = {b \in ToSet(j.pending) : block[b].stage = "bad"}
               /\ IsInjective(j.pending) => IsInjective(Failures(w))
               /\ j.pc = "waiting" /\ \A b \in ToSet(j.pending) : block[b].stage \in {"ok", "bad"}
               /\ k.upload = j.upload /\ k.pending = Failures(w)
               /\ k.offline = j.offline \cup {Provider(b) : b \in ToSet(Failures(w))}
               /\ [i \in DOMAIN Failures(w) |-> block[Failures(w)[i]].contract] \in Seq(Contracts)
               /\ k.toReturn
                    = j.toReturn \o [i \in DOMAIN Failures(w) |-> block[Failures(w)[i]].contract]
               /\ k.pc = IF Failures(w) = <<>> THEN "settling" ELSE "finding"
               /\ block' \in [Blocks -> Place] /\ SameBlocks(ToSet(Failures(w)))
               /\ \A b \in ToSet(Failures(w)) : block'[b] = Unplaced
<1>1. worker \in [Workers -> Job] /\ block \in [Blocks -> Place]
    BY DEF Typed
<1>2. PICK j \in Job : j = worker[w]
    BY <1>1
<1>3. j.pending \in Seq(Blocks) /\ ToSet(j.pending) \subseteq Blocks /\ j.toReturn \in Seq(Contracts)
    BY SetOfList DEF Job
<1>4. PICK f : f = Failures(w)
    OBVIOUS
<1>5. /\ f \in Seq(Blocks) /\ ToSet(f) = {b \in ToSet(j.pending) : block[b].stage = "bad"}
      /\ IsInjective(j.pending) => IsInjective(f)
    BY <1>2, <1>3, <1>4, ThoseOf DEF Failures
<1>6. DOMAIN f = 1..Len(f) /\ Len(f) \in Nat /\ \A i \in DOMAIN f : f[i] \in ToSet(f)
    BY <1>5 DEF ToSet
<1>7. ASSUME NEW b \in ToSet(f)  PROVE b \in Blocks /\ block[b].contract \in Contracts
  <2>1. b \in Blocks /\ block[b].stage = "bad" /\ block[b] \in Place
    BY <1>1, <1>3, <1>5
  <2> QED  BY <2>1 DEF Placed, PlacedOK, Place
<1>8. {Provider(b) : b \in ToSet(f)} \subseteq Providers
    BY <1>7, UploadAssumption DEF Provider
<1> DEFINE back == [i \in DOMAIN f |-> block[f[i]].contract]
<1>9. back \in Seq(Contracts)
  <2>1. \A i \in 1..Len(f) : block[f[i]].contract \in Contracts
    BY <1>6, <1>7
  <2> QED  BY <1>6, <2>1
<1> HIDE DEF back
<1>10. j.toReturn \o back \in Seq(Contracts)
    BY <1>3, <1>9
<1>11. worker'[w] = [j EXCEPT !.pending = f,
                       !.offline = j.offline \cup {Provider(b) : b \in ToSet(f)},
                       !.toReturn = j.toReturn \o back,
                       !.pc = IF f = <<>> THEN "settling" ELSE "finding"]
    BY <1>1, <1>2, <1>4 DEF Collect, CollectAvoiding, Failures, back
<1>12. worker'[w] \in Job
  <2>1. ASSUME NEW off \in SUBSET Providers, NEW ret \in Seq(Contracts),
               NEW place \in {"settling", "finding"}
        PROVE  [j EXCEPT !.pending = f, !.offline = off, !.toReturn = ret, !.pc = place] \in Job
      BY <1>5 DEF Job
  <2>2. PICK off \in SUBSET Providers : off = j.offline \cup {Provider(b) : b \in ToSet(f)}
      BY <1>8 DEF Job
  <2>3. PICK ret \in Seq(Contracts) : ret = j.toReturn \o back
      BY <1>10
  <2>4. PICK place \in {"settling", "finding"} :
           place = IF f = <<>> THEN "settling" ELSE "finding"
      OBVIOUS
  <2>5. PICK new \in Job :
           new = [j EXCEPT !.pending = f, !.offline = off, !.toReturn = ret, !.pc = place]
      BY <2>1
  <2>6. worker'[w] = new
      BY <1>11, <2>2, <2>3, <2>4, <2>5, Zenon
  <2>7. QED
      BY <2>6
<1>13. worker' \in [Workers -> Job] /\ SameJobs(w)
    BY <1>1, <1>12 DEF Collect, CollectAvoiding, SameJobs
<1>14. block' = [b \in Blocks |-> IF b \in ToSet(f) THEN Unplaced ELSE block[b]]
    BY <1>4 DEF Collect, CollectAvoiding, Failures
<1>15. Unplaced \in Place
    BY DEF Unplaced, Place
<1>16. /\ block' \in [Blocks -> Place] /\ SameBlocks(ToSet(f))
       /\ \A b \in ToSet(f) : block'[b] = Unplaced
    BY <1>1, <1>7, <1>14, <1>15 DEF SameBlocks
<1>17. j.pc = "waiting" /\ \A b \in ToSet(j.pending) : block[b].stage \in {"ok", "bad"}
    BY <1>2 DEF Collect, CollectAvoiding
<1>18. /\ worker'[w].upload = j.upload /\ worker'[w].pending = f
       /\ worker'[w].offline = j.offline \cup {Provider(b) : b \in ToSet(f)}
       /\ worker'[w].toReturn = j.toReturn \o back
       /\ worker'[w].pc = IF f = <<>> THEN "settling" ELSE "finding"
    BY <1>11 DEF Job
<1> QED
    BY <1>2, <1>4, <1>5, <1>9, <1>13, <1>16, <1>17, <1>18 DEF back

\* What was taken in vain is returned; the upload is done.
LEMMA SettleOn ==
    ASSUME Typed, Handed, Placed, NEW w \in Workers, Settle(w)
    PROVE  LET j == worker[w]
               k == worker'[w]
           IN  /\ worker' \in [Workers -> Job] /\ SameJobs(w)
               /\ j.pc = "settling" /\ j.upload \in Uploads
               /\ k.upload = j.upload /\ k.pc = "reporting"
               /\ k.toReturn = <<>> /\ k.offline = j.offline
               /\ done' = done \cup {j.upload}
               /\ GivenUp(w) \subseteq ToSet(BlocksOf[j.upload]) /\ GivenUp(w) \subseteq Blocks
               /\ \A b \in GivenUp(w) : block[b].stage = "ok"
               /\ block' \in [Blocks -> Place] /\ SameBlocks(GivenUp(w))
               /\ \A b \in GivenUp(w) : /\ block'[b].stage = "abandoned"
                                        /\ block'[b].contract = block[b].contract
               /\ free' \in [Contracts -> Nat]
<1>1. worker \in [Workers -> Job] /\ block \in [Blocks -> Place] /\ free \in [Contracts -> Nat]
    BY DEF Typed
<1>2. PICK j \in Job : j = worker[w]
    BY <1>1
<1>3. j.pc = "settling" /\ j.upload \in Uploads
    BY <1>2 DEF Settle, SettleReturning, Handed
<1>4. /\ GivenUp(w) \subseteq ToSet(BlocksOf[j.upload]) /\ GivenUp(w) \subseteq Blocks
      /\ \A b \in GivenUp(w) : block[b].stage = "ok"
    BY <1>2, <1>3, BlockLists DEF GivenUp
<1>5. worker'[w] = [j EXCEPT !.pc = "reporting", !.toReturn = <<>>]
    BY <1>1, <1>2 DEF Settle, SettleReturning
<1>6. worker'[w] \in Job
  <2>1. <<>> \in Seq(Contracts)
    OBVIOUS
  <2> QED  BY <1>5, <2>1 DEF Job
<1>7. worker' \in [Workers -> Job] /\ SameJobs(w)
    BY <1>1, <1>6 DEF Settle, SettleReturning, SameJobs
<1>8. block' = [b \in Blocks |->
                  IF b \in GivenUp(w) THEN [block[b] EXCEPT !.stage = "abandoned"] ELSE block[b]]
    BY DEF Settle, SettleReturning
<1>9. ASSUME NEW b \in GivenUp(w)
      PROVE  /\ block'[b].stage = "abandoned" /\ block'[b].contract = block[b].contract
             /\ block'[b] \in Place
  <2>1. PICK r \in Place : r = block[b]
    BY <1>1, <1>4
  <2>2. block'[b] = [r EXCEPT !.stage = "abandoned"]
    BY <1>4, <1>8, <2>1
  <2> QED  BY <2>1, <2>2 DEF Place
<1>10. block' \in [Blocks -> Place] /\ SameBlocks(GivenUp(w))
    BY <1>1, <1>8, <1>9 DEF SameBlocks
<1>11. ASSUME NEW c \in Contracts
       PROVE  free[c] + Count(j.toReturn, c)
                + Cardinality({b \in GivenUp(w) : block[b].contract = c}) \in Nat
  <2>1. Count(j.toReturn, c) \in Nat
    BY CountType DEF Job
  <2>2. IsFiniteSet(ToSet(BlocksOf[j.upload]))
    BY <1>3, BlockLists, ElementsFinite
  <2>3. {b \in GivenUp(w) : block[b].contract = c} \in SUBSET ToSet(BlocksOf[j.upload])
    BY <1>4
  <2>4. Cardinality({b \in GivenUp(w) : block[b].contract = c}) \in Nat
    BY <2>2, <2>3, FS_Subset, FS_CardinalityType
  <2>5. free[c] \in Nat
    BY <1>1
  <2> QED  BY <2>1, <2>4, <2>5
<1>12. free' \in [Contracts -> Nat]
    BY <1>2, <1>11 DEF Settle, SettleReturning
<1>13. /\ worker'[w].upload = j.upload /\ worker'[w].pc = "reporting"
       /\ worker'[w].toReturn = <<>> /\ worker'[w].offline = j.offline
    BY <1>5 DEF Job
<1> QED
    BY <1>2, <1>3, <1>4, <1>7, <1>9, <1>10, <1>12, <1>13 DEF Settle, SettleReturning

-----------------------------------------------------------------------------
(* What the steps do to a request, and to no other.                        *)

\* A step that changes the place of a request.
LEMMA MovedOn ==
    ASSUME Typed, NEW q \in Requests,
           NEW label \in {"new", "sending", "waiting", "making", "saving", "undoing",
                          "returned", "failed"},
           NEW n \in Nat \ {0}, NEW s \in Seq(Blocks),
           request' = [request EXCEPT ![q] = [request[q] EXCEPT !.pc = label, !.at = n, !.todo = s]]
    PROVE  /\ request' \in [Requests -> Request] /\ SameRequests(q)
           /\ request'[q].pc = label /\ request'[q].at = n /\ request'[q].todo = s
<1>1. request \in [Requests -> Request]
    BY DEF Typed
<1>2. PICK r \in Request : r = request[q]
    BY <1>1
<1>3. request'[q] = [r EXCEPT !.pc = label, !.at = n, !.todo = s]
    BY <1>1, <1>2
<1>4. request'[q] \in Request
    BY <1>3 DEF Request
<1> QED
    BY <1>1, <1>3, <1>4 DEF Request, SameRequests

\* The request hands over its next upload.
LEMMA AcceptOn ==
    ASSUME Typed, Asked, NEW q \in Requests, Accept(q)
    PROVE  LET r == request[q]
               s == request'[q]
           IN  /\ request' \in [Requests -> Request] /\ SameRequests(q)
               /\ r.pc = "sending" /\ r.at \in DOMAIN Batch[q] /\ s.todo = r.todo
               /\ thread.pc \in {"select", "polling"}
               /\ thread' = [pc |-> "handing", upload |-> Batch[q][r.at]]
               /\ IF r.at = Len(Batch[q]) THEN s.pc = "waiting" /\ s.at = 1
                  ELSE s.pc = "sending" /\ s.at = r.at + 1 /\ s.at \in DOMAIN Batch[q]
<1>1. request \in [Requests -> Request]
    BY DEF Typed
<1>2. PICK r \in Request : r = request[q]
    BY <1>1
<1>3. r.pc = "sending" /\ r.at \in DOMAIN Batch[q]
    BY <1>2 DEF Accept, Asked, Awaits
<1>4. PICK n \in Nat \ {0} : n = r.at
    BY DEF Request
<1>5. n \in 1..Len(Batch[q]) /\ Len(Batch[q]) \in Nat /\ DOMAIN Batch[q] = 1..Len(Batch[q])
    BY <1>3, <1>4, Batches
<1>6. CASE n = Len(Batch[q])
  <2>1. request'[q] = [r EXCEPT !.pc = "waiting", !.at = 1] /\ SameRequests(q)
    BY <1>1, <1>2, <1>4, <1>6 DEF Accept, SameRequests
  <2>2. request'[q] \in Request /\ 1 \in DOMAIN Batch[q]
    <3>1. 1 \in Nat \ {0}
      OBVIOUS
    <3>2. 1 \in DOMAIN Batch[q]
      BY <1>5
    <3>3. request'[q] \in Request
      BY <2>1, <3>1 DEF Request
    <3> QED  BY <3>2, <3>3
  <2>3. request' \in [Requests -> Request]
    BY <1>1, <2>2 DEF Accept
  <2> QED  BY <1>2, <1>3, <1>4, <1>6, <2>1, <2>2, <2>3 DEF Accept, Request
<1>7. CASE n # Len(Batch[q])
  <2>1. request'[q] = [r EXCEPT !.at = n + 1] /\ SameRequests(q)
    BY <1>1, <1>2, <1>4, <1>7 DEF Accept, SameRequests
  <2>2. n + 1 \in Nat \ {0} /\ n + 1 \in DOMAIN Batch[q]
    BY <1>5, <1>7
  <2>3. request'[q] \in Request
    BY <2>1, <2>2 DEF Request
  <2>4. request' \in [Requests -> Request]
    BY <1>1, <2>3 DEF Accept
  <2> QED  BY <1>2, <1>3, <1>4, <1>7, <2>1, <2>2, <2>4 DEF Accept, Request
<1> QED
    BY <1>6, <1>7

\* A request begins to undo uploads.
LEMMA UndoOn ==
    ASSUME Typed, NEW q \in Requests, NEW s \in Seq(Uploads), Undo(q, s)
    PROVE  /\ request' \in [Requests -> Request] /\ SameRequests(q)
           /\ request'[q].pc = "undoing" /\ request'[q].at = 1
           /\ request'[q].todo = BlocksIn(s)
<1>1. request \in [Requests -> Request]
    BY DEF Typed
<1>2. PICK t \in Seq(Blocks) : t = BlocksIn(s)
    BY BlocksInOf
<1>3. 1 \in Nat \ {0}
    OBVIOUS
<1>4. [pc |-> "undoing", at |-> 1, todo |-> t] \in Request
    BY <1>3 DEF Request
<1>5. request' = [request EXCEPT ![q] = [pc |-> "undoing", at |-> 1, todo |-> t]]
    BY <1>2 DEF Undo, UndoBlocks
<1> QED
    BY <1>1, <1>2, <1>4, <1>5 DEF SameRequests

\* A request that waits goes on to its next upload, or knows them all.
LEMMA AwaitOn ==
    ASSUME Typed, Asked, NEW q \in Requests, AwaitUploads(q)
    PROVE  LET r == request[q]
               s == request'[q]
           IN  /\ request' \in [Requests -> Request] /\ SameRequests(q)
               /\ r.pc = "waiting" /\ r.at \in DOMAIN Batch[q] /\ Batch[q][r.at] \in done
               /\ \/ /\ s.pc = "waiting" /\ s.at = r.at + 1 /\ s.at \in DOMAIN Batch[q]
                     /\ s.todo = r.todo
                  \/ /\ s.pc = "undoing" /\ s.todo = BlocksIn(Those(Batch[q], Uploads \ failed))
                     /\ r.at = Len(Batch[q])
                  \/ /\ s.pc = "making" /\ s.todo = r.todo /\ ToSet(Batch[q]) \cap failed = {}
                     /\ r.at = Len(Batch[q])
<1>1. request \in [Requests -> Request]
    BY DEF Typed
<1>2. PICK r \in Request : r = request[q]
    BY <1>1
<1>3. r.pc = "waiting" /\ r.at \in DOMAIN Batch[q] /\ Batch[q][r.at] \in done
    BY <1>2 DEF AwaitUploads, Asked, Awaits
<1>4. PICK n \in Nat \ {0} : n = r.at
    BY DEF Request
<1>5. n \in 1..Len(Batch[q]) /\ Len(Batch[q]) \in Nat /\ DOMAIN Batch[q] = 1..Len(Batch[q])
    BY <1>3, <1>4, Batches
<1>6. PICK good \in Seq(Uploads) : /\ good = Those(Batch[q], Uploads \ failed)
                                   /\ ToSet(good) = ToSet(Batch[q]) \cap (Uploads \ failed)
    BY Batches, ThoseOf
<1>7. CASE n < Len(Batch[q])
  <2>1. request' = [request EXCEPT ![q].at = n + 1]
    BY <1>2, <1>4, <1>7 DEF AwaitUploads
  <2>2. request'[q] = [r EXCEPT !.at = n + 1] /\ SameRequests(q)
    BY <1>1, <1>2, <2>1 DEF SameRequests
  <2>3. n + 1 \in Nat \ {0} /\ n + 1 \in DOMAIN Batch[q]
    BY <1>5, <1>7
  <2>4. request'[q] \in Request
    BY <2>2, <2>3 DEF Request
  <2>5. request' \in [Requests -> Request]
    BY <1>1, <2>1, <2>4
  <2> QED  BY <1>2, <1>3, <1>4, <2>2, <2>3, <2>5 DEF Request
<1>8. CASE ~(n < Len(Batch[q])) /\ good # Batch[q]
  <2>1. Undo(q, good)
    BY <1>2, <1>4, <1>6, <1>8 DEF AwaitUploads
  <2> QED  BY <1>2, <1>3, <1>4, <1>5, <1>6, <1>8, <2>1, UndoOn
<1>9. CASE ~(n < Len(Batch[q])) /\ good = Batch[q]
  <2>1. request' = [request EXCEPT ![q].pc = "making"]
    BY <1>2, <1>4, <1>6, <1>9 DEF AwaitUploads
  <2>2. request'[q] = [r EXCEPT !.pc = "making"] /\ SameRequests(q)
    BY <1>1, <1>2, <2>1 DEF SameRequests
  <2>3. request'[q] \in Request
    BY <2>2 DEF Request
  <2>4. request' \in [Requests -> Request]
    BY <1>1, <2>1, <2>3
  <2>5. ToSet(Batch[q]) \cap failed = {}
    BY <1>6, <1>9
  <2>6. n = Len(Batch[q])
    BY <1>5, <1>9
  <2> QED  BY <1>2, <1>3, <1>4, <2>2, <2>4, <2>5, <2>6 DEF Request
<1> QED
    BY <1>7, <1>8, <1>9

\* The metadata is made, or everything is undone.
LEMMA MakeOn ==
    ASSUME Typed, NEW q \in Requests, MakeNewFile(q)
    PROVE  LET r == request[q]
               s == request'[q]
           IN  /\ request' \in [Requests -> Request] /\ SameRequests(q)
               /\ r.pc = "making"
               /\ \/ s.pc = "saving" /\ s.at = 1 /\ s.todo = r.todo
                  \/ s.pc = "undoing" /\ s.todo = BlocksIn(Batch[q])
<1>1. request \in [Requests -> Request]
    BY DEF Typed
<1>2. PICK r \in Request : r = request[q]
    BY <1>1
<1>3. CASE request' = [request EXCEPT ![q] = [r EXCEPT !.pc = "saving", !.at = 1]]
  <2>1. request'[q] = [r EXCEPT !.pc = "saving", !.at = 1] /\ SameRequests(q)
    BY <1>1, <1>2, <1>3 DEF SameRequests
  <2>2. 1 \in Nat \ {0}
    OBVIOUS
  <2>3. request'[q] \in Request
    BY <2>1, <2>2 DEF Request
  <2>4. request' \in [Requests -> Request]
    BY <1>1, <1>3, <2>3
  <2> QED  BY <1>2, <2>1, <2>4 DEF MakeNewFile, Request
<1>4. CASE Undo(q, Batch[q])
  <2>1. Batch[q] \in Seq(Uploads)
    BY Batches
  <2> QED  BY <1>4, <2>1, UndoOn DEF MakeNewFile
<1> QED
    BY <1>2, <1>3, <1>4 DEF MakeNewFile

\* The first elements of a list.
LEMMA PrefixOf ==
    ASSUME NEW S, NEW s \in Seq(S), NEW i \in DOMAIN s
    PROVE  /\ SubSeq(s, 1, i - 1) \in Seq(S)
           /\ ToSet(SubSeq(s, 1, i - 1)) \subseteq ToSet(s)
           /\ IsInjective(s) => IsInjective(SubSeq(s, 1, i - 1))
<1>1. PICK n \in Nat : n = Len(s) /\ i \in 1..n /\ DOMAIN s = 1..n
    OBVIOUS
<1> DEFINE t == SubSeq(s, 1, i - 1)
<1>2. t \in Seq(S) /\ Len(t) = i - 1 /\ \A k \in 1..(i - 1) : t[k] = s[k] /\ k \in DOMAIN s
    BY <1>1
<1> HIDE DEF t
<1>5. DOMAIN t = 1..(i - 1)
    BY <1>1, <1>2
<1>3. ToSet(t) \subseteq ToSet(s)
    BY <1>2, <1>5 DEF ToSet
<1>4. ASSUME IsInjective(s)  PROVE IsInjective(t)
    BY <1>2, <1>4, <1>5 DEF IsInjective
<1> QED
    BY <1>2, <1>3, <1>4 DEF t

\* A file is saved, or the upload is undone: of a folder, what was removed again.
LEMMA SaveOn ==
    ASSUME Typed, Asked, NEW q \in Requests, SaveFile(q)
    PROVE  LET r == request[q]
               s == request'[q]
           IN  /\ request' \in [Requests -> Request] /\ SameRequests(q)
               /\ r.pc = "saving" /\ r.at \in DOMAIN Batch[q]
               /\ saved' \subseteq Uploads
               /\ \A u : u \notin ToSet(Batch[q]) => (u \in saved' <=> u \in saved)
               /\ \/ /\ s.pc = "saving" /\ s.at = r.at + 1 /\ s.at \in DOMAIN Batch[q]
                     /\ s.todo = r.todo
                     /\ saved' = saved \cup {Batch[q][r.at]}
                  \/ /\ s.pc = "returned" /\ r.at = Len(Batch[q]) /\ s.todo = r.todo
                     /\ saved' = saved \cup {Batch[q][r.at]}
                  \/ /\ s.pc = "undoing"
                     /\ \E t \in Seq(Uploads) :
                           /\ s.todo = BlocksIn(t) /\ IsInjective(t)
                           /\ ToSet(t) \subseteq ToSet(Batch[q])
                           /\ IF q \in Folders THEN ToSet(t) \cap saved' = {} ELSE t = Batch[q]
<1>1. request \in [Requests -> Request] /\ saved \subseteq Uploads
    BY DEF Typed
<1>2. PICK r \in Request : r = request[q]
    BY <1>1
<1>3. r.pc = "saving" /\ r.at \in DOMAIN Batch[q]
    BY <1>2 DEF SaveFile, Asked, Awaits
<1>4. PICK n \in Nat \ {0} : n = r.at
    BY DEF Request
<1>5. /\ n \in 1..Len(Batch[q]) /\ Len(Batch[q]) \in Nat /\ DOMAIN Batch[q] = 1..Len(Batch[q])
      /\ Batch[q] \in Seq(Uploads) /\ IsInjective(Batch[q])
    BY <1>3, <1>4, Batches
<1>6. PICK u \in Uploads : u = Batch[q][n] /\ u \in ToSet(Batch[q])
    BY <1>3, <1>4, Batches
<1>7. CASE /\ saved' = saved \cup {u}
           /\ request' = [request EXCEPT ![q] =
                 IF n = Len(Batch[q]) THEN [r EXCEPT !.pc = "returned"] ELSE [r EXCEPT !.at = n + 1]]
  <2>1. /\ request'[q] = IF n = Len(Batch[q]) THEN [r EXCEPT !.pc = "returned"]
                                              ELSE [r EXCEPT !.at = n + 1]
        /\ SameRequests(q)
    BY <1>1, <1>2, <1>7 DEF SameRequests
  <2>2. n + 1 \in Nat \ {0} /\ (n # Len(Batch[q]) => n + 1 \in DOMAIN Batch[q])
    BY <1>5
  <2>3. request'[q] \in Request
    BY <2>1, <2>2 DEF Request
  <2>4. request' \in [Requests -> Request]
    BY <1>1, <1>7, <2>3
  <2>5. saved' \subseteq Uploads /\ \A v : v \notin ToSet(Batch[q]) => (v \in saved' <=> v \in saved)
    BY <1>1, <1>6, <1>7
  <2>6. CASE n = Len(Batch[q])
    <3>1. request'[q].pc = "returned" /\ request'[q].todo = r.todo
      BY <2>1, <2>6 DEF Request
    <3> QED  BY <1>2, <1>3, <1>4, <1>6, <1>7, <2>1, <2>4, <2>5, <2>6, <3>1
  <2>7. CASE n # Len(Batch[q])
    <3>1. /\ request'[q].pc = "saving" /\ request'[q].at = n + 1 /\ request'[q].todo = r.todo
      BY <1>3, <2>1, <2>7 DEF Request
    <3> QED  BY <1>2, <1>3, <1>4, <1>6, <1>7, <2>1, <2>2, <2>4, <2>5, <2>7, <3>1
  <2> QED  BY <2>6, <2>7
<1> DEFINE Keeping == /\ saved' \subseteq Uploads
                      /\ \A v : v \notin ToSet(Batch[q]) => (v \in saved' <=> v \in saved)
           Taking(t) == /\ IsInjective(t) /\ ToSet(t) \subseteq ToSet(Batch[q])
                        /\ IF q \in Folders THEN ToSet(t) \cap saved' = {} ELSE t = Batch[q]
<1>8. ASSUME NEW t \in Seq(Uploads), Taking(t), Undo(q, t), Keeping
      PROVE  /\ request' \in [Requests -> Request] /\ SameRequests(q) /\ Keeping
             /\ request'[q].pc = "undoing"
             /\ \E s \in Seq(Uploads) : request'[q].todo = BlocksIn(s) /\ Taking(s)
    BY <1>8, UndoOn
<1>9. ASSUME NEW posted \in SUBSET {u}, q \in Folders,
             NEW swept \in SUBSET (ToSet(SubSeq(Batch[q], 1, n - 1)) \cup posted),
             NEW removed \in SUBSET (ToSet(SubSeq(Batch[q], 1, n - 1)) \ swept),
             saved' = (saved \cup posted) \ (swept \cup removed),
             Undo(q, Those(SubSeq(Batch[q], 1, n - 1), removed))
      PROVE  /\ request' \in [Requests -> Request] /\ SameRequests(q) /\ Keeping
             /\ request'[q].pc = "undoing"
             /\ \E s \in Seq(Uploads) : request'[q].todo = BlocksIn(s) /\ Taking(s)
  <2>1. PICK p \in Seq(Uploads) : /\ p = SubSeq(Batch[q], 1, n - 1)
                                  /\ ToSet(p) \subseteq ToSet(Batch[q]) /\ IsInjective(p)
    BY <1>5, PrefixOf
  <2>2. PICK t \in Seq(Uploads) : /\ t = Those(p, removed)
                                  /\ ToSet(t) = ToSet(p) \cap removed /\ IsInjective(t)
    <3>1. IsInjective(p)
      BY <2>1
    <3>2. Those(p, removed) \in Seq(Uploads)
      BY ThoseOf
    <3>3. ToSet(Those(p, removed)) = ToSet(p) \cap removed
      BY ThoseOf
    <3>4. IsInjective(Those(p, removed))
      BY <3>1, ThoseOf
    <3> QED  BY <3>2, <3>3, <3>4
  <2>3. Keeping
    BY <1>1, <1>6, <1>9, <2>1
  <2>4. ToSet(t) \cap saved' = {} /\ ToSet(t) \subseteq ToSet(Batch[q])
    BY <1>9, <2>1, <2>2
  <2>5. Taking(t) /\ Undo(q, t)
    BY <1>9, <2>1, <2>2, <2>4
  <2> QED  BY <1>8, <2>3, <2>5
<1>10. ASSUME NEW posted \in SUBSET {u}, q \notin Folders,
              saved' = saved \cup posted, Undo(q, Batch[q])
       PROVE  /\ request' \in [Requests -> Request] /\ SameRequests(q) /\ Keeping
              /\ request'[q].pc = "undoing"
              /\ \E s \in Seq(Uploads) : request'[q].todo = BlocksIn(s) /\ Taking(s)
  <2>1. Keeping
    BY <1>1, <1>6, <1>10
  <2>2. Taking(Batch[q])
    BY <1>5, <1>10
  <2> QED  BY <1>5, <1>8, <1>10, <2>1, <2>2
<1>11. CASE \E posted \in SUBSET {u} :
                 IF q \in Folders
                 THEN \E swept \in SUBSET (ToSet(SubSeq(Batch[q], 1, n - 1)) \cup posted) :
                      \E removed \in SUBSET (ToSet(SubSeq(Batch[q], 1, n - 1)) \ swept) :
                        /\ saved' = (saved \cup posted) \ (swept \cup removed)
                        /\ Undo(q, Those(SubSeq(Batch[q], 1, n - 1), removed))
                 ELSE saved' = saved \cup posted /\ Undo(q, Batch[q])
  <2>1. CASE q \in Folders
    BY <1>2, <1>3, <1>9, <1>11, <2>1
  <2>2. CASE q \notin Folders
    BY <1>2, <1>3, <1>10, <1>11, <2>2
  <2> QED  BY <2>1, <2>2
<1> QED
    BY <1>2, <1>4, <1>6, <1>7, <1>11 DEF SaveFile

\* One block is taken back, or left because its provider does not answer.
LEMMA RemoveOn ==
    ASSUME Typed, Placed, Asked, NEW q \in Requests, RemoveBlock(q)
    PROVE  LET r == request[q]
               s == request'[q]
               b == Head(r.todo)
           IN  /\ request' \in [Requests -> Request] /\ SameRequests(q)
               /\ r.pc = "undoing" /\ r.todo \in Seq(Blocks) /\ r.todo # <<>>
               /\ s.pc = "undoing" /\ s.todo = Tail(r.todo)
               /\ b \in Blocks /\ b \in ToSet(r.todo) /\ block[b].stage = "ok"
               /\ block[b].contract \in Contracts
               /\ block' \in [Blocks -> Place] /\ SameBlocks({b})
               /\ block'[b].contract = block[b].contract
               /\ stored' \subseteq stored /\ \A x \in stored : x[1] # b => x \in stored'
               /\ block'[b].stage = "removed" => <<b, Provider(b)>> \notin stored'
               /\ \/ /\ block'[b].stage = "removed"
                     /\ free' = [free EXCEPT ![block[b].contract] = @ + 1]
                  \/ block'[b].stage = "stranded" /\ free' = free
<1>1. /\ request \in [Requests -> Request] /\ block \in [Blocks -> Place]
      /\ stored \subseteq Blocks \X Providers
    BY DEF Typed
<1>2. PICK r \in Request : r = request[q]
    BY <1>1
<1>3. r.pc = "undoing" /\ r.todo \in Seq(Blocks) /\ r.todo # <<>>
    BY <1>2 DEF RemoveBlock, Request
<1>4. PICK b \in Blocks : b = Head(r.todo) /\ b \in ToSet(r.todo)
  <2>1. Head(r.todo) = r.todo[1] /\ 1 \in DOMAIN r.todo /\ r.todo[1] \in Blocks
    BY <1>3
  <2> QED  BY <2>1 DEF ToSet
<1>5. block[b].stage = "ok"
    BY <1>2, <1>3, <1>4 DEF Asked, Undoes
<1>6. PICK k \in Place : k = block[b]
    BY <1>1
<1>7. k.contract \in Contracts
    BY <1>5, <1>6 DEF Placed, PlacedOK, Place
<1>8. request'[q] = [r EXCEPT !.todo = Tail(r.todo)] /\ SameRequests(q)
    BY <1>1, <1>2 DEF RemoveBlock, SameRequests
<1>9. request'[q] \in Request
  <2>1. Tail(r.todo) \in Seq(Blocks)
    BY <1>3
  <2> QED  BY <1>8, <2>1 DEF Request
<1>10. request' \in [Requests -> Request]
    BY <1>1, <1>9 DEF RemoveBlock
<1>11. request'[q].pc = "undoing" /\ request'[q].todo = Tail(r.todo)
    BY <1>3, <1>8 DEF Request
<1>12. ASSUME NEW label \in {"removed", "stranded"}, block' = [block EXCEPT ![b].stage = label]
       PROVE  /\ block' \in [Blocks -> Place] /\ SameBlocks({b})
              /\ block'[b].stage = label /\ block'[b].contract = block[b].contract
  <2>1. block'[b] = [k EXCEPT !.stage = label]
    BY <1>1, <1>6, <1>12
  <2>2. block'[b] \in Place
    BY <2>1 DEF Place
  <2> QED  BY <1>1, <1>6, <1>12, <2>1, <2>2 DEF Place, SameBlocks
<1>13. stored' \subseteq stored /\ \A x \in stored : x[1] # b => x \in stored'
  <2>1. \E gone \in SUBSET {<<b, Provider(b)>>} : stored' = stored \ gone
    BY <1>2, <1>4 DEF RemoveBlock
  <2> QED  BY <2>1
<1>14. \/ block' = [block EXCEPT ![b].stage = "removed"]
          /\ stored' = stored \ {<<b, Provider(b)>>}
          /\ free' = [free EXCEPT ![block[b].contract] = @ + 1]
       \/ block' = [block EXCEPT ![b].stage = "stranded"] /\ free' = free
    BY <1>2, <1>4 DEF RemoveBlock
<1>15. /\ block' \in [Blocks -> Place] /\ SameBlocks({b})
       /\ block'[b].contract = block[b].contract
       /\ block'[b].stage = "removed" => <<b, Provider(b)>> \notin stored'
       /\ \/ /\ block'[b].stage = "removed"
             /\ free' = [free EXCEPT ![block[b].contract] = @ + 1]
          \/ block'[b].stage = "stranded" /\ free' = free
    BY <1>12, <1>14
<1> QED
    BY <1>2, <1>3, <1>4, <1>5, <1>6, <1>7, <1>8, <1>10, <1>11, <1>13, <1>15

\* The scheduler passes on the block it has.
LEMMA ForwardOn ==
    ASSUME Typed, Placed, Forward
    PROVE  /\ sched \in Blocks /\ block[sched].stage = "scheduled" /\ sched' = NoBlock
           /\ block' \in [Blocks -> Place] /\ SameBlocks({sched})
           /\ block'[sched].stage = "sending" /\ block'[sched].contract = block[sched].contract
<1>1. PICK b \in Blocks : b = sched
    BY DEF Typed, Forward
<1>2. block \in [Blocks -> Place] /\ block[b].stage = "scheduled"
    BY <1>1 DEF Typed, Placed, PlacedOK
<1>3. PICK k \in Place : k = block[b]
    BY <1>2
<1>4. block'[b] = [k EXCEPT !.stage = "sending"]
    BY <1>1, <1>2, <1>3 DEF Forward
<1>5. block'[b] \in Place
    BY <1>4 DEF Place
<1> QED
    BY <1>1, <1>2, <1>3, <1>4, <1>5 DEF Forward, Place, SameBlocks

\* A provider answers; what it has stored it keeps.
LEMMA PutOn ==
    ASSUME Typed, NEW p \in Providers, NEW b \in Blocks, PutBlock(p, b)
    PROVE  /\ block[b].stage = "sending"
           /\ block' \in [Blocks -> Place] /\ SameBlocks({b})
           /\ block'[b].stage \in {"ok", "bad"} /\ block'[b].contract = block[b].contract
           /\ stored \subseteq stored' /\ stored' \subseteq Blocks \X Providers
           /\ \A x \in stored' : x[1] # b => x \in stored
           /\ block'[b].stage = "ok" => <<b, ProviderOf[block[b].contract]>> \in stored'
<1>1. block \in [Blocks -> Place] /\ stored \subseteq Blocks \X Providers
    BY DEF Typed
<1>2. PICK k \in Place : k = block[b]
    BY <1>1
<1>3. ASSUME NEW label \in {"ok", "bad"}, block' = [block EXCEPT ![b].stage = label]
      PROVE  /\ block' \in [Blocks -> Place] /\ SameBlocks({b})
             /\ block'[b].stage = label /\ block'[b].contract = block[b].contract
  <2>1. block'[b] = [k EXCEPT !.stage = label]
    BY <1>1, <1>2, <1>3
  <2>2. block'[b] \in Place
    BY <2>1 DEF Place
  <2> QED  BY <1>1, <1>2, <1>3, <2>1, <2>2 DEF Place, SameBlocks
<1>4. /\ block[b].stage = "sending" /\ ProviderOf[block[b].contract] = p
      /\ stored \subseteq stored' /\ stored' \subseteq Blocks \X Providers
    BY <1>1 DEF PutBlock, Provider
<1>6. \A x \in stored' : x[1] # b => x \in stored
  <2>1. stored' = stored \cup {<<b, p>>} \/ stored' = stored
    BY DEF PutBlock
  <2>2. <<b, p>>[1] = b
    OBVIOUS
  <2> QED  BY <2>1, <2>2
<1>5. \/ block' = [block EXCEPT ![b].stage = "ok"] /\ <<b, p>> \in stored'
      \/ block' = [block EXCEPT ![b].stage = "bad"]
    BY DEF PutBlock
<1> QED
    BY <1>3, <1>4, <1>5, <1>6

-----------------------------------------------------------------------------
(* The types.                                                              *)

\* Every step leaves values of the types.
LEMMA TypedStep ==
    ASSUME Typed, Handed, Jobs, Placed, Asked, [Next]_vars
    PROVE  Typed'
<1>1. ASSUME NEW q \in Requests, Accept(q)  PROVE Typed'
  <2>1. Batch[q][request[q].at] \in Uploads
    BY <1>1, AcceptOn, Batches
  <2>2. thread' \in [pc : {"select", "polling", "handing", "full", "resetting"},
                     upload : Uploads \cup {NoUpload}]
    BY <1>1, <2>1, AcceptOn
  <2> QED  BY <1>1, <2>2, AcceptOn DEF Typed, Accept
<1>2. ASSUME NEW w \in Workers, Hand(w)  PROVE Typed'
  <2>1. thread' \in [pc : {"select", "polling", "handing", "full", "resetting"},
                     upload : Uploads \cup {NoUpload}]
    BY <1>2 DEF Hand, HandUpTo
  <2>2. active' \in Int
    BY <1>2 DEF Hand, HandUpTo, Typed
  <2> QED  BY <1>2, <2>1, <2>2, HandOn DEF Typed, Hand, HandUpTo
<1>3. ASSUME NEW w \in Workers, Finish(w)  PROVE Typed'
  <2>1. thread' \in [pc : {"select", "polling", "handing", "full", "resetting"},
                     upload : Uploads \cup {NoUpload}]
    BY <1>3 DEF Finish, FinishWith, Typed
  <2>2. active' \in Int
    BY <1>3 DEF Finish, FinishWith, Typed
  <2> QED  BY <1>3, <2>1, <2>2, FinishOn DEF Typed, Finish, FinishWith
<1>4. CASE PollNothing \/ ResetProviderConns
  <2>1. thread' \in [pc : {"select", "polling", "handing", "full", "resetting"},
                     upload : Uploads \cup {NoUpload}]
    BY <1>4 DEF PollNothing, ResetProviderConns, Typed
  <2>2. conn' \in [Providers -> {"none", "dialing", "open", "refused"}]
    BY <1>4 DEF PollNothing, ResetProviderConns, Typed
  <2> QED  BY <1>4, <2>1, <2>2 DEF Typed, PollNothing, ResetProviderConns
<1>5. ASSUME NEW w \in Workers, PrepareUpload(w)  PROVE Typed'
  <2>1. worker' \in [Workers -> Job] /\ failed' \subseteq Uploads
    BY <1>5, PrepareOn DEF Typed
  <2> QED  BY <1>5, <2>1 DEF Typed, PrepareUpload
<1>6. ASSUME NEW w \in Workers, FindStorage(w)  PROVE Typed'
  <2>1. /\ worker' \in [Workers -> Job] /\ block' \in [Blocks -> Place]
        /\ free' \in [Contracts -> Nat] /\ worker[w].pc = "finding"
        /\ failed' = failed \/ failed' = failed \cup {worker[w].upload}
    BY <1>6, FindOn
  <2>2. worker[w].upload \in Uploads
    BY <2>1 DEF Handed
  <2>3. failed' \subseteq Uploads
    BY <2>1, <2>2 DEF Typed
  <2> QED  BY <1>6, <2>1, <2>3 DEF Typed, FindStorage
<1>7. ASSUME NEW w \in Workers, Queue(w)  PROVE Typed'
    BY <1>7, QueueOn DEF Typed, Queue
<1>8. ASSUME NEW w \in Workers, Collect(w)  PROVE Typed'
  <2>1. worker' \in [Workers -> Job] /\ block' \in [Blocks -> Place]
    BY <1>8, CollectOn
  <2> QED  BY <1>8, <2>1 DEF Typed, Collect, CollectAvoiding
<1>9. ASSUME NEW w \in Workers, Settle(w)  PROVE Typed'
  <2>1. /\ worker' \in [Workers -> Job] /\ block' \in [Blocks -> Place]
        /\ free' \in [Contracts -> Nat] /\ done' \subseteq Uploads
    BY <1>9, SettleOn DEF Typed
  <2> QED  BY <1>9, <2>1 DEF Typed, Settle, SettleReturning
<1>10. CASE BlockUploadScheduleThread
  <2>1. CASE Dial
    <3>1. conn' \in [Providers -> {"none", "dialing", "open", "refused"}]
      BY <2>1 DEF Dial, Typed
    <3> QED  BY <2>1, <3>1 DEF Typed, Dial
  <2>2. CASE Forward
    BY <2>2, ForwardOn DEF Typed, Forward
  <2> QED  BY <1>10, <2>1, <2>2 DEF BlockUploadScheduleThread
<1>11. ASSUME NEW p \in Providers, BlockUploadThread(p)  PROVE Typed'
  <2>1. CASE AuthorizeRenter(p)
    <3>1. conn' \in [Providers -> {"none", "dialing", "open", "refused"}]
      BY <2>1 DEF AuthorizeRenter, Typed
    <3> QED  BY <2>1, <3>1 DEF Typed, AuthorizeRenter
  <2>2. ASSUME NEW b \in Blocks, PutBlock(p, b)  PROVE Typed'
    <3>1. block' \in [Blocks -> Place] /\ stored' \subseteq Blocks \X Providers
      BY <2>2, PutOn
    <3> QED  BY <2>2, <3>1 DEF Typed, PutBlock
  <2> QED  BY <1>11, <2>1, <2>2 DEF BlockUploadThread
<1>12. ASSUME NEW q \in Requests, Upload(q) \/ ReturnError(q)  PROVE Typed'
  <2>1. request \in [Requests -> Request]
    BY DEF Typed
  <2>2. PICK r \in Request : r = request[q]
    BY <2>1
  <2>3. PICK label \in {"sending", "failed"} : request' = [request EXCEPT ![q].pc = label]
    BY <1>12 DEF Upload, ReturnError
  <2>4. [r EXCEPT !.pc = label] \in Request
    BY DEF Request
  <2>5. request' \in [Requests -> Request]
    BY <2>1, <2>2, <2>3, <2>4
  <2> QED  BY <1>12, <2>5 DEF Typed, Upload, ReturnError
<1>13. ASSUME NEW q \in Requests, AwaitUploads(q)  PROVE Typed'
  <2>1. request' \in [Requests -> Request]
    BY <1>13, AwaitOn
  <2> QED  BY <1>13, <2>1 DEF Typed, AwaitUploads
<1>14. ASSUME NEW q \in Requests, MakeNewFile(q)  PROVE Typed'
  <2>1. request' \in [Requests -> Request]
    BY <1>14, MakeOn
  <2> QED  BY <1>14, <2>1 DEF Typed, MakeNewFile
<1>15. ASSUME NEW q \in Requests, SaveFile(q)  PROVE Typed'
  <2>1. request' \in [Requests -> Request] /\ saved' \subseteq Uploads
    BY <1>15, SaveOn
  <2> QED  BY <1>15, <2>1 DEF Typed, SaveFile
<1>16. ASSUME NEW q \in Requests, RemoveBlock(q)  PROVE Typed'
  <2>1. /\ request' \in [Requests -> Request] /\ block' \in [Blocks -> Place]
        /\ stored' \subseteq stored
        /\ \/ free' = [free EXCEPT ![block[Head(request[q].todo)].contract] = @ + 1]
           \/ free' = free
    BY <1>16, RemoveOn
  <2>2. free' \in [Contracts -> Nat]
    BY <2>1 DEF Typed
  <2>3. stored' \subseteq Blocks \X Providers
    BY <2>1 DEF Typed
  <2> QED  BY <1>16, <2>1, <2>2, <2>3 DEF Typed, RemoveBlock
<1>17. CASE UNCHANGED vars
    BY <1>17 DEF vars, Typed
<1> QED
    BY <1>1, <1>2, <1>3, <1>4, <1>5, <1>6, <1>7, <1>8, <1>9, <1>10, <1>11, <1>12, <1>13, <1>14,
       <1>15, <1>16, <1>17 DEF Next, UploadThread, FileUploadWorker, RequestThread

-----------------------------------------------------------------------------
(* Who has an upload.                                                      *)

\* A step that hands nothing over, and that touches what somebody has.
LEMMA HandedKeeps ==
    ASSUME Handed,
           \A q \in Requests : \A i \in DOMAIN Batch[q] : Ahead(q, i)' => Ahead(q, i),
           thread'.pc = "handing" => thread' = thread,
           \A w \in Workers : worker'[w].pc # "idle" =>
              worker[w].pc # "idle" /\ worker'[w].upload = worker[w].upload,
           \A u \in Uploads : Untouched(u) =>
              u \notin failed' /\ u \notin done'
              /\ \A b \in ToSet(BlocksOf[u]) : block'[b] = block[b]
    PROVE  Handed'
<1>1. \A w \in Workers : \A u : Has(w, u)' => Has(w, u)
    BY DEF Has
<1>2. \A u \in Uploads : Untouched(u) => Untouched(u)'
    BY <1>1 DEF Untouched
<1>3. ASSUME NEW q \in Requests, NEW i \in DOMAIN Batch[q], Ahead(q, i)'
      PROVE  Untouched(Batch[q][i])' /\ ~InHand(Batch[q][i])'
  <2>1. Batch[q][i] \in Uploads /\ Untouched(Batch[q][i]) /\ ~InHand(Batch[q][i])
    BY <1>3, Batches DEF Handed
  <2> QED  BY <1>2, <2>1 DEF InHand
<1>4. thread'.pc = "handing" => thread'.upload \in Uploads /\ Untouched(thread.upload)'
    BY <1>2 DEF Handed
<1>5. \A w \in Workers : worker'[w].pc # "idle" => worker'[w].upload \in Uploads
    BY DEF Handed
<1>6. \A u \in Uploads : \A v, w \in Workers : Has(v, u)' /\ Has(w, u)' => v = w
    BY <1>1 DEF Handed
<1> QED
    BY <1>3, <1>4, <1>5, <1>6 DEF Handed

\* A block that has been placed is of an upload somebody has, or had.
LEMMA TouchedBlocks ==
    ASSUME NEW b \in Blocks, block[b] # Unplaced, NEW u \in Uploads, Untouched(u)
    PROVE  b \notin ToSet(BlocksOf[u])
BY DEF Untouched

\* Every step keeps it.
LEMMA HandedStep ==
    ASSUME Typed, Handed, Jobs, Placed, Asked, [Next]_vars
    PROVE  Handed'
<1>1. ASSUME NEW q \in Requests, Accept(q)  PROVE Handed'
  <2>1. PICK n \in DOMAIN Batch[q] : n = request[q].at
    BY <1>1, AcceptOn
  <2>2. PICK u \in Uploads : u = Batch[q][n] /\ u \in ToSet(Batch[q])
    BY Batches
  <2>3. /\ DOMAIN Batch[q] = 1..Len(Batch[q]) /\ Len(Batch[q]) \in Nat /\ IsInjective(Batch[q])
    BY Batches
  <2>4. /\ request[q].pc = "sending" /\ SameRequests(q) /\ thread' = [pc |-> "handing", upload |-> u]
        /\ thread.pc # "handing"
        /\ IF n = Len(Batch[q]) THEN request'[q].pc = "waiting"
           ELSE request'[q].pc = "sending" /\ request'[q].at = n + 1
    BY <1>1, <2>1, <2>2, AcceptOn
  <2>5. Ahead(q, n) /\ Untouched(u)
    BY <2>1, <2>2, <2>3, <2>4 DEF Ahead, Handed
  <2>6. UNCHANGED <<failed, done, worker, block>>
    BY <1>1 DEF Accept
  <2>7. \A v : Untouched(v) => Untouched(v)'
    BY <2>6 DEF Untouched, Has
  <2>8. ASSUME NEW r \in Requests, NEW i \in DOMAIN Batch[r], Ahead(r, i)'
        PROVE  Ahead(r, i) /\ Batch[r][i] # u
    <3>1. CASE r = q
      <4>1. i >= n + 1 /\ n # Len(Batch[q])
        BY <2>4, <2>8, <3>1 DEF Ahead
      <4>2. i >= n /\ i # n
        BY <2>3, <3>1, <4>1
      <4>3. Ahead(q, i)
        BY <2>1, <2>4, <4>2 DEF Ahead
      <4>4. Batch[q][i] # u
        BY <2>2, <2>3, <3>1, <4>2 DEF IsInjective
      <4> QED  BY <3>1, <4>3, <4>4
    <3>2. CASE r # q
      <4>1. Ahead(r, i)
        BY <2>4, <2>8, <3>2 DEF Ahead, SameRequests
      <4>2. Batch[r][i] \in ToSet(Batch[r])
        BY Batches
      <4> QED  BY <2>2, <3>2, <4>1, <4>2, Batches
    <3> QED  BY <3>1, <3>2
  <2>9. ASSUME NEW r \in Requests, NEW i \in DOMAIN Batch[r], Ahead(r, i)'
        PROVE  Untouched(Batch[r][i])' /\ ~InHand(Batch[r][i])'
    BY <2>4, <2>7, <2>8, <2>9 DEF Handed, InHand
  <2>10. Untouched(u)' /\ thread'.upload = u
    BY <2>4, <2>5, <2>7
  <2>11. Untouched(thread.upload)'
    BY <2>10 DEF Untouched, Has
  <2>12. /\ \A w \in Workers : worker'[w].pc # "idle" => worker'[w].upload \in Uploads
         /\ \A x \in Uploads : \A v, w \in Workers : Has(v, x)' /\ Has(w, x)' => v = w
    BY <2>6 DEF Handed, Has
  <2> QED  BY <2>9, <2>10, <2>11, <2>12 DEF Handed
<1>2. ASSUME NEW w \in Workers, Hand(w)  PROVE Handed'
  <2>1. PICK u \in Uploads : u = thread.upload
    BY <1>2, HandOn
  <2>2. /\ thread.pc = "handing" /\ worker[w].pc = "idle" /\ SameJobs(w)
        /\ worker'[w].pc = "preparing" /\ worker'[w].upload = u
        /\ UNCHANGED <<request, failed, done, block>> /\ thread'.pc # "handing"
    BY <1>2, <2>1, HandOn DEF Hand, HandUpTo
  <2>3. Untouched(u)
    BY <2>1, <2>2 DEF Handed
  <2>4. \A v \in Workers : \A x : Has(v, x)' <=> Has(v, x) \/ (v = w /\ x = u)
    BY <2>2 DEF Has, SameJobs
  <2>5. ASSUME NEW q \in Requests, NEW i \in DOMAIN Batch[q], Ahead(q, i)'
        PROVE  Untouched(Batch[q][i])' /\ ~InHand(Batch[q][i])'
    <3>1. Ahead(q, i)
      BY <2>2, <2>5 DEF Ahead
    <3>2. Untouched(Batch[q][i]) /\ Batch[q][i] # u
      BY <2>1, <2>2, <3>1 DEF Handed, InHand
    <3> QED  BY <2>2, <2>4, <3>2 DEF Untouched, InHand
  <2>6. \A v \in Workers : worker'[v].pc # "idle" => worker'[v].upload \in Uploads
    BY <2>2 DEF Handed, SameJobs
  <2>7. \A x \in Uploads : \A v, y \in Workers : Has(v, x)' /\ Has(y, x)' => v = y
    BY <2>3, <2>4 DEF Handed, Untouched
  <2> QED  BY <2>2, <2>5, <2>6, <2>7 DEF Handed
<1>3. ASSUME NEW w \in Workers, SameJobs(w),
             worker'[w].pc # "idle" => worker'[w].upload = worker[w].upload,
             worker[w].pc # "idle", UNCHANGED request, thread'.pc = "handing" => thread' = thread,
             failed' \subseteq failed \cup {worker[w].upload},
             done' \subseteq done \cup {worker[w].upload},
             SameBlocks(ToSet(BlocksOf[worker[w].upload]))
      PROVE  Handed'
  <2>1. worker[w].upload \in Uploads /\ ~Untouched(worker[w].upload)
    BY <1>3 DEF Handed, Untouched, Has
  <2>2. ASSUME NEW u \in Uploads, Untouched(u)
        PROVE  /\ u \notin failed' /\ u \notin done'
               /\ \A b \in ToSet(BlocksOf[u]) : block'[b] = block[b]
    <3>1. u # worker[w].upload
      BY <2>1, <2>2
    <3>2. \A b \in ToSet(BlocksOf[u]) : b \in Blocks \ ToSet(BlocksOf[worker[w].upload])
      BY <2>1, <3>1, BlockLists
    <3> QED  BY <1>3, <2>2, <3>1, <3>2 DEF Untouched, SameBlocks
  <2>3. \A q \in Requests : \A i \in DOMAIN Batch[q] : Ahead(q, i)' => Ahead(q, i)
    BY <1>3 DEF Ahead
  <2>4. \A v \in Workers : worker'[v].pc # "idle" =>
              worker[v].pc # "idle" /\ worker'[v].upload = worker[v].upload
    BY <1>3 DEF SameJobs
  <2> QED  BY <1>3, <2>2, <2>3, <2>4, HandedKeeps
<1>4. ASSUME NEW w \in Workers, Finish(w)  PROVE Handed'
  <2>1. /\ SameJobs(w) /\ worker[w].pc # "idle" /\ worker'[w].pc = "idle"
        /\ UNCHANGED <<request, failed, done, block>>
        /\ thread'.pc # "handing"
    BY <1>4, FinishOn DEF Finish, FinishWith, IdleWorker, Typed
  <2> QED  BY <1>3, <2>1 DEF SameBlocks
<1>5. ASSUME NEW w \in Workers, FileUploadWorker(w)  PROVE Handed'
  <2>1. worker[w].pc # "idle"
    BY <1>5 DEF FileUploadWorker, PrepareUpload, FindStorage, Queue, Collect, CollectAvoiding,
       Settle, SettleReturning
  <2>2. UNCHANGED <<request, thread>>
    BY <1>5 DEF FileUploadWorker, PrepareUpload, FindStorage, Queue, Collect, CollectAvoiding,
       Settle, SettleReturning
  <2>3. CASE PrepareUpload(w)
    <3>1. /\ SameJobs(w) /\ worker'[w].upload = worker[w].upload
          /\ failed' \subseteq failed \cup {worker[w].upload} /\ UNCHANGED <<done, block>>
      BY <2>3, PrepareOn DEF PrepareUpload
    <3> QED  BY <1>3, <2>1, <2>2, <3>1 DEF SameBlocks
  <2>4. CASE FindStorage(w)
    <3>1. /\ SameJobs(w) /\ worker'[w].upload = worker[w].upload /\ worker[w].pc = "finding"
          /\ failed' \subseteq failed \cup {worker[w].upload} /\ UNCHANGED done
          /\ SameBlocks(ToSet(worker[w].pending))
      BY <2>4, FindOn DEF FindStorage, SameBlocks
    <3>2. ToSet(worker[w].pending) \subseteq ToSet(BlocksOf[worker[w].upload])
      BY <3>1 DEF Jobs, JobOK, Rounds
    <3>3. SameBlocks(ToSet(BlocksOf[worker[w].upload]))
      BY <3>1, <3>2 DEF SameBlocks
    <3> QED  BY <1>3, <2>1, <2>2, <3>1, <3>3
  <2>5. CASE Queue(w)
    <3>1. PICK b : /\ b \in ToSet(worker[w].pending) /\ SameBlocks({b})
                   /\ SameJobs(w) /\ worker'[w].upload = worker[w].upload
                   /\ worker[w].pc = "queueing" /\ UNCHANGED <<failed, done>>
      BY <2>5, QueueOn DEF Queue
    <3>2. b \in ToSet(BlocksOf[worker[w].upload])
      BY <3>1 DEF Jobs, JobOK, Rounds
    <3>3. SameBlocks(ToSet(BlocksOf[worker[w].upload]))
      BY <3>1, <3>2 DEF SameBlocks
    <3> QED  BY <1>3, <2>1, <2>2, <3>1, <3>3
  <2>6. CASE Collect(w)
    <3>4. /\ SameJobs(w) /\ worker'[w].upload = worker[w].upload /\ worker[w].pc = "waiting"
          /\ SameBlocks(ToSet(Failures(w)))
          /\ ToSet(Failures(w)) \subseteq ToSet(worker[w].pending)
      BY <2>6, CollectOn
    <3>1. /\ SameJobs(w) /\ worker'[w].upload = worker[w].upload /\ worker[w].pc = "waiting"
          /\ UNCHANGED <<failed, done>> /\ SameBlocks(ToSet(Failures(w)))
          /\ ToSet(Failures(w)) \subseteq ToSet(worker[w].pending)
      BY <2>6, <3>4 DEF Collect, CollectAvoiding
    <3>2. ToSet(worker[w].pending) \subseteq ToSet(BlocksOf[worker[w].upload])
      BY <3>1 DEF Jobs, JobOK, Rounds
    <3>3. SameBlocks(ToSet(BlocksOf[worker[w].upload]))
      BY <3>1, <3>2 DEF SameBlocks
    <3> QED  BY <1>3, <2>1, <2>2, <3>1, <3>3
  <2>7. CASE Settle(w)
    <3>1. /\ SameJobs(w) /\ worker'[w].upload = worker[w].upload
          /\ UNCHANGED failed /\ done' = done \cup {worker[w].upload}
          /\ SameBlocks(GivenUp(w)) /\ GivenUp(w) \subseteq ToSet(BlocksOf[worker[w].upload])
      BY <2>7, SettleOn DEF Settle, SettleReturning
    <3>2. SameBlocks(ToSet(BlocksOf[worker[w].upload]))
      BY <3>1 DEF SameBlocks
    <3> QED  BY <1>3, <2>1, <2>2, <3>1, <3>2
  <2> QED  BY <1>5, <2>3, <2>4, <2>5, <2>6, <2>7 DEF FileUploadWorker
<1>6. ASSUME \A q \in Requests :
                \/ request'[q] = request[q]
                \/ request'[q].pc \notin {"new", "sending"}
                \/ (request[q].pc \in {"new", "sending"} /\ request'[q].at = request[q].at),
             thread'.pc = "handing" => thread' = thread, UNCHANGED <<worker, failed, done>>,
             \A b \in Blocks : block'[b] = block[b] \/ block[b] # Unplaced
      PROVE  Handed'
  <2>1. \A q \in Requests : \A i \in DOMAIN Batch[q] : Ahead(q, i)' => Ahead(q, i)
    BY <1>6 DEF Ahead
  <2>2. ASSUME NEW u \in Uploads, Untouched(u)
        PROVE  /\ u \notin failed' /\ u \notin done'
               /\ \A b \in ToSet(BlocksOf[u]) : block'[b] = block[b]
    BY <1>6, <2>2, BlockLists DEF Untouched
  <2> QED  BY <1>6, <2>1, <2>2, HandedKeeps
<1>7. CASE PollNothing \/ ResetProviderConns \/ Dial \/ \E p \in Providers : AuthorizeRenter(p)
    BY <1>6, <1>7 DEF PollNothing, ResetProviderConns, Dial, AuthorizeRenter, Typed
<1>8. CASE Forward
  <2>1. /\ sched \in Blocks /\ block[sched] # Unplaced /\ SameBlocks({sched})
        /\ UNCHANGED <<request, thread, worker, failed, done>>
    BY <1>8, ForwardOn DEF Forward, Unplaced
  <2> QED  BY <1>6, <2>1 DEF SameBlocks
<1>9. ASSUME NEW p \in Providers, NEW b \in Blocks, PutBlock(p, b)  PROVE Handed'
  <2>1. block[b].stage = "sending" /\ SameBlocks({b})
    BY <1>9, PutOn
  <2>2. block[b] # Unplaced
    BY <2>1 DEF Unplaced
  <2>3. UNCHANGED <<request, thread, worker, failed, done>>
    BY <1>9 DEF PutBlock
  <2> QED  BY <1>6, <2>1, <2>2, <2>3 DEF SameBlocks
<1>10. ASSUME NEW q \in Requests, Upload(q)  PROVE Handed'
  <2>1. /\ request[q].pc = "new" /\ request'[q].at = request[q].at /\ SameRequests(q)
        /\ UNCHANGED <<thread, worker, failed, done, block>>
    BY <1>10 DEF Upload, Typed, Request, SameRequests
  <2> QED  BY <1>6, <2>1 DEF SameRequests
<1>11. ASSUME NEW q \in Requests, RequestThread(q)  PROVE Handed'
  <2>1. UNCHANGED <<thread, worker, failed, done>>
    BY <1>11 DEF RequestThread, AwaitUploads, MakeNewFile, SaveFile, RemoveBlock, ReturnError
  <2>2. CASE RemoveBlock(q)
    <3>3. PICK b \in Blocks : block[b].stage = "ok" /\ SameBlocks({b})
      BY <2>2, RemoveOn
    <3>1. block[b] # Unplaced /\ SameBlocks({b})
      BY <3>3 DEF Unplaced
    <3>2. SameRequests(q) /\ request[q].pc = "undoing" /\ request'[q].pc = "undoing"
      BY <2>2, RemoveOn
    <3> QED  BY <1>6, <2>1, <3>1, <3>2 DEF SameBlocks, SameRequests
  <2>3. CASE ReturnError(q)
    <3>1. /\ request[q].pc = "undoing" /\ request'[q].pc = "failed" /\ SameRequests(q)
          /\ UNCHANGED block
      BY <2>3 DEF ReturnError, Typed, Request, SameRequests
    <3> QED  BY <1>6, <2>1, <3>1 DEF SameRequests
  <2>4. CASE AwaitUploads(q) \/ MakeNewFile(q) \/ SaveFile(q)
    <3>1. /\ SameRequests(q) /\ request[q].pc \notin {"new", "sending"}
          /\ request'[q].pc \notin {"new", "sending"}
      BY <2>4, AwaitOn, MakeOn, SaveOn
    <3>2. UNCHANGED block
      BY <2>4 DEF AwaitUploads, MakeNewFile, SaveFile
    <3> QED  BY <1>6, <2>1, <3>1, <3>2 DEF SameRequests
  <2> QED  BY <1>11, <2>2, <2>3, <2>4 DEF RequestThread
<1>12. CASE UNCHANGED vars
    BY <1>6, <1>12 DEF vars
<1> QED
    BY <1>1, <1>2, <1>4, <1>5, <1>7, <1>8, <1>9, <1>10, <1>11, <1>12
    DEF Next, UploadThread, BlockUploadScheduleThread, BlockUploadThread

-----------------------------------------------------------------------------
(* The number of busy workers.                                             *)

\* A step that neither makes a worker busy nor frees one.
LEMMA CountedKeeps ==
    ASSUME Counted, \A w \in Workers : worker'[w].pc = "idle" <=> worker[w].pc = "idle",
           active' = active,
           thread'.pc \in {"polling", "resetting"} => thread.pc \in {"polling", "resetting"}
    PROVE  Counted'
<1>1. Busy' = Busy
    BY DEF Busy
<1> QED
    BY <1>1 DEF Counted

\* Every step keeps it.
LEMMA CountedStep ==
    ASSUME Typed, Handed, Jobs, Placed, Asked, Counted, [Next]_vars
    PROVE  Counted'
<1>1. IsFiniteSet(Busy) /\ Cardinality(Busy) \in Nat
  <2>1. IsFiniteSet(Workers) /\ Busy \in SUBSET Workers
    BY UploadAssumption DEF Busy
  <2> QED  BY <2>1, FS_Subset, FS_CardinalityType
<1>2. ASSUME NEW w \in Workers, Hand(w)  PROVE Counted'
  <2>1. /\ SameJobs(w) /\ worker[w].pc = "idle" /\ worker'[w].pc = "preparing"
        /\ active' = active + 1 /\ thread'.pc \notin {"polling", "resetting"}
    BY <1>2, HandOn DEF Hand, HandUpTo
  <2>2. Busy' = Busy \cup {w} /\ w \notin Busy
    BY <2>1 DEF Busy, SameJobs
  <2>3. Cardinality(Busy') = Cardinality(Busy) + 1
    BY <1>1, <2>2, FS_AddElement
  <2> QED  BY <1>1, <2>1, <2>3 DEF Counted
<1>3. ASSUME NEW w \in Workers, Finish(w)  PROVE Counted'
  <2>1. /\ SameJobs(w) /\ worker[w].pc = "reporting" /\ worker'[w].pc = "idle"
        /\ active' = active - 1 /\ (thread'.pc \in {"polling", "resetting"} => active = 1)
    BY <1>3, FinishOn DEF Finish, FinishWith, IdleWorker, Typed
  <2>2. Busy' = Busy \ {w} /\ w \in Busy
    BY <2>1 DEF Busy, SameJobs
  <2>3. Cardinality(Busy') = Cardinality(Busy) - 1
    BY <1>1, <2>2, FS_RemoveElement
  <2> QED  BY <1>1, <2>1, <2>3 DEF Counted
<1>4. ASSUME NEW w \in Workers, FileUploadWorker(w)  PROVE Counted'
  <2>1. /\ SameJobs(w) /\ worker[w].pc # "idle" /\ worker'[w].pc # "idle"
    BY <1>4, PrepareOn, FindOn, QueueOn, CollectOn, SettleOn DEF FileUploadWorker
  <2>2. UNCHANGED <<active, thread>>
    BY <1>4 DEF FileUploadWorker, PrepareUpload, FindStorage, Queue, Collect, CollectAvoiding,
       Settle, SettleReturning
  <2> QED  BY <2>1, <2>2, CountedKeeps DEF SameJobs
<1>5. ASSUME UNCHANGED <<worker, active>>,
             thread'.pc \in {"polling", "resetting"} => thread.pc \in {"polling", "resetting"}
      PROVE  Counted'
    BY <1>5, CountedKeeps
<1>6. CASE UploadThread
  <2>1. CASE PollNothing \/ ResetProviderConns \/ \E q \in Requests : Accept(q)
    <3>1. UNCHANGED <<worker, active>>
      BY <2>1 DEF PollNothing, ResetProviderConns, Accept
    <3>2. thread'.pc \in {"polling", "resetting"} => thread.pc \in {"polling", "resetting"}
      <4>1. (\E q \in Requests : Accept(q)) => thread'.pc = "handing"
        BY AcceptOn
      <4>2. PollNothing => thread.pc = "polling"
        BY DEF PollNothing
      <4>3. ResetProviderConns => thread.pc = "resetting"
        BY DEF ResetProviderConns
      <4> QED  BY <2>1, <4>1, <4>2, <4>3
    <3> QED  BY <1>5, <3>1, <3>2
  <2> QED  BY <1>2, <1>3, <1>6, <2>1 DEF UploadThread
<1>7. CASE BlockUploadScheduleThread \/ \E p \in Providers : BlockUploadThread(p)
    BY <1>5, <1>7 DEF BlockUploadScheduleThread, Dial, Forward, BlockUploadThread,
       AuthorizeRenter, PutBlock
<1>8. ASSUME NEW q \in Requests, Upload(q) \/ RequestThread(q)  PROVE Counted'
    BY <1>5, <1>8 DEF Upload, RequestThread, AwaitUploads, MakeNewFile, SaveFile, RemoveBlock,
       ReturnError
<1>9. CASE UNCHANGED vars
    BY <1>5, <1>9 DEF vars
<1> QED
    BY <1>4, <1>6, <1>7, <1>8, <1>9 DEF Next

-----------------------------------------------------------------------------
(* What a worker does with its upload.                                     *)

\* A worker whose upload the step leaves alone.
LEMMA JobKeeps ==
    ASSUME Typed, Handed, NEW w \in Workers, JobOK(w), worker'[w] = worker[w],
           worker[w].pc \notin {"idle", "reporting"} =>
              /\ worker[w].upload \in done' <=> worker[w].upload \in done
              /\ worker[w].upload \in failed' <=> worker[w].upload \in failed
              /\ \A b \in ToSet(BlocksOf[worker[w].upload]) : block'[b] = block[b]
    PROVE  JobOK(w)'
<1>1. PICK j \in Job : j = worker[w] /\ j = worker'[w]
    BY DEF Typed
<1>2. CASE j.pc \in {"idle", "reporting"}
    BY <1>1, <1>2 DEF JobOK
<1>3. CASE j.pc = "preparing"
    BY <1>1, <1>3 DEF JobOK
<1>4. CASE j.pc \in {"finding", "queueing", "waiting", "settling"}
  <2>1. ToSet(j.pending) \subseteq ToSet(BlocksOf[j.upload])
    BY <1>1, <1>4 DEF JobOK, Rounds
  <2>2. \A b \in ToSet(j.pending) : block'[b] = block[b]
    BY <1>1, <1>4, <2>1
  <2>3. \A i \in DOMAIN j.pending : j.pending[i] \in ToSet(j.pending)
    BY DEF ToSet
  <2>4. Rounds(w)'
    BY <1>1, <1>4 DEF JobOK, Rounds
  <2>5. \A b \in ToSet(j.pending) : /\ WellPlaced(w, b) => WellPlaced(w, b)'
                                    /\ Sent(b) => Sent(b)'
    BY <1>1, <2>2 DEF WellPlaced, Open, Sent
  <2> QED  BY <1>1, <1>4, <2>2, <2>3, <2>4, <2>5 DEF JobOK
<1> QED
    BY <1>1, <1>2, <1>3, <1>4 DEF Job

\* The jobs of the others, when a worker does something to its upload.
LEMMA OtherJobs ==
    ASSUME Typed, Handed, Jobs, NEW w \in Workers, worker[w].pc # "idle", SameJobs(w),
           failed' = failed \/ failed' = failed \cup {worker[w].upload},
           done' = done \/ done' = done \cup {worker[w].upload},
           SameBlocks(ToSet(BlocksOf[worker[w].upload])), JobOK(w)'
    PROVE  Jobs'
<1>1. ASSUME NEW v \in Workers, v # w  PROVE JobOK(v)'
  <2>1. worker[w].upload \in Uploads
    BY DEF Handed
  <2>2. CASE worker[v].pc = "idle"
    BY <1>1, <2>2, JobKeeps DEF SameJobs, Jobs
  <2>3. CASE worker[v].pc # "idle"
    <3>1. worker[v].upload \in Uploads /\ worker[v].upload # worker[w].upload
      BY <1>1, <2>1, <2>3 DEF Handed, Has
    <3>2. \A b \in ToSet(BlocksOf[worker[v].upload]) :
              b \in Blocks \ ToSet(BlocksOf[worker[w].upload])
      BY <2>1, <3>1, BlockLists
    <3>3. \A b \in ToSet(BlocksOf[worker[v].upload]) : block'[b] = block[b]
      BY <3>2 DEF SameBlocks
    <3>4. worker'[v] = worker[v] /\ JobOK(v)
      BY <1>1 DEF SameJobs, Jobs
    <3> QED  BY <3>1, <3>3, <3>4, JobKeeps
  <2> QED  BY <2>2, <2>3
<1> QED
    BY <1>1 DEF Jobs

\* An upload that is handed over is one nobody has done anything with.
LEMMA JobsHand ==
    ASSUME Typed, Handed, Jobs, NEW w \in Workers, Hand(w)
    PROVE  Jobs'
<1>1. /\ worker[w].pc = "idle" /\ worker'[w].pc = "preparing" /\ SameJobs(w)
      /\ worker'[w].upload = thread.upload /\ thread.pc = "handing"
      /\ worker'[w].toReturn = worker[w].toReturn
    BY HandOn
<1>2. UNCHANGED <<failed, done, block>>
    BY DEF Hand, HandUpTo
<1>3. Untouched(thread.upload)
    BY <1>1 DEF Handed
<1>4. worker'[w].toReturn = <<>>
    BY <1>1 DEF Jobs, JobOK
<1>5. DOMAIN worker'[w].toReturn = {}
    BY <1>4
<1>6. JobOK(w)'
    BY <1>1, <1>2, <1>3, <1>4, <1>5 DEF JobOK, Untouched
<1>7. ASSUME NEW v \in Workers, v # w  PROVE JobOK(v)'
    BY <1>1, <1>2, <1>7, JobKeeps DEF SameJobs, Jobs
<1> QED
    BY <1>6, <1>7 DEF Jobs

\* The first round has every block, and none is placed.
LEMMA JobsPrepare ==
    ASSUME Typed, Handed, Jobs, NEW w \in Workers, PrepareUpload(w)
    PROVE  Jobs'
<1>1. PICK j \in Job, k \in Job : j = worker[w] /\ k = worker'[w]
    BY PrepareOn DEF Typed
<1>2. /\ j.pc = "preparing" /\ k.upload = j.upload /\ k.toReturn = j.toReturn /\ SameJobs(w)
      /\ j.upload \in Uploads
      /\ \/ k.pc = "finding" /\ k.pending = BlocksOf[j.upload] /\ failed' = failed
         \/ k.pc = "reporting" /\ failed' = failed \cup {j.upload}
    BY <1>1, PrepareOn
<1>3. UNCHANGED <<done, block>>
    BY DEF PrepareUpload
<1>4. /\ j.upload \notin done /\ j.upload \notin failed /\ j.toReturn = <<>>
      /\ \A b \in ToSet(BlocksOf[j.upload]) : block[b] = Unplaced
    BY <1>1, <1>2 DEF Jobs, JobOK
<1>5. DOMAIN k.toReturn = {}
    BY <1>2, <1>4
<1>6. ASSUME k.pc = "finding" /\ k.pending = BlocksOf[j.upload] /\ failed' = failed
      PROVE  JobOK(w)'
  <2>1. IsInjective(k.pending) /\ k.pending # <<>>
    BY <1>2, <1>6, BlockLists
  <2>2. Rounds(w)'
    BY <1>1, <1>2, <1>6, <2>1 DEF Rounds
  <2> QED  BY <1>1, <1>2, <1>3, <1>4, <1>5, <1>6, <2>1, <2>2 DEF JobOK
<1>7. ASSUME k.pc = "reporting" /\ failed' = failed \cup {j.upload}
      PROVE  JobOK(w)'
    BY <1>1, <1>2, <1>4, <1>5, <1>7 DEF JobOK
<1>8. JobOK(w)'
    BY <1>2, <1>6, <1>7
<1>9. worker[w].pc # "idle" /\ (failed' = failed \/ failed' = failed \cup {worker[w].upload})
    BY <1>1, <1>2
<1> QED
    BY <1>2, <1>3, <1>8, <1>9, OtherJobs DEF SameBlocks

\* The places that are found are with providers the upload does not avoid.
LEMMA JobsFind ==
    ASSUME Typed, Handed, Jobs, NEW w \in Workers, FindStorage(w)
    PROVE  Jobs'
<1>1. PICK j \in Job, k \in Job : j = worker[w] /\ k = worker'[w]
    BY FindOn DEF Typed
<1>2. /\ j.pc = "finding" /\ k.upload = j.upload /\ k.pending = j.pending
      /\ k.offline = j.offline /\ k.toReturn = j.toReturn /\ SameJobs(w)
      /\ \/ /\ k.pc = "queueing" /\ k.next = 1 /\ failed' = failed
            /\ SameBlocks(ToSet(j.pending))
            /\ \A b \in ToSet(j.pending) : /\ block'[b].stage = "placed"
                                           /\ block'[b].contract \in Open(w)
         \/ /\ k.pc = "settling" /\ failed' = failed \cup {j.upload}
            /\ block' = block
    BY <1>1, FindOn
<1>3. UNCHANGED done
    BY DEF FindStorage
<1>4. /\ j.upload \in Uploads /\ j.upload \notin done /\ j.upload \notin failed
      /\ Rounds(w) /\ j.pending # <<>>
      /\ \A b \in ToSet(j.pending) : block[b] = Unplaced
      /\ \A i \in DOMAIN j.toReturn : ProviderOf[j.toReturn[i]] \in j.offline
    BY <1>1, <1>2 DEF Jobs, JobOK, Handed
<1>5. ToSet(j.pending) \subseteq ToSet(BlocksOf[j.upload]) /\ ToSet(BlocksOf[j.upload]) \subseteq Blocks
    BY <1>1, <1>4, BlockLists DEF Rounds
<1>6. ASSUME /\ k.pc = "queueing" /\ k.next = 1 /\ failed' = failed
             /\ SameBlocks(ToSet(j.pending))
             /\ \A b \in ToSet(j.pending) : /\ block'[b].stage = "placed"
                                            /\ block'[b].contract \in Open(w)
      PROVE  JobOK(w)'
  <2>1. \A b \in ToSet(BlocksOf[j.upload]) \ ToSet(j.pending) : block'[b] = block[b]
    BY <1>5, <1>6 DEF SameBlocks
  <2>2. Rounds(w)'
    BY <1>1, <1>2, <1>4, <2>1 DEF Rounds
  <2>3. \A b \in ToSet(j.pending) : WellPlaced(w, b)'
    BY <1>1, <1>2, <1>6 DEF WellPlaced, Open
  <2>4. 1 \in DOMAIN j.pending /\ \A i \in DOMAIN j.pending : ~(i < 1)
    BY <1>4 DEF Job
  <2>5. \A i \in DOMAIN j.pending : block'[j.pending[i]].stage = "placed"
    BY <1>6 DEF ToSet
  <2> QED  BY <1>1, <1>2, <1>3, <1>4, <1>6, <2>2, <2>3, <2>4, <2>5 DEF JobOK
<1>7. ASSUME k.pc = "settling" /\ failed' = failed \cup {j.upload} /\ block' = block
      PROVE  JobOK(w)'
  <2>1. Rounds(w)'
    BY <1>1, <1>2, <1>4, <1>7 DEF Rounds
  <2> QED  BY <1>1, <1>2, <1>3, <1>4, <1>7, <2>1 DEF JobOK
<1>8. JobOK(w)'
    BY <1>2, <1>6, <1>7
<1>9. /\ worker[w].pc # "idle" /\ (failed' = failed \/ failed' = failed \cup {worker[w].upload})
      /\ SameBlocks(ToSet(BlocksOf[worker[w].upload]))
    BY <1>1, <1>2, <1>5 DEF SameBlocks
<1> QED
    BY <1>2, <1>3, <1>8, <1>9, OtherJobs

\* The blocks of the round are sent in their order.
LEMMA JobsQueue ==
    ASSUME Typed, Handed, Jobs, NEW w \in Workers, Queue(w)
    PROVE  Jobs'
<1>1. PICK j \in Job, k \in Job : j = worker[w] /\ k = worker'[w]
    BY QueueOn DEF Typed
<1>2. PICK b \in Blocks : b = j.pending[j.next]
    BY <1>1, QueueOn
<1>3. /\ j.pc = "queueing" /\ j.next \in DOMAIN j.pending /\ SameJobs(w)
      /\ k.upload = j.upload /\ k.pending = j.pending /\ k.offline = j.offline
      /\ k.toReturn = j.toReturn /\ k.next = j.next + 1
      /\ k.pc = IF j.next = Len(j.pending) THEN "waiting" ELSE "queueing"
      /\ b \in ToSet(j.pending) /\ SameBlocks({b})
      /\ block'[b].stage = "scheduled" /\ block'[b].contract = block[b].contract
    BY <1>1, <1>2, QueueOn
<1>4. UNCHANGED <<failed, done>>
    BY DEF Queue
<1>5. /\ j.upload \in Uploads /\ j.upload \notin done /\ j.upload \notin failed /\ Rounds(w)
      /\ \A i \in DOMAIN j.toReturn : ProviderOf[j.toReturn[i]] \in j.offline
      /\ \A c \in ToSet(j.pending) : WellPlaced(w, c)
      /\ \A i \in DOMAIN j.pending : IF i < j.next THEN Sent(j.pending[i])
                                     ELSE block[j.pending[i]].stage = "placed"
    BY <1>1, <1>3 DEF Jobs, JobOK, Handed
<1>6. /\ ToSet(j.pending) \subseteq ToSet(BlocksOf[j.upload])
      /\ ToSet(BlocksOf[j.upload]) \subseteq Blocks /\ IsInjective(j.pending)
    BY <1>1, <1>5, BlockLists DEF Rounds
<1>7. \A c \in ToSet(BlocksOf[j.upload]) \ {b} : block'[c] = block[c]
    BY <1>3, <1>6 DEF SameBlocks
<1>8. Rounds(w)'
    BY <1>1, <1>3, <1>5, <1>7 DEF Rounds
<1>9. \A c \in ToSet(j.pending) : block'[c].contract = block[c].contract
    BY <1>3, <1>6, <1>7
<1>10. \A c \in ToSet(j.pending) : WellPlaced(w, c)'
    BY <1>1, <1>3, <1>5, <1>9 DEF WellPlaced, Open
<1>11. PICK n \in Nat \ {0}, l \in Nat : n = j.next /\ l = Len(j.pending) /\ DOMAIN j.pending = 1..l
    BY DEF Job
<1>12. Sent(b)'
    BY <1>3 DEF Sent
<1>13. ASSUME NEW i \in 1..l
       PROVE  IF i < n + 1 THEN Sent(j.pending[i])' ELSE block'[j.pending[i]].stage = "placed"
  <2>1. CASE i = n
    BY <1>2, <1>11, <1>12, <2>1 DEF Sent
  <2>2. CASE i # n
    <3>1. j.pending[i] # b /\ j.pending[i] \in ToSet(j.pending)
      BY <1>2, <1>3, <1>6, <1>11, <2>2 DEF IsInjective, ToSet
    <3>2. block'[j.pending[i]] = block[j.pending[i]]
      BY <1>6, <1>7, <3>1
    <3>3. i < n + 1 <=> i < n
      BY <2>2
    <3> QED  BY <1>5, <1>11, <3>2, <3>3 DEF Sent
  <2> QED  BY <2>1, <2>2
<1>14. ASSUME n = l
      PROVE  JobOK(w)'
  <2>1. \A i \in 1..l : i < n + 1
    BY <1>14
  <2>2. \A c \in ToSet(j.pending) : Sent(c)'
    BY <1>11, <1>13, <2>1 DEF ToSet, Sent
  <2>3. k.pc = "waiting"
    BY <1>3, <1>11, <1>14
  <2> QED  BY <1>1, <1>3, <1>4, <1>5, <1>8, <1>10, <2>2, <2>3 DEF JobOK
<1>15. ASSUME n # l
      PROVE  JobOK(w)'
  <2>1. n + 1 \in DOMAIN j.pending
    BY <1>3, <1>11, <1>15
  <2>2. k.pc = "queueing" /\ k.next = n + 1
    BY <1>3, <1>11, <1>15
  <2>3. \A i \in DOMAIN j.pending :
          IF i < n + 1 THEN Sent(j.pending[i])' ELSE block'[j.pending[i]].stage = "placed"
    BY <1>11, <1>13
  <2>4. JobOK(w)'
    BY <1>1, <1>3, <1>4, <1>5, <1>8, <1>10, <2>1, <2>2, <2>3 DEF JobOK, Sent
  <2> QED  BY <2>4
<1>16. worker[w].pc # "idle" /\ SameBlocks(ToSet(BlocksOf[worker[w].upload]))
    BY <1>1, <1>3, <1>6 DEF SameBlocks
<1> QED
    BY <1>3, <1>4, <1>14, <1>15, <1>16, OtherJobs

\* The failures are the next round, and their storage is to be returned.
LEMMA JobsCollect ==
    ASSUME Typed, Handed, Jobs, Placed, NEW w \in Workers, Collect(w)
    PROVE  Jobs'
<1>1. PICK j \in Job, k \in Job : j = worker[w] /\ k = worker'[w]
    BY CollectOn DEF Typed
<1>2. PICK f \in Seq(Blocks) : f = Failures(w)
    BY CollectOn
<1>3. PICK back \in Seq(Contracts) : back = [i \in DOMAIN f |-> block[f[i]].contract]
    BY <1>2, CollectOn
<1>4. /\ SameJobs(w) /\ ToSet(f) = {b \in ToSet(j.pending) : block[b].stage = "bad"}
      /\ IsInjective(j.pending) => IsInjective(f)
      /\ j.pc = "waiting" /\ \A b \in ToSet(j.pending) : block[b].stage \in {"ok", "bad"}
      /\ k.upload = j.upload /\ k.pending = f
      /\ k.offline = j.offline \cup {Provider(b) : b \in ToSet(f)}
      /\ k.toReturn = j.toReturn \o back
      /\ k.pc = IF f = <<>> THEN "settling" ELSE "finding"
      /\ SameBlocks(ToSet(f)) /\ \A b \in ToSet(f) : block'[b] = Unplaced
    BY <1>1, <1>2, <1>3, CollectOn
<1>5. UNCHANGED <<failed, done>>
    BY DEF Collect, CollectAvoiding
<1>6. /\ j.upload \in Uploads /\ j.upload \notin done /\ j.upload \notin failed /\ Rounds(w)
      /\ \A i \in DOMAIN j.toReturn : ProviderOf[j.toReturn[i]] \in j.offline
    BY <1>1, <1>4 DEF Jobs, JobOK, Handed
<1>7. /\ ToSet(j.pending) \subseteq ToSet(BlocksOf[j.upload])
      /\ ToSet(BlocksOf[j.upload]) \subseteq Blocks /\ IsInjective(j.pending)
      /\ \A b \in ToSet(BlocksOf[j.upload]) \ ToSet(j.pending) : block[b].stage = "ok"
    BY <1>1, <1>6, BlockLists DEF Rounds
<1>8. ASSUME NEW b \in ToSet(BlocksOf[j.upload]) \ ToSet(f)  PROVE block'[b].stage = "ok"
  <2>1. block[b].stage = "ok" /\ block'[b] = block[b]
    BY <1>4, <1>7 DEF SameBlocks
  <2> QED  BY <2>1
<1>9. IsInjective(f) /\ ToSet(f) \subseteq ToSet(BlocksOf[j.upload])
    BY <1>4, <1>7
<1>10. Rounds(w)'
    BY <1>1, <1>4, <1>8, <1>9 DEF Rounds
<1>11. ASSUME NEW i \in DOMAIN k.toReturn  PROVE ProviderOf[k.toReturn[i]] \in k.offline
  <2>1. /\ j.toReturn \in Seq(Contracts) /\ DOMAIN back = DOMAIN f
        /\ DOMAIN j.toReturn = 1..Len(j.toReturn) /\ DOMAIN back = 1..Len(back)
        /\ Len(j.toReturn) \in Nat /\ Len(back) \in Nat
    BY <1>3 DEF Job
  <2>2. i \in 1..(Len(j.toReturn) + Len(back))
    BY <1>4, <2>1
  <2>3. k.toReturn[i] = IF i <= Len(j.toReturn) THEN j.toReturn[i] ELSE back[i - Len(j.toReturn)]
    BY <1>4, <2>1, <2>2, ConcatProperties
  <2>4. CASE i <= Len(j.toReturn)
    BY <1>4, <1>6, <2>1, <2>2, <2>3, <2>4
  <2>5. CASE ~(i <= Len(j.toReturn))
    <3>1. i - Len(j.toReturn) \in DOMAIN f
      BY <2>1, <2>2, <2>5
    <3>2. PICK b \in ToSet(f) : b = f[i - Len(j.toReturn)]
      BY <3>1 DEF ToSet
    <3>3. k.toReturn[i] = block[b].contract
      BY <1>3, <2>3, <2>5, <3>1, <3>2
    <3> QED  BY <1>4, <3>3 DEF Provider
  <2> QED  BY <2>4, <2>5
<1>12. JobOK(w)'
    BY <1>1, <1>4, <1>5, <1>6, <1>10, <1>11 DEF JobOK
<1>13. worker[w].pc # "idle" /\ SameBlocks(ToSet(BlocksOf[worker[w].upload]))
    BY <1>1, <1>4, <1>9 DEF SameBlocks
<1> QED
    BY <1>4, <1>5, <1>12, <1>13, OtherJobs

\* Nothing more is done with the upload.
LEMMA JobsSettle ==
    ASSUME Typed, Handed, Jobs, Placed, NEW w \in Workers, Settle(w)
    PROVE  Jobs'
<1>1. PICK j \in Job, k \in Job : j = worker[w] /\ k = worker'[w]
    BY SettleOn DEF Typed
<1>2. /\ SameJobs(w) /\ j.pc = "settling" /\ k.pc = "reporting" /\ k.toReturn = <<>>
      /\ done' = done \cup {j.upload} /\ j.upload \in Uploads
      /\ GivenUp(w) \subseteq ToSet(BlocksOf[j.upload]) /\ SameBlocks(GivenUp(w))
    BY <1>1, SettleOn
<1>3. UNCHANGED failed
    BY DEF Settle, SettleReturning
<1>4. DOMAIN k.toReturn = {}
    BY <1>2
<1>5. JobOK(w)'
    BY <1>1, <1>2, <1>4 DEF JobOK
<1>6. /\ worker[w].pc # "idle" /\ SameBlocks(ToSet(BlocksOf[worker[w].upload]))
      /\ done' = done \cup {worker[w].upload}
    BY <1>1, <1>2 DEF SameBlocks
<1> QED
    BY <1>2, <1>3, <1>5, <1>6, OtherJobs

\* A block moves on; its worker waits for it.
LEMMA JobsBlock ==
    ASSUME Typed, Handed, Jobs, NEW b \in Blocks, SameBlocks({b}),
           block[b].stage \in {"scheduled", "sending"}, Sent(b)',
           block'[b].contract = block[b].contract,
           UNCHANGED <<worker, failed, done>>
    PROVE  Jobs'
<1>1. ASSUME NEW w \in Workers  PROVE JobOK(w)'
  <2>1. PICK j \in Job : j = worker[w] /\ j = worker'[w]
    BY DEF Typed
  <2>2. JobOK(w)
    BY DEF Jobs
  <2>3. CASE j.pc \in {"idle", "reporting"} \/ b \notin ToSet(BlocksOf[j.upload])
    <3>1. j.pc \notin {"idle", "reporting"} => ToSet(BlocksOf[j.upload]) \subseteq Blocks
      BY <2>1, BlockLists DEF Handed
    <3> QED  BY <2>1, <2>2, <2>3, <3>1, JobKeeps DEF SameBlocks
  <2>4. CASE j.pc \notin {"idle", "reporting"} /\ b \in ToSet(BlocksOf[j.upload])
    <3>1. block[b] # Unplaced /\ block[b].stage # "ok" /\ block[b].stage # "placed"
      BY DEF Unplaced
    <3>2. j.pc # "preparing"
      BY <2>1, <2>2, <2>4, <3>1 DEF JobOK
    <3>3. j.pc \in {"finding", "queueing", "waiting", "settling"} /\ Rounds(w)
      BY <2>1, <2>2, <2>4, <3>2 DEF JobOK, Job
    <3>4. b \in ToSet(j.pending)
      BY <2>1, <2>4, <3>1, <3>3 DEF Rounds
    <3>5. j.pc \in {"queueing", "waiting"}
      BY <2>1, <2>2, <3>1, <3>3, <3>4 DEF JobOK
    <3>6. /\ ToSet(j.pending) \subseteq ToSet(BlocksOf[j.upload])
          /\ ToSet(BlocksOf[j.upload]) \subseteq Blocks
      BY <2>1, <3>3, <3>5, BlockLists DEF Rounds, Handed
    <3>7. \A c \in ToSet(BlocksOf[j.upload]) \ {b} : block'[c] = block[c]
      BY <3>6 DEF SameBlocks
    <3>8. Rounds(w)'
      BY <2>1, <3>3, <3>4, <3>7 DEF Rounds
    <3>9. \A c \in ToSet(j.pending) : block'[c].contract = block[c].contract
      BY <3>6, <3>7
    <3>10. \A c \in ToSet(j.pending) : WellPlaced(w, c)'
      BY <2>1, <2>2, <3>5, <3>9 DEF JobOK, WellPlaced, Open
    <3>11. \A c \in ToSet(j.pending) : Sent(c) => Sent(c)'
      BY <3>6, <3>7 DEF Sent
    <3>12. ASSUME j.pc = "queueing", NEW i \in DOMAIN j.pending
           PROVE  IF i < j.next THEN Sent(j.pending[i])'
                  ELSE block'[j.pending[i]].stage = "placed"
      <4>1. PICK c \in ToSet(j.pending) : c = j.pending[i]
        BY DEF ToSet
      <4>2. CASE i < j.next
        <5>1. Sent(c)
          BY <2>1, <2>2, <3>12, <4>1, <4>2 DEF JobOK
        <5>2. Sent(c)'
          BY <3>11, <5>1
        <5> QED  BY <4>1, <4>2, <5>2 DEF Sent
      <4>3. CASE ~(i < j.next)
        <5>1. block[c].stage = "placed"
          BY <2>1, <2>2, <3>12, <4>1, <4>3 DEF JobOK
        <5>2. c # b
          BY <3>1, <5>1
        <5> QED  BY <3>6, <3>7, <4>1, <4>3, <5>1, <5>2
      <4> QED  BY <4>2, <4>3
    <3>13. j.pc = "waiting" => \A c \in ToSet(j.pending) : Sent(c)'
      BY <2>1, <2>2, <3>11 DEF JobOK
    <3>14. CASE j.pc = "queueing"
      BY <2>1, <2>2, <3>8, <3>10, <3>12, <3>14 DEF JobOK, Sent
    <3>15. CASE j.pc = "waiting"
      BY <2>1, <2>2, <3>8, <3>10, <3>13, <3>15 DEF JobOK
    <3> QED  BY <3>5, <3>14, <3>15
  <2> QED  BY <2>3, <2>4
<1> QED
    BY <1>1 DEF Jobs

\* A block of a request that undoes is of no worker's upload.
LEMMA JobsRemove ==
    ASSUME Typed, Handed, Jobs, Placed, Asked, NEW q \in Requests, RemoveBlock(q)
    PROVE  Jobs'
<1>1. PICK b \in Blocks : /\ b \in ToSet(request[q].todo) /\ SameBlocks({b})
                          /\ request[q].pc = "undoing"
    BY RemoveOn
<1>2. UNCHANGED <<worker, failed, done>>
    BY DEF RemoveBlock
<1>3. Owner(b) \in done
    BY <1>1 DEF Asked, Undoes
<1>4. ASSUME NEW w \in Workers  PROVE JobOK(w)'
  <2>1. ASSUME worker[w].pc \notin {"idle", "reporting"}
        PROVE  \A c \in ToSet(BlocksOf[worker[w].upload]) : block'[c] = block[c]
    <3>1. worker[w].upload \in Uploads /\ worker[w].upload \notin done
      BY <2>1 DEF Handed, Jobs, JobOK
    <3>2. \A c \in ToSet(BlocksOf[worker[w].upload]) : c \in Blocks \ {b}
      BY <1>3, <3>1, BlockLists
    <3> QED  BY <1>1, <3>2 DEF SameBlocks
  <2> QED  BY <1>2, <2>1, JobKeeps DEF Jobs
<1> QED
    BY <1>4 DEF Jobs

\* Every step keeps it.
LEMMA JobsStep ==
    ASSUME Typed, Handed, Jobs, Placed, Asked, [Next]_vars
    PROVE  Jobs'
<1>1. ASSUME NEW w \in Workers, Finish(w)  PROVE Jobs'
  <2>1. worker'[w] = IdleWorker /\ SameJobs(w) /\ UNCHANGED <<failed, done, block>>
    BY <1>1, FinishOn DEF Finish, FinishWith
  <2>2. JobOK(w)'
    <3>1. DOMAIN IdleWorker.toReturn = {}
      BY DEF IdleWorker
    <3> QED  BY <2>1, <3>1 DEF JobOK, IdleWorker
  <2>3. ASSUME NEW v \in Workers, v # w  PROVE JobOK(v)'
    BY <2>1, <2>3, JobKeeps DEF SameJobs, Jobs
  <2> QED  BY <2>2, <2>3 DEF Jobs
<1>2. ASSUME UNCHANGED <<worker, failed, done, block>>  PROVE Jobs'
    BY <1>2, JobKeeps DEF Jobs
<1>3. CASE Forward
    BY <1>3, ForwardOn, JobsBlock DEF Forward, Sent
<1>4. ASSUME NEW p \in Providers, NEW b \in Blocks, PutBlock(p, b)  PROVE Jobs'
  <2>1. /\ block[b].stage = "sending" /\ SameBlocks({b})
        /\ block'[b].stage \in {"ok", "bad"} /\ block'[b].contract = block[b].contract
    BY <1>4, PutOn
  <2>2. UNCHANGED <<worker, failed, done>>
    BY <1>4 DEF PutBlock
  <2>3. Sent(b)'
    BY <2>1 DEF Sent
  <2> QED  BY <2>1, <2>2, <2>3, JobsBlock
<1>5. CASE UploadThread
    BY <1>1, <1>2, <1>5, JobsHand DEF UploadThread, Accept, PollNothing, ResetProviderConns
<1>6. CASE Dial \/ \E p \in Providers : AuthorizeRenter(p)
    BY <1>2, <1>6 DEF Dial, AuthorizeRenter
<1>7. ASSUME NEW q \in Requests, Upload(q) \/ RequestThread(q)  PROVE Jobs'
    BY <1>2, <1>7, JobsRemove DEF Upload, RequestThread, AwaitUploads, MakeNewFile, SaveFile,
       ReturnError
<1>8. CASE UNCHANGED vars
    BY <1>2, <1>8 DEF vars
<1> QED
    BY <1>3, <1>4, <1>5, <1>6, <1>7, <1>8, JobsPrepare, JobsFind, JobsQueue, JobsCollect,
       JobsSettle
    DEF Next, FileUploadWorker, BlockUploadScheduleThread, BlockUploadThread

-----------------------------------------------------------------------------
(* Where the blocks are.                                                   *)

\* A block the step leaves alone.
LEMMA PlacedKeeps ==
    ASSUME NEW b \in Blocks, PlacedOK(b), block'[b] = block[b],
           sched' = b <=> sched = b,
           <<b, Provider(b)>> \in stored <=> <<b, Provider(b)>> \in stored',
           block[b].stage \in {"placed", "scheduled", "sending", "bad"} /\ Expected(b) => Expected(b)'
    PROVE  PlacedOK(b)'
BY DEF PlacedOK, Provider

\* A worker that takes no part in a round changes nothing for the blocks.
LEMMA ExpectedStays ==
    ASSUME NEW w \in Workers, worker[w].pc \notin {"queueing", "waiting"}, SameJobs(w), NEW b
    PROVE  Expected(b) => Expected(b)'
BY DEF Expected, SameJobs

\* Every step of a worker.
LEMMA PlacedWorker ==
    ASSUME Typed, Handed, Jobs, Placed, NEW w \in Workers, FileUploadWorker(w)
    PROVE  Placed'
<1>1. CASE PrepareUpload(w)
  <2>1. worker[w].pc = "preparing" /\ SameJobs(w) /\ UNCHANGED <<block, sched, stored>>
    BY <1>1, PrepareOn DEF PrepareUpload
  <2>2. \A b \in Blocks : Expected(b) => Expected(b)'
    BY <2>1, ExpectedStays
  <2> QED  BY <2>1, <2>2, PlacedKeeps DEF Placed
<1>2. CASE FindStorage(w)
  <2>1. PICK j \in Job, k \in Job : j = worker[w] /\ k = worker'[w]
    BY <1>2, FindOn DEF Typed
  <2>2. /\ j.pc = "finding" /\ k.pending = j.pending /\ SameJobs(w)
        /\ \/ /\ k.pc = "queueing" /\ SameBlocks(ToSet(j.pending))
              /\ \A b \in ToSet(j.pending) : /\ block'[b].stage = "placed"
                                             /\ block'[b].contract \in Open(w)
           \/ block' = block
    BY <1>2, <2>1, FindOn
  <2>3. UNCHANGED <<sched, stored>>
    BY <1>2 DEF FindStorage
  <2>4. \A b \in Blocks : Expected(b) => Expected(b)'
    BY <2>1, <2>2, ExpectedStays
  <2>5. ASSUME NEW b \in Blocks, block'[b] = block[b]  PROVE PlacedOK(b)'
    BY <2>3, <2>4, <2>5, PlacedKeeps DEF Placed
  <2>6. ASSUME NEW b \in Blocks, b \in ToSet(j.pending), k.pc = "queueing",
               block'[b].stage = "placed", block'[b].contract \in Open(w)
        PROVE  PlacedOK(b)'
    <3>1. block[b] = Unplaced
      BY <2>1, <2>2, <2>6 DEF Jobs, JobOK
    <3>5. block[b].stage = "none"
      BY <3>1 DEF Unplaced
    <3>2. sched # b
      BY <3>5 DEF Placed, PlacedOK
    <3>3. Expected(b)'
      BY <2>1, <2>2, <2>6 DEF Expected
    <3>4. block'[b].contract # NoContract
      BY <2>6, UploadAssumption DEF Open
    <3> QED  BY <2>3, <2>6, <3>2, <3>3, <3>4 DEF PlacedOK
  <2> QED  BY <2>2, <2>5, <2>6 DEF Placed, SameBlocks
<1>3. CASE Queue(w)
  <2>1. PICK j \in Job, k \in Job : j = worker[w] /\ k = worker'[w]
    BY <1>3, QueueOn DEF Typed
  <2>2. PICK b \in Blocks : b = j.pending[j.next]
    BY <1>3, <2>1, QueueOn
  <2>3. /\ j.pc = "queueing" /\ SameJobs(w) /\ k.pending = j.pending
        /\ k.pc \in {"queueing", "waiting"}
        /\ b \in ToSet(j.pending) /\ SameBlocks({b}) /\ sched = NoBlock /\ sched' = b
        /\ block'[b].stage = "scheduled" /\ block'[b].contract = block[b].contract
    BY <1>3, <2>1, <2>2, QueueOn
  <2>4. UNCHANGED stored
    BY <1>3 DEF Queue
  <2>5. \A c \in Blocks : Expected(c) => Expected(c)'
    BY <2>1, <2>3 DEF Expected, SameJobs
  <2>6. ASSUME NEW c \in Blocks, c # b  PROVE PlacedOK(c)'
    <3>1. block'[c] = block[c] /\ sched # c /\ sched' # c
      BY <2>3, <2>6, UploadAssumption DEF SameBlocks
    <3> QED  BY <2>4, <2>5, <3>1, PlacedKeeps DEF Placed
  <2>7. PlacedOK(b)'
    <3>1. Expected(b)'
      BY <2>1, <2>3 DEF Expected
    <3>4. /\ j.next \in DOMAIN j.pending
          /\ \A i \in DOMAIN j.pending :
                IF i < j.next THEN Sent(j.pending[i])
                ELSE block[j.pending[i]].stage = "placed"
      BY <2>1, <2>3 DEF Jobs, JobOK
    <3>5. j.next \in Nat /\ ~(j.next < j.next)
      BY <2>1 DEF Job
    <3>2. block[b].stage = "placed"
      BY <2>2, <3>4, <3>5
    <3>3. block[b].contract # NoContract
      BY <3>2 DEF Placed, PlacedOK
    <3> QED  BY <2>3, <3>1, <3>3 DEF PlacedOK
  <2> QED  BY <2>6, <2>7 DEF Placed
<1>4. CASE Collect(w)
  <2>1. PICK j \in Job, k \in Job : j = worker[w] /\ k = worker'[w]
    BY <1>4, CollectOn DEF Typed
  <2>2. PICK f \in Seq(Blocks) : f = Failures(w)
    BY <1>4, CollectOn
  <2>3. /\ SameJobs(w) /\ ToSet(f) = {b \in ToSet(j.pending) : block[b].stage = "bad"}
        /\ \A b \in ToSet(j.pending) : block[b].stage \in {"ok", "bad"}
        /\ SameBlocks(ToSet(f)) /\ \A b \in ToSet(f) : block'[b] = Unplaced
    BY <1>4, <2>1, <2>2, CollectOn
  <2>4. UNCHANGED <<sched, stored>>
    BY <1>4 DEF Collect, CollectAvoiding
  <2>5. ASSUME NEW b \in Blocks, b \notin ToSet(f)  PROVE PlacedOK(b)'
    <3>1. block[b].stage \in {"placed", "scheduled", "sending", "bad"} => b \notin ToSet(j.pending)
      BY <2>3, <2>5
    <3>2. block[b].stage \in {"placed", "scheduled", "sending", "bad"} /\ Expected(b) => Expected(b)'
      BY <2>1, <2>3, <3>1 DEF Expected, SameJobs
    <3>3. block'[b] = block[b]
      BY <2>3, <2>5 DEF SameBlocks
    <3> QED  BY <2>4, <3>2, <3>3, PlacedKeeps DEF Placed
  <2>6. ASSUME NEW b \in Blocks, b \in ToSet(f)  PROVE PlacedOK(b)'
    <3>1. block[b].stage = "bad" /\ block'[b] = Unplaced
      BY <2>3, <2>6
    <3>2. sched # b
      BY <3>1 DEF Placed, PlacedOK
    <3> QED  BY <2>4, <3>1, <3>2 DEF PlacedOK, Unplaced
  <2> QED  BY <2>5, <2>6 DEF Placed
<1>5. CASE Settle(w)
  <2>1. /\ worker[w].pc = "settling" /\ SameJobs(w) /\ SameBlocks(GivenUp(w))
        /\ \A b \in GivenUp(w) : /\ block[b].stage = "ok" /\ block'[b].stage = "abandoned"
                                 /\ block'[b].contract = block[b].contract
    BY <1>5, SettleOn
  <2>2. UNCHANGED <<sched, stored>>
    BY <1>5 DEF Settle, SettleReturning
  <2>3. \A b \in Blocks : Expected(b) => Expected(b)'
    BY <2>1, ExpectedStays
  <2>4. ASSUME NEW b \in Blocks, b \notin GivenUp(w)  PROVE PlacedOK(b)'
    <3>1. block'[b] = block[b]
      BY <2>1, <2>4 DEF SameBlocks
    <3> QED  BY <2>2, <2>3, <3>1, PlacedKeeps DEF Placed
  <2>5. ASSUME NEW b \in Blocks, b \in GivenUp(w)  PROVE PlacedOK(b)'
    BY <2>1, <2>2, <2>5 DEF Placed, PlacedOK
  <2> QED  BY <2>4, <2>5 DEF Placed
<1> QED
    BY <1>1, <1>2, <1>3, <1>4, <1>5 DEF FileUploadWorker

\* Every step keeps it.
LEMMA PlacedStep ==
    ASSUME Typed, Handed, Jobs, Placed, Asked, [Next]_vars
    PROVE  Placed'
<1>1. ASSUME UNCHANGED <<block, sched, stored>>, \A b \in Blocks : Expected(b) => Expected(b)'
      PROVE  Placed'
    BY <1>1, PlacedKeeps DEF Placed
<1>2. ASSUME UNCHANGED <<block, sched, stored, worker>>  PROVE Placed'
    BY <1>1, <1>2 DEF Expected
<1>3. ASSUME NEW w \in Workers, Hand(w) \/ Finish(w)  PROVE Placed'
  <2>1. worker[w].pc \in {"idle", "reporting"} /\ SameJobs(w)
    BY <1>3, HandOn, FinishOn
  <2>2. UNCHANGED <<block, sched, stored>>
    BY <1>3 DEF Hand, HandUpTo, Finish, FinishWith
  <2> QED  BY <1>1, <2>1, <2>2, ExpectedStays
<1>4. CASE UploadThread
    BY <1>2, <1>3, <1>4 DEF UploadThread, Accept, PollNothing, ResetProviderConns
<1>5. CASE Dial \/ \E p \in Providers : AuthorizeRenter(p)
    BY <1>2, <1>5 DEF Dial, AuthorizeRenter
<1>6. CASE Forward
  <2>1. PICK b \in Blocks : b = sched
    BY <1>6, ForwardOn
  <2>2. /\ block[b].stage = "scheduled" /\ sched' = NoBlock /\ SameBlocks({b})
        /\ block'[b].stage = "sending" /\ block'[b].contract = block[b].contract
    BY <1>6, <2>1, ForwardOn
  <2>3. UNCHANGED <<stored, worker>>
    BY <1>6 DEF Forward
  <2>4. \A c \in Blocks : Expected(c) => Expected(c)'
    BY <2>3 DEF Expected
  <2>5. ASSUME NEW c \in Blocks, c # b  PROVE PlacedOK(c)'
    <3>1. block'[c] = block[c] /\ sched # c /\ sched' # c
      BY <2>1, <2>2, <2>5, UploadAssumption DEF SameBlocks
    <3> QED  BY <2>3, <2>4, <3>1, PlacedKeeps DEF Placed
  <2>6. PlacedOK(b)'
    <3>1. block[b].contract # NoContract /\ Expected(b) /\ NoBlock # b
      BY <2>2, UploadAssumption DEF Placed, PlacedOK
    <3> QED  BY <2>2, <2>4, <3>1 DEF PlacedOK
  <2> QED  BY <2>5, <2>6 DEF Placed
<1>7. ASSUME NEW p \in Providers, NEW b \in Blocks, PutBlock(p, b)  PROVE Placed'
  <2>1. /\ block[b].stage = "sending" /\ SameBlocks({b})
        /\ block'[b].stage \in {"ok", "bad"} /\ block'[b].contract = block[b].contract
        /\ stored \subseteq stored' /\ \A x \in stored' : x[1] # b => x \in stored
        /\ block'[b].stage = "ok" => <<b, ProviderOf[block[b].contract]>> \in stored'
    BY <1>7, PutOn
  <2>2. UNCHANGED <<sched, worker>>
    BY <1>7 DEF PutBlock
  <2>3. \A c \in Blocks : Expected(c) => Expected(c)'
    BY <2>2 DEF Expected
  <2>4. ASSUME NEW c \in Blocks, c # b  PROVE PlacedOK(c)'
    <3>1. block'[c] = block[c]
      BY <2>1, <2>4 DEF SameBlocks
    <3>2. <<c, Provider(c)>>[1] = c
      OBVIOUS
    <3>3. <<c, Provider(c)>> \in stored <=> <<c, Provider(c)>> \in stored'
      BY <2>1, <2>4, <3>2
    <3> QED  BY <2>2, <2>3, <3>1, <3>3, PlacedKeeps DEF Placed
  <2>5. PlacedOK(b)'
    <3>1. block[b].contract # NoContract /\ Expected(b) /\ sched # b
      BY <2>1 DEF Placed, PlacedOK
    <3> QED  BY <2>1, <2>2, <2>3, <3>1 DEF PlacedOK, Provider
  <2> QED  BY <2>4, <2>5 DEF Placed
<1>8. ASSUME NEW q \in Requests, RemoveBlock(q)  PROVE Placed'
  <2>1. PICK b \in Blocks :
           /\ block[b].stage = "ok" /\ SameBlocks({b})
           /\ block'[b].stage \in {"removed", "stranded"}
           /\ block'[b].contract = block[b].contract
           /\ stored' \subseteq stored /\ \A x \in stored : x[1] # b => x \in stored'
           /\ block'[b].stage = "removed" => <<b, Provider(b)>> \notin stored'
    BY <1>8, RemoveOn
  <2>2. UNCHANGED <<sched, worker>>
    BY <1>8 DEF RemoveBlock
  <2>3. \A c \in Blocks : Expected(c) => Expected(c)'
    BY <2>2 DEF Expected
  <2>4. ASSUME NEW c \in Blocks, c # b  PROVE PlacedOK(c)'
    <3>1. block'[c] = block[c]
      BY <2>1, <2>4 DEF SameBlocks
    <3>2. <<c, Provider(c)>>[1] = c
      OBVIOUS
    <3>3. <<c, Provider(c)>> \in stored <=> <<c, Provider(c)>> \in stored'
      BY <2>1, <2>4, <3>2
    <3> QED  BY <2>2, <2>3, <3>1, <3>3, PlacedKeeps DEF Placed
  <2>5. PlacedOK(b)'
    <3>1. block[b].contract # NoContract /\ sched # b
      BY <2>1 DEF Placed, PlacedOK
    <3> QED  BY <2>1, <2>2, <3>1 DEF PlacedOK, Provider
  <2> QED  BY <2>4, <2>5 DEF Placed
<1>9. ASSUME NEW q \in Requests, Upload(q) \/ RequestThread(q)  PROVE Placed'
    BY <1>2, <1>8, <1>9 DEF Upload, RequestThread, AwaitUploads, MakeNewFile, SaveFile,
       ReturnError
<1>10. CASE UNCHANGED vars
    BY <1>2, <1>10 DEF vars
<1> QED
    BY <1>4, <1>5, <1>6, <1>7, <1>9, <1>10, PlacedWorker
    DEF Next, BlockUploadScheduleThread, BlockUploadThread

-----------------------------------------------------------------------------
(* What became of the blocks of an upload that is done.                    *)

\* A step leaves an upload that is done alone, but for the removal of blocks.
LEMMA EndedKeeps ==
    ASSUME NEW u \in Uploads, EndedOK(u), u \in failed' <=> u \in failed,
           \A b \in ToSet(BlocksOf[u]) : block'[b] = block[b]
    PROVE  EndedOK(u)'
BY DEF EndedOK

\* A worker works on uploads that are not done, until it settles one.
LEMMA WorkerOn ==
    ASSUME Typed, Handed, Jobs, Placed, NEW w \in Workers, FileUploadWorker(w)
    PROVE  LET u == worker[w].upload
           IN  /\ u \in Uploads /\ u \notin done /\ SameBlocks(ToSet(BlocksOf[u]))
               /\ failed' = failed \/ failed' = failed \cup {u}
               /\ done' = done \/ Settle(w)
               /\ UNCHANGED <<request, saved>>
<1>1. worker[w].pc \notin {"idle", "reporting"} /\ UNCHANGED <<request, saved>>
    BY DEF FileUploadWorker, PrepareUpload, FindStorage, Queue, Collect, CollectAvoiding,
       Settle, SettleReturning
<1>2. PICK u \in Uploads : u = worker[w].upload /\ u \notin done
    BY <1>1 DEF Handed, Jobs, JobOK
<1>3. worker[w].pc \in {"finding", "queueing", "waiting"} =>
          ToSet(worker[w].pending) \subseteq ToSet(BlocksOf[u])
    BY <1>2 DEF Jobs, JobOK, Rounds
<1>4. CASE PrepareUpload(w)
    BY <1>1, <1>2, <1>4, PrepareOn DEF PrepareUpload, SameBlocks
<1>5. CASE FindStorage(w)
  <2>1. worker[w].pc = "finding" /\ SameBlocks(ToSet(worker[w].pending))
    BY <1>5, FindOn DEF SameBlocks
  <2>2. SameBlocks(ToSet(BlocksOf[u]))
    BY <1>3, <2>1 DEF SameBlocks
  <2>3. UNCHANGED done /\ (failed' = failed \/ failed' = failed \cup {u})
    BY <1>2, <1>5 DEF FindStorage
  <2> QED  BY <1>1, <1>2, <2>2, <2>3
<1>6. CASE Queue(w)
  <2>1. PICK b : /\ b \in ToSet(worker[w].pending) /\ SameBlocks({b})
                 /\ worker[w].pc = "queueing"
    BY <1>6, QueueOn
  <2>2. SameBlocks(ToSet(BlocksOf[u]))
    BY <1>3, <2>1 DEF SameBlocks
  <2> QED  BY <1>1, <1>2, <1>6, <2>2 DEF Queue
<1>7. CASE Collect(w)
  <2>1. /\ worker[w].pc = "waiting" /\ SameBlocks(ToSet(Failures(w)))
        /\ ToSet(Failures(w)) \subseteq ToSet(worker[w].pending)
    BY <1>7, CollectOn
  <2>2. SameBlocks(ToSet(BlocksOf[u]))
    BY <1>3, <2>1 DEF SameBlocks
  <2> QED  BY <1>1, <1>2, <1>7, <2>2 DEF Collect, CollectAvoiding
<1>8. CASE Settle(w)
  <2>1. SameBlocks(GivenUp(w)) /\ GivenUp(w) \subseteq ToSet(BlocksOf[u])
    BY <1>2, <1>8, SettleOn
  <2>2. SameBlocks(ToSet(BlocksOf[u])) /\ UNCHANGED failed
    BY <1>8, <2>1 DEF SameBlocks, Settle, SettleReturning
  <2> QED  BY <1>1, <1>2, <1>8, <2>2
<1> QED
    BY <1>4, <1>5, <1>6, <1>7, <1>8 DEF FileUploadWorker

\* What a worker leaves of its upload: all is stored, or nothing is in use.
LEMMA SettledIs ==
    ASSUME Typed, Handed, Jobs, Placed, NEW w \in Workers, Settle(w)
    PROVE  \E u \in Uploads :
               /\ u = worker[w].upload /\ done' = done \cup {u} /\ failed' = failed
               /\ EndedOK(u)' /\ (u \notin failed => AllStored(u)')
<1>1. PICK j \in Job : j = worker[w]
    BY DEF Typed
<1>8. PICK u \in Uploads : u = j.upload
    BY <1>1, SettleOn
<1>2. /\ j.pc = "settling" /\ j.upload \in Uploads /\ done' = done \cup {j.upload}
      /\ SameBlocks(GivenUp(w)) /\ \A b \in GivenUp(w) : block'[b].stage = "abandoned"
    BY <1>1, SettleOn
<1>3. UNCHANGED failed
    BY DEF Settle, SettleReturning
<1>4. /\ \A b \in ToSet(BlocksOf[j.upload]) \ ToSet(j.pending) : block[b].stage = "ok"
      /\ \A b \in ToSet(j.pending) : block[b] = Unplaced
      /\ j.pending = <<>> <=> j.upload \notin failed
    BY <1>1, <1>2 DEF Jobs, JobOK, Rounds
<1>5. ToSet(BlocksOf[j.upload]) \subseteq Blocks
    BY <1>2, BlockLists
<1>6. CASE j.pending = <<>>
  <2>1. GivenUp(w) = {} /\ ToSet(j.pending) = {}
    BY <1>1, <1>6 DEF GivenUp, ToSet
  <2>2. \A b \in ToSet(BlocksOf[j.upload]) : block'[b].stage = "ok"
    BY <1>2, <1>4, <1>5, <2>1 DEF SameBlocks
  <2> QED  BY <1>1, <1>2, <1>3, <1>4, <1>6, <1>8, <2>2 DEF EndedOK, AllStored
<1>7. CASE j.pending # <<>>
  <2>1. \A b \in ToSet(BlocksOf[j.upload]) \ ToSet(j.pending) : b \in GivenUp(w)
    BY <1>1, <1>4, <1>7 DEF GivenUp
  <2>2. ASSUME NEW b \in ToSet(BlocksOf[j.upload])
        PROVE  block'[b].stage \in {"none", "abandoned"}
    <3>1. CASE b \in GivenUp(w)
      BY <1>2, <3>1
    <3>2. CASE b \notin GivenUp(w)
      <4>1. block'[b] = Unplaced
        BY <1>2, <1>4, <1>5, <2>1, <3>2 DEF SameBlocks
      <4> QED  BY <4>1 DEF Unplaced
    <3> QED  BY <3>1, <3>2
  <2> QED  BY <1>1, <1>2, <1>3, <1>4, <1>7, <1>8, <2>2 DEF EndedOK
<1> QED
    BY <1>6, <1>7

\* Every step keeps it.
LEMMA EndedStep ==
    ASSUME Typed, Handed, Jobs, Placed, Ended, Asked, [Next]_vars
    PROVE  Ended'
<1>1. ASSUME NEW w \in Workers, FileUploadWorker(w)  PROVE Ended'
  <2>1. PICK u \in Uploads : u = worker[w].upload
    BY <1>1, WorkerOn
  <2>2. /\ u \notin done /\ SameBlocks(ToSet(BlocksOf[u]))
        /\ failed' = failed \/ failed' = failed \cup {u}
        /\ done' = done \/ Settle(w)
    BY <1>1, <2>1, WorkerOn
  <2>3. ASSUME NEW v \in done  PROVE EndedOK(v)'
    <3>1. v # u /\ v \in Uploads
      BY <2>2 DEF Typed
    <3>2. \A b \in ToSet(BlocksOf[v]) : b \in Blocks \ ToSet(BlocksOf[u])
      BY <3>1, BlockLists
    <3> QED  BY <2>2, <3>1, <3>2, EndedKeeps DEF Ended, SameBlocks
  <2>4. ASSUME Settle(w)  PROVE done' = done \cup {u} /\ EndedOK(u)'
    BY <2>1, <2>4, SettledIs
  <2> QED  BY <2>2, <2>3, <2>4 DEF Ended
<1>2. ASSUME UNCHANGED <<done, failed, block>>  PROVE Ended'
    BY <1>2 DEF Ended, EndedOK
<1>3. ASSUME NEW b \in Blocks, SameBlocks({b}), UNCHANGED <<done, failed>>,
             block[b].stage \in {"scheduled", "sending"}
      PROVE  Ended'
  <2>1. ASSUME NEW v \in done  PROVE EndedOK(v)'
    <3>1. v \in Uploads /\ EndedOK(v)
      BY DEF Typed, Ended
    <3>2. b \notin ToSet(BlocksOf[v])
      BY <1>3, <3>1 DEF EndedOK
    <3>3. \A c \in ToSet(BlocksOf[v]) : c \in Blocks \ {b}
      BY <3>1, <3>2, BlockLists
    <3> QED  BY <1>3, <3>1, <3>3, EndedKeeps DEF SameBlocks
  <2> QED  BY <1>3, <2>1 DEF Ended
<1>4. CASE Forward
    BY <1>3, <1>4, ForwardOn DEF Forward
<1>5. ASSUME NEW p \in Providers, NEW b \in Blocks, PutBlock(p, b)  PROVE Ended'
  <2>1. block[b].stage = "sending" /\ SameBlocks({b})
    BY <1>5, PutOn
  <2>2. UNCHANGED <<done, failed>>
    BY <1>5 DEF PutBlock
  <2> QED  BY <1>3, <2>1, <2>2
<1>6. ASSUME NEW q \in Requests, RemoveBlock(q)  PROVE Ended'
  <2>1. PICK b \in Blocks :
           /\ b \in ToSet(request[q].todo) /\ SameBlocks({b}) /\ request[q].pc = "undoing"
           /\ block'[b].stage \in {"removed", "stranded"}
    BY <1>6, RemoveOn
  <2>2. UNCHANGED <<done, failed>>
    BY <1>6 DEF RemoveBlock
  <2>3. Owner(b) \notin failed
    BY <2>1 DEF Asked, Undoes
  <2>4. ASSUME NEW v \in done, NEW c \in ToSet(BlocksOf[v])
        PROVE  block'[c].stage \in IF v \in failed THEN {"none", "abandoned"}
                                   ELSE {"ok", "removed", "stranded"}
    <3>1. v \in Uploads /\ EndedOK(v) /\ c \in Blocks
      BY BlockLists DEF Typed, Ended
    <3>2. CASE c = b
      <4>1. v \notin failed
        BY <2>3, <3>1, <3>2, BlockLists
      <4> QED  BY <2>1, <3>2, <4>1
    <3>3. CASE c # b
      <4>1. block'[c] = block[c]
        BY <2>1, <3>1, <3>3 DEF SameBlocks
      <4> QED  BY <3>1, <4>1 DEF EndedOK
    <3> QED  BY <3>2, <3>3
  <2> QED  BY <2>2, <2>4 DEF Ended, EndedOK
<1>7. CASE UploadThread
    BY <1>2, <1>7 DEF UploadThread, Accept, Hand, HandUpTo, Finish, FinishWith, PollNothing,
       ResetProviderConns
<1>8. CASE Dial \/ \E p \in Providers : AuthorizeRenter(p)
    BY <1>2, <1>8 DEF Dial, AuthorizeRenter
<1>9. ASSUME NEW q \in Requests, Upload(q) \/ RequestThread(q)  PROVE Ended'
    BY <1>2, <1>6, <1>9 DEF Upload, RequestThread, AwaitUploads, MakeNewFile, SaveFile,
       ReturnError
<1>10. CASE UNCHANGED vars
    BY <1>2, <1>10 DEF vars
<1> QED
    BY <1>1, <1>4, <1>5, <1>7, <1>8, <1>9, <1>10
    DEF Next, BlockUploadScheduleThread, BlockUploadThread

-----------------------------------------------------------------------------
(* What a request knows of its uploads.                                    *)

\* A request the step leaves alone, when its uploads only make progress.
LEMMA AskedKeeps ==
    ASSUME Typed, NEW q \in Requests, Awaits(q), Undoes(q), request'[q] = request[q],
           \A u \in ToSet(Batch[q]) :
              /\ u \in done => /\ u \in done' /\ (u \in failed' <=> u \in failed)
                               /\ \A b \in ToSet(BlocksOf[u]) : block'[b] = block[b]
              /\ u \in done' \ done /\ u \notin failed' => AllStored(u)'
              /\ u \in saved' <=> u \in saved
    PROVE  Awaits(q)' /\ Undoes(q)'
<1>1. PICK r \in Request : r = request[q] /\ r = request'[q]
    BY DEF Typed
<1>2. /\ ToSet(Batch[q]) \subseteq Uploads
      /\ \A i \in DOMAIN Batch[q] : Batch[q][i] \in ToSet(Batch[q])
      /\ DOMAIN Batch[q] = 1..Len(Batch[q]) /\ Len(Batch[q]) \in Nat
    BY Batches
<1>3. ASSUME NEW u \in ToSet(Batch[q]), u \in done' \ failed', u \in done \ failed => AllStored(u)
      PROVE  AllStored(u)'
  <2>1. CASE u \in done
    BY <1>3, <2>1 DEF AllStored
  <2>2. CASE u \notin done
    BY <1>3, <2>2
  <2> QED  BY <2>1, <2>2
<1>4. \A i \in 1..(r.at - 1) : r.at \in DOMAIN Batch[q] => Batch[q][i] \in ToSet(Batch[q])
  <2>1. \A i \in 1..(r.at - 1) : r.at \in DOMAIN Batch[q] => i \in DOMAIN Batch[q]
    BY <1>2 DEF Request
  <2> QED  BY <1>2, <2>1
<1>5. Awaits(q)'
  <2>1. r.pc \in {"new", "sending", "waiting", "saving"} => r.at \in DOMAIN Batch[q]
    BY <1>1 DEF Awaits
  <2>2. r.pc \notin {"undoing", "failed"} =>
              \A u \in ToSet(Batch[q]) : u \in done' \ failed' => AllStored(u)'
    BY <1>1, <1>3 DEF Awaits
  <2>3. r.pc = "waiting" => \A i \in 1..(r.at - 1) : Batch[q][i] \in done'
    BY <1>1, <1>4, <2>1 DEF Awaits
  <2>4. r.pc \in {"making", "saving", "returned"} => ToSet(Batch[q]) \subseteq done' \ failed'
    BY <1>1 DEF Awaits
  <2>5. r.pc = "saving" => \A i \in 1..(r.at - 1) : Batch[q][i] \in saved'
    BY <1>1, <1>4, <2>1 DEF Awaits
  <2>6. r.pc = "returned" => ToSet(Batch[q]) \subseteq saved'
    BY <1>1 DEF Awaits
  <2>7. r.pc \in {"new", "sending", "waiting", "making"} => ToSet(Batch[q]) \cap saved' = {}
    BY <1>1 DEF Awaits
  <2> QED  BY <1>1, <2>1, <2>2, <2>3, <2>4, <2>5, <2>6, <2>7 DEF Awaits
<1>6. Undoes(q)'
  <2> SUFFICES ASSUME r.pc \in {"undoing", "failed"}  PROVE Undoes(q)'
    BY <1>1 DEF Undoes
  <2>1. ToSet(Batch[q]) \subseteq done /\ ToSet(Batch[q]) \subseteq done'
    BY <1>1 DEF Undoes
  <2>2. (ToSet(Batch[q]) \cap failed' # {}) => (ToSet(Batch[q]) \cap failed # {})
    BY <2>1
  <2>3. ToSet(r.todo) \subseteq Blocks
    BY SetOfList DEF Request
  <2>4. ASSUME NEW b \in ToSet(r.todo)
        PROVE  Owner(b) \in ToSet(Batch[q]) \ failed' /\ block'[b].stage = "ok"
    <3>1. Owner(b) \in ToSet(Batch[q]) \ failed /\ block[b].stage = "ok"
      BY <1>1 DEF Undoes
    <3>2. b \in ToSet(BlocksOf[Owner(b)])
      BY <2>3, BlockLists
    <3> QED  BY <2>1, <3>1, <3>2
  <2>5. \A u \in ToSet(Batch[q]) : \A b \in ToSet(BlocksOf[u]) : block'[b] = block[b]
    BY <2>1
  <2>6. IsInjective(r.todo) /\ (r.pc = "failed" => r.todo = <<>>)
    BY <1>1 DEF Undoes
  <2>7. q \notin Folders \/ ToSet(Batch[q]) \cap failed' # {} =>
           \A u \in ToSet(Batch[q]) : \A b \in ToSet(BlocksOf[u]) :
              block'[b].stage = "ok" => b \in ToSet(r.todo)
    BY <1>1, <2>2, <2>5 DEF Undoes
  <2>8. ListedStays(q)'
    BY <1>1, <2>5 DEF Undoes, ListedStays
  <2> QED  BY <1>1, <2>1, <2>4, <2>6, <2>7, <2>8 DEF Undoes
<1> QED
    BY <1>5, <1>6

\* The uploads of the other requests are not touched by a request.
LEMMA AskedOthers ==
    ASSUME Typed, Asked, NEW q \in Requests, SameRequests(q), UNCHANGED <<done, failed>>,
           \A b \in Blocks : block'[b] = block[b] \/ Owner(b) \in ToSet(Batch[q]),
           \A u : u \notin ToSet(Batch[q]) => (u \in saved' <=> u \in saved),
           Awaits(q)', Undoes(q)'
    PROVE  Asked'
<1>1. ASSUME NEW r \in Requests, r # q  PROVE Awaits(r)' /\ Undoes(r)'
  <2>1. ToSet(Batch[r]) \subseteq Uploads /\ ToSet(Batch[r]) \cap ToSet(Batch[q]) = {}
    BY <1>1, Batches
  <2>2. ASSUME NEW u \in ToSet(Batch[r]), NEW b \in ToSet(BlocksOf[u])
        PROVE  block'[b] = block[b]
    <3>1. b \in Blocks /\ Owner(b) = u
      BY <2>1, BlockLists
    <3> QED  BY <2>1, <3>1
  <2>3. \A u \in ToSet(Batch[r]) : u \in saved' <=> u \in saved
    BY <2>1
  <2> QED  BY <1>1, <2>2, <2>3, AskedKeeps DEF Asked, SameRequests
<1> QED
    BY <1>1 DEF Asked

\* A request that waits: those it has waited for are done.
LEMMA AskedAwait ==
    ASSUME Typed, Handed, Jobs, Placed, Ended, Asked, NEW q \in Requests, AwaitUploads(q)
    PROVE  Asked'
<1>1. PICK r \in Request, s \in Request : r = request[q] /\ s = request'[q]
    BY AwaitOn DEF Typed
<1>2. /\ SameRequests(q) /\ r.pc = "waiting" /\ r.at \in DOMAIN Batch[q] /\ Batch[q][r.at] \in done
      /\ \/ /\ s.pc = "waiting" /\ s.at = r.at + 1 /\ s.at \in DOMAIN Batch[q]
         \/ /\ s.pc = "undoing" /\ s.todo = BlocksIn(Those(Batch[q], Uploads \ failed))
            /\ r.at = Len(Batch[q])
         \/ /\ s.pc = "making" /\ ToSet(Batch[q]) \cap failed = {}
            /\ r.at = Len(Batch[q])
    BY <1>1, AwaitOn
<1>3. UNCHANGED <<done, failed, saved, block>>
    BY DEF AwaitUploads
<1>4. /\ \A u \in ToSet(Batch[q]) : u \in done \ failed => AllStored(u)
      /\ \A i \in 1..(r.at - 1) : Batch[q][i] \in done
      /\ ToSet(Batch[q]) \cap saved = {}
    BY <1>1, <1>2 DEF Asked, Awaits
<1>5. PICK n \in Nat, l \in Nat : n = r.at /\ l = Len(Batch[q]) /\ DOMAIN Batch[q] = 1..l
    BY Batches DEF Request
<1>6. \A i \in 1..n : Batch[q][i] \in done
  <2>1. \A i \in 1..n : i = n \/ i \in 1..(n - 1)
    OBVIOUS
  <2> QED  BY <1>2, <1>4, <1>5, <2>1
<1>7. n = l => ToSet(Batch[q]) \subseteq done
    BY <1>5, <1>6 DEF ToSet
<1>8. CASE s.pc = "waiting" /\ s.at = r.at + 1 /\ s.at \in DOMAIN Batch[q]
  <2>1. \A i \in 1..(s.at - 1) : Batch[q][i] \in done
    BY <1>5, <1>6, <1>8
  <2>2. Awaits(q)'
    BY <1>1, <1>3, <1>4, <1>8, <2>1 DEF Awaits, AllStored
  <2>3. Undoes(q)'
    BY <1>1, <1>8 DEF Undoes
  <2> QED  BY <1>2, <1>3, <2>2, <2>3, AskedOthers
<1>9. CASE s.pc = "undoing" /\ s.todo = BlocksIn(Those(Batch[q], Uploads \ failed)) /\ n = l
  <2>1. PICK good \in Seq(Uploads) : /\ good = Those(Batch[q], Uploads \ failed)
                                     /\ ToSet(good) = ToSet(Batch[q]) \cap (Uploads \ failed)
                                     /\ IsInjective(good)
    BY Batches, ThoseOf
  <2>2. /\ IsInjective(s.todo) /\ ToSet(s.todo) \subseteq Blocks
        /\ \A b : b \in ToSet(s.todo) <=> \E u \in ToSet(good) : b \in ToSet(BlocksOf[u])
    <3>1. s.todo = BlocksIn(good)
      BY <1>9, <2>1
    <3>2. /\ BlocksIn(good) \in Seq(Blocks) /\ IsInjective(BlocksIn(good))
          /\ \A b : b \in ToSet(BlocksIn(good)) <=> \E u \in ToSet(good) : b \in ToSet(BlocksOf[u])
      BY <2>1, BlocksInOf
    <3>3. ToSet(BlocksIn(good)) \subseteq Blocks
      BY <3>2, SetOfList
    <3> QED  BY <3>1, <3>2, <3>3
  <2>3. ASSUME NEW b \in ToSet(s.todo)
        PROVE  Owner(b) \in ToSet(Batch[q]) \ failed /\ block[b].stage = "ok"
    <3>1. PICK u \in ToSet(good) : b \in ToSet(BlocksOf[u])
      BY <2>2
    <3>2. u \in Uploads /\ u \in ToSet(Batch[q]) /\ u \notin failed /\ u \in done
      BY <1>7, <1>9, <2>1
    <3> QED  BY <1>4, <3>1, <3>2, BlockLists DEF AllStored
  <2>4. ASSUME NEW u \in ToSet(Batch[q]), NEW b \in ToSet(BlocksOf[u]), block[b].stage = "ok"
        PROVE  b \in ToSet(s.todo)
    <3>1. u \in done /\ u \in Uploads
      BY <1>7, <1>9, Batches
    <3>2. u \notin failed
      BY <2>4, <3>1 DEF Ended, EndedOK
    <3> QED  BY <2>1, <2>2, <2>4, <3>1, <3>2
  <2>5. Undoes(q)'
    BY <1>1, <1>3, <1>4, <1>7, <1>9, <2>2, <2>3, <2>4 DEF Undoes, ListedStays
  <2>6. Awaits(q)'
    BY <1>1, <1>9 DEF Awaits
  <2> QED  BY <1>2, <1>3, <2>5, <2>6, AskedOthers
<1>10. CASE s.pc = "making" /\ ToSet(Batch[q]) \cap failed = {} /\ n = l
  <2>1. ToSet(Batch[q]) \subseteq done \ failed
    BY <1>7, <1>10
  <2>2. Awaits(q)'
    BY <1>1, <1>3, <1>4, <1>10, <2>1 DEF Awaits, AllStored
  <2>3. Undoes(q)'
    BY <1>1, <1>10 DEF Undoes
  <2> QED  BY <1>2, <1>3, <2>2, <2>3, AskedOthers
<1> QED
    BY <1>2, <1>5, <1>8, <1>9, <1>10

\* What a request undoes when all its uploads have been stored.
LEMMA UndoesStored ==
    ASSUME NEW q \in Requests, ToSet(Batch[q]) \subseteq done \ failed,
           \A u \in ToSet(Batch[q]) : AllStored(u),
           NEW t \in Seq(Uploads), IsInjective(t), ToSet(t) \subseteq ToSet(Batch[q]),
           IF q \in Folders THEN ToSet(t) \cap saved' = {} ELSE t = Batch[q],
           request'[q].pc = "undoing", request'[q].todo = BlocksIn(t),
           UNCHANGED <<done, failed, block>>
    PROVE  Awaits(q)' /\ Undoes(q)'
<1>1. PICK s : s = request'[q]
    OBVIOUS
<1>2. /\ IsInjective(s.todo)
      /\ \A b : b \in ToSet(s.todo) <=> \E u \in ToSet(t) : b \in ToSet(BlocksOf[u])
    BY <1>1, BlocksInOf
<1>3. ASSUME NEW b \in ToSet(s.todo)
      PROVE  Owner(b) \in ToSet(Batch[q]) \ failed /\ block[b].stage = "ok"
  <2>1. PICK u \in ToSet(t) : b \in ToSet(BlocksOf[u])
    BY <1>2
  <2>2. u \in ToSet(Batch[q]) /\ u \in Uploads /\ u \notin failed
    BY Batches
  <2> QED  BY <2>1, <2>2, BlockLists DEF AllStored
<1>4. q \notin Folders \/ ToSet(Batch[q]) \cap failed # {} =>
           \A u \in ToSet(Batch[q]) : \A b \in ToSet(BlocksOf[u]) :
              block[b].stage = "ok" => b \in ToSet(s.todo)
    BY <1>2
<1>7. ASSUME q \in Folders, NEW u \in ToSet(Batch[q]), u \in saved', NEW b \in ToSet(BlocksOf[u])
      PROVE  block[b].stage = "ok" /\ b \notin ToSet(s.todo)
  <2>1. block[b].stage = "ok"
    BY DEF AllStored
  <2>2. ASSUME NEW v \in ToSet(t), b \in ToSet(BlocksOf[v])  PROVE FALSE
    <3>1. u \in Uploads /\ v \in Uploads
      BY Batches
    <3>2. u = v
      BY <2>2, <3>1, BlockLists
    <3> QED  BY <1>7, <3>2
  <2> QED  BY <1>2, <2>1, <2>2
<1>8. ListedStays(q)'
    BY <1>1, <1>7 DEF ListedStays
<1>5. Undoes(q)'
    BY <1>1, <1>2, <1>3, <1>4, <1>8 DEF Undoes
<1>6. Awaits(q)'
    BY DEF Awaits
<1> QED
    BY <1>5, <1>6

\* What was saved is the first of its uploads, all of them when it returns.
LEMMA AskedSave ==
    ASSUME Typed, Handed, Jobs, Placed, Ended, Asked, NEW q \in Requests,
           MakeNewFile(q) \/ SaveFile(q)
    PROVE  Asked'
<1>1. PICK r \in Request, s \in Request : r = request[q] /\ s = request'[q]
    BY MakeOn, SaveOn DEF Typed
<1>2. UNCHANGED <<done, failed, block>>
    BY DEF MakeNewFile, SaveFile
<1>3. SameRequests(q) /\ r.pc \in {"making", "saving"}
    BY <1>1, MakeOn, SaveOn
<1>4. /\ ToSet(Batch[q]) \subseteq done \ failed
      /\ \A u \in ToSet(Batch[q]) : AllStored(u)
    BY <1>1, <1>3 DEF Asked, Awaits
<1>5. \A u \in ToSet(Batch[q]) : AllStored(u)'
    BY <1>2, <1>4 DEF AllStored
<1>6. /\ Batch[q] \in Seq(Uploads) /\ IsInjective(Batch[q])
      /\ Len(Batch[q]) \in Nat \ {0} /\ DOMAIN Batch[q] = 1..Len(Batch[q])
    BY Batches
<1>7. CASE MakeNewFile(q)
  <2>1. UNCHANGED saved
    BY <1>7 DEF MakeNewFile
  <2>4. ToSet(Batch[q]) \cap saved = {}
    BY <1>1, <1>7, MakeOn DEF Asked, Awaits
  <2>2. CASE s.pc = "saving" /\ s.at = 1
    <3>1. 1 \in DOMAIN Batch[q] /\ 1..(s.at - 1) = {}
      BY <1>6, <2>2
    <3>2. Awaits(q)'
      BY <1>1, <1>2, <1>4, <1>5, <2>2, <3>1 DEF Awaits
    <3>3. Undoes(q)'
      BY <1>1, <2>2 DEF Undoes
    <3> QED  BY <1>2, <1>3, <2>1, <3>2, <3>3, AskedOthers
  <2>3. CASE s.pc = "undoing" /\ s.todo = BlocksIn(Batch[q])
    <3>1. Awaits(q)' /\ Undoes(q)'
      BY <1>1, <1>2, <1>4, <1>6, <2>1, <2>3, <2>4, UndoesStored
    <3> QED  BY <1>2, <1>3, <2>1, <3>1, AskedOthers
  <2> QED  BY <1>1, <1>7, <2>2, <2>3, MakeOn
<1>8. CASE SaveFile(q)
  <2>1. /\ r.pc = "saving" /\ r.at \in DOMAIN Batch[q]
        /\ \A u : u \notin ToSet(Batch[q]) => (u \in saved' <=> u \in saved)
        /\ \/ /\ s.pc = "saving" /\ s.at = r.at + 1 /\ s.at \in DOMAIN Batch[q]
              /\ saved' = saved \cup {Batch[q][r.at]}
           \/ /\ s.pc = "returned" /\ r.at = Len(Batch[q])
              /\ saved' = saved \cup {Batch[q][r.at]}
           \/ /\ s.pc = "undoing"
              /\ \E t \in Seq(Uploads) :
                    /\ s.todo = BlocksIn(t) /\ IsInjective(t)
                    /\ ToSet(t) \subseteq ToSet(Batch[q])
                    /\ IF q \in Folders THEN ToSet(t) \cap saved' = {} ELSE t = Batch[q]
    BY <1>1, <1>8, SaveOn
  <2>2. \A i \in 1..(r.at - 1) : Batch[q][i] \in saved
    BY <1>1, <2>1 DEF Asked, Awaits
  <2>3. PICK n \in Nat, l \in Nat : n = r.at /\ l = Len(Batch[q]) /\ DOMAIN Batch[q] = 1..l
    BY <1>6 DEF Request
  <2>4. saved' = saved \cup {Batch[q][n]} => \A i \in 1..n : Batch[q][i] \in saved'
    <3>1. \A i \in 1..n : i = n \/ i \in 1..(n - 1)
      OBVIOUS
    <3> QED  BY <2>2, <2>3, <3>1
  <2>5. CASE /\ s.pc = "saving" /\ s.at = r.at + 1 /\ s.at \in DOMAIN Batch[q]
             /\ saved' = saved \cup {Batch[q][r.at]}
    <3>1. \A i \in 1..(s.at - 1) : Batch[q][i] \in saved'
      BY <2>3, <2>4, <2>5
    <3>2. Awaits(q)'
      BY <1>1, <1>2, <1>4, <1>5, <2>5, <3>1 DEF Awaits
    <3>3. Undoes(q)'
      BY <1>1, <2>5 DEF Undoes
    <3> QED  BY <1>2, <1>3, <2>1, <3>2, <3>3, AskedOthers
  <2>6. CASE s.pc = "returned" /\ r.at = Len(Batch[q]) /\ saved' = saved \cup {Batch[q][r.at]}
    <3>1. ToSet(Batch[q]) \subseteq saved'
      BY <2>3, <2>4, <2>6 DEF ToSet
    <3>2. Awaits(q)'
      BY <1>1, <1>2, <1>4, <1>5, <2>6, <3>1 DEF Awaits
    <3>3. Undoes(q)'
      BY <1>1, <2>6 DEF Undoes
    <3> QED  BY <1>2, <1>3, <2>1, <3>2, <3>3, AskedOthers
  <2>7. CASE /\ s.pc = "undoing"
             /\ \E t \in Seq(Uploads) :
                   /\ s.todo = BlocksIn(t) /\ IsInjective(t)
                   /\ ToSet(t) \subseteq ToSet(Batch[q])
                   /\ IF q \in Folders THEN ToSet(t) \cap saved' = {} ELSE t = Batch[q]
    <3>1. Awaits(q)' /\ Undoes(q)'
      BY <1>1, <1>2, <1>4, <2>7, UndoesStored
    <3> QED  BY <1>2, <1>3, <2>1, <3>1, AskedOthers
  <2> QED  BY <2>1, <2>5, <2>6, <2>7
<1> QED
    BY <1>7, <1>8

\* The blocks still to remove are stored.
LEMMA AskedRemove ==
    ASSUME Typed, Handed, Jobs, Placed, Ended, Asked, NEW q \in Requests, RemoveBlock(q)
    PROVE  Asked'
<1>1. PICK r \in Request, s \in Request : r = request[q] /\ s = request'[q]
    BY RemoveOn DEF Typed
<1>2. PICK b \in Blocks : b = Head(r.todo)
    BY <1>1, RemoveOn
<1>3. /\ SameRequests(q) /\ r.pc = "undoing" /\ r.todo \in Seq(Blocks) /\ r.todo # <<>>
      /\ s.pc = "undoing" /\ s.todo = Tail(r.todo) /\ b \in ToSet(r.todo)
      /\ SameBlocks({b}) /\ block'[b].stage \in {"removed", "stranded"}
    BY <1>1, <1>2, RemoveOn
<1>4. UNCHANGED <<done, failed, saved>>
    BY DEF RemoveBlock
<1>5. /\ ToSet(Batch[q]) \subseteq done /\ IsInjective(r.todo)
      /\ \A c \in ToSet(r.todo) : Owner(c) \in ToSet(Batch[q]) \ failed /\ block[c].stage = "ok"
      /\ q \notin Folders \/ ToSet(Batch[q]) \cap failed # {} =>
            \A u \in ToSet(Batch[q]) : \A c \in ToSet(BlocksOf[u]) :
               block[c].stage = "ok" => c \in ToSet(r.todo)
      /\ ListedStays(q)
    BY <1>1, <1>3 DEF Asked, Undoes
<1>6. /\ IsInjective(s.todo) /\ b \notin ToSet(s.todo) /\ ToSet(s.todo) \subseteq ToSet(r.todo)
      /\ \A c \in ToSet(r.todo) : c = b \/ c \in ToSet(s.todo)
  <2>1. s.todo \in Seq(Blocks)
    BY <1>3
  <2>2. IsInjective(s.todo) /\ ~InList(s.todo, b) /\ \A c : InList(s.todo, c) => InList(r.todo, c)
    BY <1>2, <1>3, <1>5, ShorterLists
  <2>3. \A c : InList(s.todo, c) <=> c \in ToSet(s.todo)
    BY <2>1, SetOfList
  <2>4. \A c : InList(r.todo, c) <=> c \in ToSet(r.todo)
    BY <1>3, SetOfList
  <2>5. ASSUME NEW c \in ToSet(r.todo), c # b  PROVE c \in ToSet(s.todo)
    <3>1. PICK i \in DOMAIN r.todo : r.todo[i] = c
      BY DEF ToSet
    <3>2. i # 1 /\ Len(r.todo) \in Nat /\ DOMAIN r.todo = 1..Len(r.todo)
      BY <1>2, <1>3, <2>5, <3>1
    <3>3. i - 1 \in DOMAIN s.todo /\ s.todo[i - 1] = r.todo[i]
      BY <1>3, <3>2
    <3> QED  BY <3>1, <3>3 DEF ToSet
  <2> QED  BY <2>2, <2>3, <2>4, <2>5
<1>7. ToSet(r.todo) \subseteq Blocks
    BY <1>3, SetOfList
<1>8. \A c \in ToSet(s.todo) : Owner(c) \in ToSet(Batch[q]) \ failed /\ block'[c].stage = "ok"
    BY <1>3, <1>5, <1>6, <1>7 DEF SameBlocks
<1>9. ASSUME NEW u \in ToSet(Batch[q]), NEW c \in ToSet(BlocksOf[u]), block'[c].stage = "ok",
             q \notin Folders \/ ToSet(Batch[q]) \cap failed # {}
      PROVE  c \in ToSet(s.todo)
  <2>1. c # b /\ c \in Blocks
    BY <1>3, <1>9, Batches, BlockLists
  <2>2. block'[c] = block[c]
    BY <1>3, <2>1 DEF SameBlocks
  <2> QED  BY <1>5, <1>6, <1>9, <2>1, <2>2
<1>13. ASSUME q \in Folders, NEW u \in ToSet(Batch[q]) \cap saved, NEW c \in ToSet(BlocksOf[u])
       PROVE  block'[c].stage = "ok" /\ c \notin ToSet(s.todo)
  <2>1. block[c].stage = "ok" /\ c \notin ToSet(r.todo)
    BY <1>1, <1>5, <1>13 DEF ListedStays
  <2>2. c \in Blocks /\ c # b
    BY <1>3, <2>1, Batches, BlockLists
  <2> QED  BY <1>3, <1>6, <2>1, <2>2 DEF SameBlocks
<1>14. ListedStays(q)'
    BY <1>1, <1>4, <1>13 DEF ListedStays
<1>10. Undoes(q)'
    BY <1>1, <1>3, <1>4, <1>5, <1>6, <1>8, <1>9, <1>14 DEF Undoes
<1>11. Awaits(q)'
    BY <1>1, <1>3 DEF Awaits
<1>12. \A c \in Blocks : block'[c] = block[c] \/ Owner(c) \in ToSet(Batch[q])
    BY <1>3, <1>5 DEF SameBlocks
<1> QED
    BY <1>3, <1>4, <1>10, <1>11, <1>12, AskedOthers

\* Every step keeps it.
LEMMA AskedStep ==
    ASSUME Typed, Handed, Jobs, Placed, Ended, Asked, [Next]_vars
    PROVE  Asked'
<1>1. ASSUME NEW w \in Workers, FileUploadWorker(w)  PROVE Asked'
  <2>1. PICK u \in Uploads : u = worker[w].upload
    BY <1>1, WorkerOn
  <2>2. /\ u \notin done /\ SameBlocks(ToSet(BlocksOf[u]))
        /\ failed' = failed \/ failed' = failed \cup {u}
        /\ done' = done \/ Settle(w)
        /\ UNCHANGED <<request, saved>>
    BY <1>1, <2>1, WorkerOn
  <2>3. Settle(w) => done' = done \cup {u} /\ failed' = failed /\ (u \notin failed => AllStored(u)')
    BY <2>1, SettledIs
  <2>4. ASSUME NEW q \in Requests, NEW v \in ToSet(Batch[q])
        PROVE  /\ v \in done => /\ v \in done' /\ (v \in failed' <=> v \in failed)
                                /\ \A b \in ToSet(BlocksOf[v]) : block'[b] = block[b]
               /\ v \in done' \ done /\ v \notin failed' => AllStored(v)'
    <3>1. v \in Uploads
      BY Batches
    <3>2. CASE v = u
      BY <2>2, <2>3, <3>2
    <3>3. CASE v # u
      <4>1. \A b \in ToSet(BlocksOf[v]) : b \in Blocks \ ToSet(BlocksOf[u])
        BY <3>1, <3>3, BlockLists
      <4> QED  BY <2>2, <2>3, <3>3, <4>1 DEF SameBlocks
    <3> QED  BY <3>2, <3>3
  <2> QED  BY <2>2, <2>4, AskedKeeps DEF Asked
<1>2. ASSUME UNCHANGED <<request, done, failed, saved, block>>  PROVE Asked'
    BY <1>2, AskedKeeps DEF Asked
<1>3. ASSUME NEW b \in Blocks, SameBlocks({b}), UNCHANGED <<request, done, failed, saved>>,
             block[b].stage \in {"scheduled", "sending"}
      PROVE  Asked'
  <2>1. ASSUME NEW q \in Requests, NEW v \in ToSet(Batch[q]), v \in done
        PROVE  \A c \in ToSet(BlocksOf[v]) : block'[c] = block[c]
    <3>1. v \in Uploads /\ EndedOK(v)
      BY <2>1 DEF Typed, Ended
    <3>2. b \notin ToSet(BlocksOf[v])
      BY <1>3, <3>1 DEF EndedOK
    <3>3. \A c \in ToSet(BlocksOf[v]) : c \in Blocks \ {b}
      BY <3>1, <3>2, BlockLists
    <3> QED  BY <1>3, <3>3 DEF SameBlocks
  <2> QED  BY <1>3, <2>1, AskedKeeps DEF Asked
<1>4. CASE Forward
    BY <1>3, <1>4, ForwardOn DEF Forward
<1>5. ASSUME NEW p \in Providers, NEW b \in Blocks, PutBlock(p, b)  PROVE Asked'
  <2>1. block[b].stage = "sending" /\ SameBlocks({b})
    BY <1>5, PutOn
  <2>2. UNCHANGED <<request, done, failed, saved>>
    BY <1>5 DEF PutBlock
  <2> QED  BY <1>3, <2>1, <2>2
<1>6. ASSUME NEW q \in Requests, Accept(q)  PROVE Asked'
  <2>1. PICK r \in Request, s \in Request : r = request[q] /\ s = request'[q]
    BY <1>6, AcceptOn DEF Typed
  <2>2. /\ SameRequests(q) /\ r.pc = "sending" /\ r.at \in DOMAIN Batch[q]
        /\ IF r.at = Len(Batch[q]) THEN s.pc = "waiting" /\ s.at = 1
           ELSE s.pc = "sending" /\ s.at = r.at + 1 /\ s.at \in DOMAIN Batch[q]
    BY <1>6, <2>1, AcceptOn
  <2>3. UNCHANGED <<done, failed, saved, block>>
    BY <1>6 DEF Accept
  <2>4. /\ \A u \in ToSet(Batch[q]) : u \in done' \ failed' => AllStored(u)'
        /\ ToSet(Batch[q]) \cap saved' = {}
    BY <2>1, <2>2, <2>3 DEF Asked, Awaits, AllStored
  <2>5. 1 \in DOMAIN Batch[q] /\ 1..(1 - 1) = {}
    BY Batches
  <2>6. Awaits(q)'
    BY <2>1, <2>2, <2>4, <2>5 DEF Awaits
  <2>7. Undoes(q)'
    BY <2>1, <2>2 DEF Undoes
  <2> QED  BY <2>2, <2>3, <2>6, <2>7, AskedOthers
<1>7. ASSUME NEW q \in Requests, Upload(q) \/ ReturnError(q)  PROVE Asked'
  <2>1. request \in [Requests -> Request]
    BY DEF Typed
  <2>2. PICK r \in Request : r = request[q]
    BY <2>1
  <2>3. /\ SameRequests(q)
        /\ \/ r.pc = "new" /\ request'[q] = [r EXCEPT !.pc = "sending"]
           \/ r.pc = "undoing" /\ r.todo = <<>> /\ request'[q] = [r EXCEPT !.pc = "failed"]
    BY <1>7, <2>1, <2>2 DEF Upload, ReturnError, SameRequests
  <2>4. UNCHANGED <<done, failed, saved, block>>
    BY <1>7 DEF Upload, ReturnError
  <2>5. PICK s \in Request : s = request'[q] /\ s.at = r.at /\ s.todo = r.todo
                /\ (\/ r.pc = "new" /\ s.pc = "sending"
                    \/ r.pc = "undoing" /\ s.pc = "failed" /\ s.todo = <<>>)
    BY <2>3 DEF Request
  <2>6. Awaits(q) /\ Undoes(q)
    BY DEF Asked
  <2>7. Awaits(q)'
    BY <2>2, <2>4, <2>5, <2>6 DEF Awaits, AllStored
  <2>8. Undoes(q)'
    BY <2>2, <2>4, <2>5, <2>6 DEF Undoes, ListedStays
  <2> QED  BY <2>3, <2>4, <2>7, <2>8, AskedOthers
<1>8. CASE UploadThread
    BY <1>2, <1>6, <1>8 DEF UploadThread, Hand, HandUpTo, Finish, FinishWith, PollNothing,
       ResetProviderConns
<1>9. CASE Dial \/ \E p \in Providers : AuthorizeRenter(p)
    BY <1>2, <1>9 DEF Dial, AuthorizeRenter
<1>10. CASE UNCHANGED vars
    BY <1>2, <1>10 DEF vars
<1> QED
    BY <1>1, <1>4, <1>5, <1>7, <1>8, <1>9, <1>10, AskedAwait, AskedSave, AskedRemove
    DEF Next, RequestThread, BlockUploadScheduleThread, BlockUploadThread

-----------------------------------------------------------------------------
(* The invariant, and what follows from it.                                *)

\* Nothing has been asked for, and every block is without a place.
LEMMA IInvInit == Init => IInv
<1> SUFFICES ASSUME Init  PROVE IInv
    OBVIOUS
<1>1. Typed
  <2>1. IdleWorker \in Job
    BY DEF IdleWorker, Job
  <2>2. Unplaced \in Place
    BY DEF Unplaced, Place
  <2>3. [pc |-> "new", at |-> 1, todo |-> <<>>] \in Request
    <3>1. 1 \in Nat \ {0} /\ <<>> \in Seq(Blocks)
      OBVIOUS
    <3> QED  BY <3>1 DEF Request
  <2>4. free \in [Contracts -> Nat]
    BY UploadAssumption DEF Init
  <2> QED  BY <2>1, <2>2, <2>3, <2>4 DEF Init, Typed
<1>2. Handed
  <2>1. \A w \in Workers : worker[w].pc = "idle"
    BY DEF Init, IdleWorker
  <2>2. \A u \in Uploads : Untouched(u)
    BY <2>1, BlockLists DEF Init, Untouched, Has
  <2>3. thread.pc = "select"
    BY DEF Init
  <2> QED  BY <2>1, <2>2, <2>3, Batches DEF Handed, Has, InHand
<1>3. Counted
  <2>1. Busy = {}
    BY DEF Init, Busy, IdleWorker
  <2> QED  BY <2>1, FS_EmptySet DEF Init, Counted
<1>4. Jobs
  <2>1. DOMAIN IdleWorker.toReturn = {}
    BY DEF IdleWorker
  <2> QED  BY <2>1 DEF Init, Jobs, JobOK, IdleWorker
<1>5. Placed
  <2>1. \A b \in Blocks : block[b].stage = "none" /\ block[b].contract = NoContract /\ sched # b
    BY UploadAssumption DEF Init, Unplaced
  <2> QED  BY <2>1 DEF Placed, PlacedOK
<1>6. Ended
    BY DEF Init, Ended
<1>7. Asked
  <2>1. \A q \in Requests : request[q].pc = "new" /\ request[q].at = 1
    BY DEF Init
  <2>2. \A q \in Requests : 1 \in DOMAIN Batch[q]
    BY Batches
  <2> QED  BY <2>1, <2>2 DEF Init, Asked, Awaits, Undoes
<1> QED
    BY <1>1, <1>2, <1>3, <1>4, <1>5, <1>6, <1>7 DEF IInv

\* The invariant is inductive.
LEMMA IInvStep == IInv /\ [Next]_vars => IInv'
BY TypedStep, HandedStep, CountedStep, JobsStep, PlacedStep, EndedStep, AskedStep DEF IInv

\* It holds of every state.
LEMMA IInvHolds == Spec => []IInv
BY IInvInit, IInvStep, PTL DEF Spec

\* The connections are shut down only when no block is on its way: between
\* the last worker's report and the reset, no worker starts (upload.go:412).
THEOREM ResetQuiet == Spec => []ResetWhenQuiet
<1>1. ASSUME IInv  PROVE ResetWhenQuiet
  <2> SUFFICES ASSUME thread.pc = "resetting"  PROVE ResetWhenQuiet
    BY DEF ResetWhenQuiet
  <2>1. IsFiniteSet(Busy) /\ Cardinality(Busy) = 0
    <3>1. IsFiniteSet(Workers) /\ Busy \in SUBSET Workers
      BY UploadAssumption DEF Busy
    <3> QED  BY <1>1, <3>1, FS_Subset DEF IInv, Counted
  <2>2. \A w \in Workers : worker[w].pc = "idle"
    BY <2>1, FS_EmptySet DEF Busy
  <2>3. \A b \in Blocks : block[b].stage \notin {"placed", "scheduled", "sending"}
    BY <1>1, <2>2 DEF IInv, Placed, PlacedOK, Expected
  <2>4. sched = NoBlock
    BY <1>1, <2>3 DEF IInv, Typed, Placed, PlacedOK
  <2> QED  BY <2>2, <2>3, <2>4 DEF ResetWhenQuiet
<1> QED
    BY <1>1, IInvHolds, PTL

\* No block of an upload is tried again with a provider that failed a block
\* of it before, however many rounds there have been (upload.go:467).
THEOREM RetriesElsewhere == Spec => []RetryElsewhere
<1>1. ASSUME IInv  PROVE RetryElsewhere
  <2> SUFFICES ASSUME NEW w \in Workers, worker[w].pc \in {"queueing", "waiting"},
                      NEW b \in ToSet(worker[w].pending), NEW c \in ToSet(worker[w].toReturn)
               PROVE  Provider(b) # ProviderOf[c]
    BY DEF RetryElsewhere
  <2>1. JobOK(w)
    BY <1>1 DEF IInv, Jobs
  <2>2. ProviderOf[c] \in worker[w].offline
    BY <2>1 DEF JobOK, ToSet
  <2>3. Provider(b) \notin worker[w].offline
    BY <2>1 DEF JobOK, WellPlaced, Open, Provider
  <2> QED  BY <2>2, <2>3
<1> QED
    BY <1>1, IInvHolds, PTL

\* An upload that was reported to have succeeded is stored: the metaserver
\* has its files, and the providers the metadata names have the blocks.
THEOREM AcknowledgedStored == Spec => []AcknowledgedIsStored
<1>1. ASSUME IInv  PROVE AcknowledgedIsStored
  <2> SUFFICES ASSUME NEW q \in Requests, request[q].pc = "returned", NEW u \in ToSet(Batch[q])
               PROVE  /\ u \in saved
                      /\ \A b \in ToSet(BlocksOf[u]) :
                            block[b].stage = "ok" /\ <<b, Provider(b)>> \in stored
    BY DEF AcknowledgedIsStored
  <2>1. u \in saved /\ AllStored(u) /\ u \in Uploads
    BY <1>1, Batches DEF IInv, Asked, Awaits
  <2>2. \A b \in ToSet(BlocksOf[u]) : b \in Blocks
    BY <2>1, BlockLists
  <2> QED  BY <1>1, <2>1, <2>2 DEF IInv, AllStored, Placed, PlacedOK
<1> QED
    BY <1>1, IInvHolds, PTL

\* A request that fails undoes the uploads that succeeded; those that gave up
\* use no storage of the renter's, though what they stored stays with the
\* providers (upload.go:495); and of a folder that could not be saved, what is
\* still listed has its blocks (upload.go:335).
THEOREM UndoComplete == Spec => []UndoIsComplete
<1>1. ASSUME IInv  PROVE UndoIsComplete
  <2> SUFFICES ASSUME NEW q \in Requests, request[q].pc = "failed",
                      NEW u \in ToSet(Batch[q])
               PROVE  /\ u \in failed => WasGivenUp(u)
                      /\ u \notin failed =>
                            Undone(u) \/ (q \in Folders /\ ToSet(Batch[q]) \cap failed = {})
                      /\ q \in Folders /\ u \in saved =>
                            \A b \in ToSet(BlocksOf[u]) :
                                block[b].stage = "ok" /\ <<b, Provider(b)>> \in stored
    BY DEF UndoIsComplete
  <2>1. Undoes(q)
    BY <1>1 DEF IInv, Asked
  <2>2. ToSet(request[q].todo) = {} /\ u \in done /\ u \in Uploads
    BY <2>1, Batches DEF Undoes, ToSet
  <2>3. EndedOK(u) /\ \A b \in ToSet(BlocksOf[u]) : b \in Blocks /\ PlacedOK(b)
    BY <1>1, <2>2, BlockLists DEF IInv, Ended, Placed
  <2>4. u \in failed => WasGivenUp(u)
    BY <2>3 DEF EndedOK, WasGivenUp
  <2>5. u \notin failed /\ ~(q \in Folders /\ ToSet(Batch[q]) \cap failed = {}) => Undone(u)
    BY <2>1, <2>2, <2>3 DEF Undoes, EndedOK, PlacedOK, Undone
  <2>6. q \in Folders /\ u \in saved =>
            \A b \in ToSet(BlocksOf[u]) :
                block[b].stage = "ok" /\ <<b, Provider(b)>> \in stored
    BY <2>1, <2>3 DEF Undoes, ListedStays, PlacedOK
  <2> QED  BY <2>4, <2>5, <2>6
<1> QED
    BY <1>1, IInvHolds, PTL

-----------------------------------------------------------------------------
(* Counting the storage.                                                   *)

\* There are finitely many uploads and blocks.
LEMMA FinitelyMany == IsFiniteSet(Uploads) /\ IsFiniteSet(Blocks)
<1>1. IsFiniteSet({ToSet(Batch[q]) : q \in Requests})
  <2>1. [q \in Requests |-> ToSet(Batch[q])] \in Surjection(Requests, {ToSet(Batch[q]) : q \in Requests})
    BY DEF Surjection
  <2> QED  BY <2>1, UploadAssumption, FS_Surjection
<1>2. \A T \in {ToSet(Batch[q]) : q \in Requests} : IsFiniteSet(T)
    BY Batches, ElementsFinite
<1>3. IsFiniteSet(Uploads)
    BY <1>1, <1>2, FS_UNION DEF Uploads
<1>4. IsFiniteSet({ToSet(BlocksOf[u]) : u \in Uploads})
  <2>1. [u \in Uploads |-> ToSet(BlocksOf[u])] \in Surjection(Uploads, {ToSet(BlocksOf[u]) : u \in Uploads})
    BY DEF Surjection
  <2> QED  BY <1>3, <2>1, FS_Surjection
<1>5. \A T \in {ToSet(BlocksOf[u]) : u \in Uploads} : IsFiniteSet(T)
    BY BlockLists, ElementsFinite
<1> QED
    BY <1>3, <1>4, <1>5, FS_UNION DEF Blocks

\* The contracts of a list of blocks, each once, are as many as the blocks.
LEMMA CountBlocks ==
    ASSUME NEW S, NEW s \in Seq(S), IsInjective(s), NEW g,
           NEW t, DOMAIN t = DOMAIN s, \A i \in DOMAIN s : t[i] = g[s[i]], NEW c
    PROVE  Count(t, c) = Cardinality({x \in ToSet(s) : g[x] = c})
<1> DEFINE I == {i \in DOMAIN t : t[i] = c}
           X == {x \in ToSet(s) : g[x] = c}
           f == [i \in I |-> s[i]]
<1>1. IsFiniteSet(I)
  <2>1. DOMAIN s = 1..Len(s) /\ I \in SUBSET (DOMAIN s)
    OBVIOUS
  <2> QED  BY <2>1, FS_Interval, FS_Subset
<1>2. \A i \in I : i \in DOMAIN s /\ f[i] = s[i] /\ s[i] \in X
    BY DEF ToSet
<1>3. \A i, j \in I : f[i] = f[j] => i = j
    BY <1>2 DEF IsInjective
<1>4. \A x \in X : \E i \in I : f[i] = x
    BY DEF ToSet
<1>5. f \in [I -> X]
    BY <1>2
<1> HIDE DEF I, X, f
<1>6. f \in Bijection(I, X)
    BY <1>3, <1>4, <1>5 DEF Bijection, Injection, Surjection, IsInjective
<1>7. Cardinality(X) = Cardinality(I)
    BY <1>1, <1>6, FS_Bijection DEF ExistsBijection
<1> QED
    BY <1>7 DEF Count, I, X

\* Sets that have nothing in common.
LEMMA CardOfBoth ==
    ASSUME NEW S, NEW T, IsFiniteSet(S), IsFiniteSet(T), S \cap T = {}
    PROVE  /\ IsFiniteSet(S \cup T)
           /\ Cardinality(S \cup T) = Cardinality(S) + Cardinality(T)
<1>1. /\ IsFiniteSet(S \cup T)
      /\ Cardinality(S \cup T) = Cardinality(S) + Cardinality(T) - Cardinality({})
    BY FS_Union
<1>2. Cardinality({}) = 0 /\ Cardinality(S) \in Nat /\ Cardinality(T) \in Nat
    BY FS_EmptySet, FS_CardinalityType
<1> QED
    BY <1>1, <1>2

\* A set without some of its elements.
LEMMA CardOfRest ==
    ASSUME NEW S, IsFiniteSet(S), NEW T, T \subseteq S
    PROVE  /\ IsFiniteSet(T) /\ Cardinality(T) \in Nat
           /\ Cardinality(S \ T) = Cardinality(S) - Cardinality(T)
<1>1. IsFiniteSet(T) /\ Cardinality(T) \in Nat
  <2>1. T \in SUBSET S
    OBVIOUS
  <2> QED  BY <2>1, FS_Subset, FS_CardinalityType
<1>2. S \cap T = T
    OBVIOUS
<1>3. Cardinality(S \ T) = Cardinality(S) - Cardinality(S \cap T)
    BY FS_Difference
<1> QED
    BY <1>1, <1>2, <1>3

\* The contracts of two lists.
LEMMA CountConcat ==
    ASSUME NEW S, NEW s \in Seq(S), NEW t \in Seq(S), NEW c
    PROVE  Count(s \o t, c) = Count(s, c) + Count(t, c)
<1> DEFINE l == Len(s)
           A == {i \in DOMAIN s : s[i] = c}
           B == {i \in DOMAIN t : t[i] = c}
           C == {i \in DOMAIN (s \o t) : (s \o t)[i] = c}
           D == C \ A
           f == [i \in B |-> i + l]
<1>1. /\ l \in Nat /\ DOMAIN s = 1..l /\ DOMAIN t = 1..Len(t) /\ Len(t) \in Nat
      /\ DOMAIN (s \o t) = 1..(l + Len(t))
      /\ \A i \in 1..(l + Len(t)) : (s \o t)[i] = IF i <= l THEN s[i] ELSE t[i - l]
    BY ConcatProperties
<1>2. IsFiniteSet(A) /\ IsFiniteSet(B)
    BY CountType
<1>3. A \subseteq C
    BY <1>1
<1>4. \A i \in B : f[i] \in D
  <2> SUFFICES ASSUME NEW i \in B  PROVE i + l \in D
    OBVIOUS
  <2>1. i \in 1..Len(t) /\ t[i] = c
    BY <1>1
  <2>2. i + l \in 1..(l + Len(t)) /\ ~(i + l <= l) /\ (i + l) - l = i
    BY <1>1, <2>1
  <2> QED  BY <1>1, <2>1, <2>2
<1>5. ASSUME NEW i \in D  PROVE \E j \in B : f[j] = i
  <2>1. i \in 1..(l + Len(t)) /\ (s \o t)[i] = c /\ i \notin A
    BY <1>1
  <2>2. ~(i <= l)
    BY <1>1, <2>1
  <2>3. i - l \in DOMAIN t /\ t[i - l] = c /\ (i - l) + l = i
    BY <1>1, <2>1, <2>2
  <2> QED  BY <2>3
<1>6. \A i, j \in B : f[i] = f[j] => i = j
    BY <1>1
<1>7. f \in [B -> D]
    BY <1>4
<1> HIDE DEF A, B, C, D, f, l
<1>8. f \in Bijection(B, D)
    BY <1>5, <1>6, <1>7 DEF Bijection, Injection, Surjection, IsInjective
<1>9. IsFiniteSet(D) /\ Cardinality(D) = Cardinality(B)
    BY <1>2, <1>8, FS_Bijection DEF ExistsBijection
<1>10. C = A \cup D /\ A \cap D = {}
    BY <1>3 DEF D
<1>11. Cardinality(C) = Cardinality(A) + Cardinality(D)
    BY <1>2, <1>9, <1>10, CardOfBoth
<1> QED
    BY <1>9, <1>11 DEF Count, A, B, C

\* The amounts of the ledger are numbers.
Amounts ==
    /\ Held \in [Contracts -> Nat] /\ Used \in [Contracts -> Nat]
    /\ \A c \in Contracts :
          /\ Cardinality(Taken(c, FALSE)) \in Nat /\ Cardinality(Taken(c, TRUE)) \in Nat
          /\ Owed(c) \in Nat /\ free[c] \in Nat
          /\ Held[c] = Cardinality(Taken(c, FALSE)) + Owed(c)
          /\ Used[c] = Cardinality(Taken(c, TRUE))
          /\ \A w \in Workers : Count(worker[w].toReturn, c) \in Nat

\* The blocks whose storage is taken are finitely many.
LEMMA TakenFinite ==
    \A c, x : /\ Taken(c, x) \subseteq Blocks /\ IsFiniteSet(Taken(c, x))
              /\ Cardinality(Taken(c, x)) \in Nat
<1>1. ASSUME NEW c, NEW x
      PROVE  /\ Taken(c, x) \subseteq Blocks /\ IsFiniteSet(Taken(c, x))
             /\ Cardinality(Taken(c, x)) \in Nat
  <2>1. Taken(c, x) \in SUBSET Blocks
    BY DEF Taken
  <2> QED  BY <2>1, FinitelyMany, FS_Subset, FS_CardinalityType
<1> QED
    BY <1>1

\* The state has such amounts.
LEMMA AmountsKnown == Typed => Amounts
<1> SUFFICES ASSUME Typed  PROVE Amounts
    OBVIOUS
<1>1. ASSUME NEW c \in Contracts, NEW w \in Workers  PROVE Count(worker[w].toReturn, c) \in Nat
  <2>1. worker[w].toReturn \in Seq(Contracts)
    BY DEF Typed, Job
  <2> QED  BY <2>1, CountType
<1>2. ASSUME NEW c \in Contracts  PROVE Owed(c) \in Nat
  <2>1. \A w \in Workers : [v \in Workers |-> Count(worker[v].toReturn, c)][w] \in Nat
    BY <1>1
  <2> QED  BY <2>1, SumType, UploadAssumption DEF Owed
<1>3. Held \in [Contracts -> Nat] /\ Used \in [Contracts -> Nat]
  <2>1. ASSUME NEW c \in Contracts
        PROVE  /\ Cardinality(Taken(c, FALSE)) + Owed(c) \in Nat
               /\ Cardinality(Taken(c, TRUE)) \in Nat
    <3>1. Cardinality(Taken(c, FALSE)) \in Nat /\ Cardinality(Taken(c, TRUE)) \in Nat
      BY TakenFinite
    <3>2. PICK n \in Nat, m \in Nat : n = Cardinality(Taken(c, FALSE)) /\ m = Owed(c)
      BY <1>2, <3>1
    <3>3. n + m \in Nat
      OBVIOUS
    <3> QED  BY <3>1, <3>2, <3>3
  <2> QED  BY <2>1 DEF Held, Used
<1> QED
    BY <1>1, <1>2, <1>3, TakenFinite DEF Amounts, Held, Used, Typed

\* The storage that is owed moves with one worker.
LEMMA OwedMoves ==
    ASSUME Typed, Typed', NEW w \in Workers, SameJobs(w), NEW c \in Contracts
    PROVE  Owed(c)' = Owed(c) - Count(worker[w].toReturn, c) + Count(worker'[w].toReturn, c)
<1> DEFINE f == [v \in Workers |-> Count(worker[v].toReturn, c)]
           g == [v \in Workers |-> Count(worker'[v].toReturn, c)]
<1>1. \A v \in Workers : f[v] \in Nat
    BY AmountsKnown DEF Amounts
<1>2. \A v \in Workers : g[v] \in Nat
  <2> SUFFICES ASSUME NEW v \in Workers  PROVE Count(worker'[v].toReturn, c) \in Nat
    OBVIOUS
  <2>1. worker'[v].toReturn \in Seq(Contracts)
    BY DEF Typed, Job
  <2> QED  BY <2>1, CountType
<1>3. \A v \in Workers \ {w} : g[v] = f[v]
    BY DEF SameJobs
<1>4. f[w] = Count(worker[w].toReturn, c) /\ g[w] = Count(worker'[w].toReturn, c)
    OBVIOUS
<1>5. Owed(c) = SumFunctionOnSet(f, Workers) /\ Owed(c)' = SumFunctionOnSet(g, Workers)
    BY DEF Owed, Count
<1> HIDE DEF f, g
<1>6. SumFunctionOnSet(g, Workers) = SumFunctionOnSet(f, Workers) - f[w] + g[w]
  <2>1. \A v \in Workers : f[v] \in Int /\ g[v] \in Int
    BY <1>1, <1>2
  <2>2. IsFiniteSet(Workers) /\ w \in Workers
    BY UploadAssumption
  <2> QED  BY <1>3, <2>1, <2>2, SumChanges
<1> QED
    BY <1>4, <1>5, <1>6

-----------------------------------------------------------------------------
(* The pipeline and the ledger, step by step.                              *)

Same == UNCHANGED <<free, Held, Used>>

\* The same blocks take their storage.
LEMMA TakenKeeps ==
    ASSUME done' = done,
           \A b \in Blocks : /\ block'[b].contract = block[b].contract
                             /\ block'[b].stage \in {"abandoned", "removed"} <=>
                                   block[b].stage \in {"abandoned", "removed"}
    PROVE  \A c, x : Taken(c, x)' = Taken(c, x)
BY DEF Taken

\* The same storage is owed.
LEMMA OwedKeeps ==
    ASSUME \A w \in Workers : worker'[w].toReturn = worker[w].toReturn
    PROVE  \A c : Owed(c)' = Owed(c)
<1>1. ASSUME NEW c
      PROVE  [w \in Workers |-> Count(worker'[w].toReturn, c)]
                = [w \in Workers |-> Count(worker[w].toReturn, c)]
    OBVIOUS
<1> QED
    BY <1>1 DEF Owed, Count

\* A step that leaves the places of blocks and the debts of workers alone is
\* none of the ledger.
LEMMA LedgerKeeps ==
    ASSUME free' = free, done' = done,
           \A w \in Workers : worker'[w].toReturn = worker[w].toReturn,
           \A b \in Blocks : /\ block'[b].contract = block[b].contract
                             /\ block'[b].stage \in {"abandoned", "removed"} <=>
                                   block[b].stage \in {"abandoned", "removed"}
    PROVE  Same
<1>1. \A c, x : Taken(c, x)' = Taken(c, x)
    BY TakenKeeps
<1>2. \A c : Owed(c)' = Owed(c)
    BY OwedKeeps
<1> QED
    BY <1>1, <1>2 DEF Same, Held, Used

\* Storage that moves between the accounts of each contract.
LEMMA MovesWhen ==
    ASSUME Typed, Typed',
           \A c \in Contracts :
              free'[c] + Cardinality(Taken(c, FALSE))' + Owed(c)' + Cardinality(Taken(c, TRUE))'
                = free[c] + Cardinality(Taken(c, FALSE)) + Owed(c) + Cardinality(Taken(c, TRUE))
    PROVE  Ledger!Moved
<1>1. Amounts /\ Amounts'
    BY AmountsKnown, PTL
<1>2. Held' \in [Contracts -> Nat] /\ Used' \in [Contracts -> Nat] /\ free' \in [Contracts -> Nat]
    BY <1>1 DEF Amounts, Typed
<1>3. ASSUME NEW c \in Contracts
      PROVE  free'[c] + Held'[c] + Used'[c] = free[c] + Held[c] + Used[c]
  <2>1. PICK t \in Nat, o \in Nat, u \in Nat, f \in Nat :
           /\ t = Cardinality(Taken(c, FALSE)) /\ o = Owed(c) /\ u = Cardinality(Taken(c, TRUE))
           /\ f = free[c] /\ Held[c] = t + o /\ Used[c] = u
    BY <1>1 DEF Amounts
  <2>2. PICK t1 \in Nat, o1 \in Nat, u1 \in Nat, f1 \in Nat :
           /\ t1 = Cardinality(Taken(c, FALSE))' /\ o1 = Owed(c)' /\ u1 = Cardinality(Taken(c, TRUE))'
           /\ f1 = free'[c] /\ Held'[c] = t1 + o1 /\ Used'[c] = u1
    BY <1>1 DEF Amounts
  <2>3. f1 + t1 + o1 + u1 = f + t + o + u
    BY <2>1, <2>2
  <2>4. f1 + (t1 + o1) + u1 = f + (t + o) + u
    BY <2>3
  <2> QED  BY <2>1, <2>2, <2>4
<1> QED
    BY <1>2, <1>3 DEF Ledger!Moved, Ledger!Account

\* Storage that an upload finds is held by it.
LEMMA LedgerFind ==
    ASSUME Typed, Typed', Handed, Jobs, Placed, NEW w \in Workers, FindStorage(w)
    PROVE  Same \/ Ledger!Find
<1>1. PICK j \in Job : j = worker[w] /\ j \in Job
    BY DEF Typed
<1>2. /\ j.pc = "finding" /\ j.upload \in Uploads /\ j.upload \notin done
      /\ j.pending \in Seq(Blocks) /\ IsInjective(j.pending)
      /\ ToSet(j.pending) \subseteq ToSet(BlocksOf[j.upload])
      /\ \A b \in ToSet(j.pending) : b \in Blocks /\ block[b] = Unplaced /\ Owner(b) = j.upload
  <2>1. j.pc = "finding" /\ j.upload \in Uploads /\ j.pending \in Seq(Blocks)
    BY <1>1 DEF FindStorage, Handed, Job
  <2>2. /\ j.upload \notin done /\ IsInjective(j.pending)
        /\ ToSet(j.pending) \subseteq ToSet(BlocksOf[j.upload])
        /\ \A b \in ToSet(j.pending) : block[b] = Unplaced
    BY <1>1, <2>1 DEF Jobs, JobOK, Rounds
  <2> QED  BY <2>1, <2>2, BlockLists
<1>3. \A v \in Workers : worker'[v].toReturn = worker[v].toReturn
  <2>1. SameJobs(w) /\ worker'[w].toReturn = worker[w].toReturn
    BY FindOn
  <2> QED  BY <2>1 DEF SameJobs
<1>4. done' = done
    BY DEF FindStorage
<1>5. CASE UNCHANGED <<free, block>>
    BY <1>3, <1>4, <1>5, LedgerKeeps
<1>6. ASSUME NEW place \in [DOMAIN j.pending -> Open(w)],
             \A c \in Contracts : Count(place, c) <= free[c],
             free' = [c \in Contracts |-> free[c] - Count(place, c)],
             block' = [b \in Blocks |->
                       IF \E i \in DOMAIN j.pending : j.pending[i] = b
                       THEN [stage |-> "placed",
                             contract |-> place[CHOOSE i \in DOMAIN j.pending : j.pending[i] = b]]
                       ELSE block[b]]
      PROVE  Ledger!Find
  <2> DEFINE g == [b \in Blocks |-> block'[b].contract]
             X(c) == {b \in ToSet(j.pending) : g[b] = c}
  <2>1. place \in Seq(Contracts)
    BY <1>2, <1>6 DEF Open
  <2>2. ASSUME NEW i \in DOMAIN j.pending
        PROVE  /\ place[i] = g[j.pending[i]]
    <3>1. j.pending[i] \in Blocks /\ \E k \in DOMAIN j.pending : j.pending[k] = j.pending[i]
      BY <1>2
    <3>2. (CHOOSE k \in DOMAIN j.pending : j.pending[k] = j.pending[i]) = i
      BY <1>2 DEF IsInjective
    <3> QED  BY <1>6, <3>1, <3>2
  <2>3. \A b \in ToSet(j.pending) : b \in Blocks /\ block'[b].stage = "placed"
    BY <1>2, <1>6 DEF ToSet
  <2>4. \A b \in Blocks \ ToSet(j.pending) : block'[b] = block[b]
    BY <1>6 DEF ToSet
  <2>5. ASSUME NEW c \in Contracts  PROVE Cardinality(X(c)) = Count(place, c)
    <3>1. \A i \in DOMAIN j.pending : place[i] = g[j.pending[i]]
      BY <2>2
    <3>2. DOMAIN place = DOMAIN j.pending
      OBVIOUS
    <3> HIDE DEF g
    <3> QED  BY <1>2, <3>1, <3>2, CountBlocks
  <2>6. ASSUME NEW c \in Contracts
        PROVE  /\ Taken(c, TRUE)' = Taken(c, TRUE)
               /\ Taken(c, FALSE)' = Taken(c, FALSE) \cup X(c)
               /\ Taken(c, FALSE) \cap X(c) = {}
    <3>1. \A b \in ToSet(j.pending) : /\ b \in Blocks /\ block[b].contract # c
                                      /\ ((Owner(b) \in done) = FALSE) /\ g[b] = block'[b].contract
      BY <1>2, UploadAssumption DEF Unplaced
    <3>2. \A b \in Blocks \ ToSet(j.pending) : block'[b] = block[b]
      BY <2>4
    <3> HIDE DEF g
    <3>3. \A b : b \in Taken(c, TRUE)' <=> b \in Taken(c, TRUE)
      BY <1>4, <3>1, <3>2 DEF Taken
    <3>4. \A b : b \in Taken(c, FALSE)' <=> b \in Taken(c, FALSE) \cup X(c)
      BY <1>4, <2>3, <3>1, <3>2 DEF Taken
    <3>5. Taken(c, FALSE) \cap X(c) = {}
      BY <3>1 DEF Taken
    <3> QED  BY <3>3, <3>4, <3>5
  <2>7. \A c : Owed(c)' = Owed(c)
    BY <1>3, OwedKeeps
  <2>8. ASSUME NEW c \in Contracts
        PROVE  /\ free'[c] + Cardinality(Taken(c, FALSE))' + Owed(c)' + Cardinality(Taken(c, TRUE))'
                     = free[c] + Cardinality(Taken(c, FALSE)) + Owed(c) + Cardinality(Taken(c, TRUE))
               /\ free'[c] <= free[c]
               /\ Cardinality(Taken(c, TRUE))' = Cardinality(Taken(c, TRUE))
    <3>1. IsFiniteSet(X(c))
      <4>1. IsFiniteSet(ToSet(j.pending)) /\ X(c) \in SUBSET ToSet(j.pending)
        BY <1>2, ElementsFinite
      <4> QED  BY <4>1, FS_Subset
    <3> HIDE DEF X
    <3>2. Cardinality(Taken(c, FALSE))' = Cardinality(Taken(c, FALSE)) + Cardinality(X(c))
      BY <2>6, <3>1, TakenFinite, CardOfBoth
    <3>3. PICK t \in Nat, o \in Nat, u \in Nat, f \in Nat, n \in Nat :
             /\ t = Cardinality(Taken(c, FALSE)) /\ o = Owed(c) /\ u = Cardinality(Taken(c, TRUE))
             /\ f = free[c] /\ n = Count(place, c)
      BY <2>1, CountType, AmountsKnown DEF Amounts
    <3>4. free'[c] = f - n /\ Cardinality(Taken(c, FALSE))' = t + n /\ Owed(c)' = o
      BY <1>6, <2>5, <2>7, <3>2, <3>3
    <3>5. Cardinality(Taken(c, TRUE))' = u
      BY <2>6, <3>3
    <3>6. f - n + (t + n) + o + u = f + t + o + u /\ f - n <= f
      OBVIOUS
    <3> QED  BY <3>3, <3>4, <3>5, <3>6
  <2>9. Ledger!Moved
    BY <2>8, MovesWhen
  <2>10. Used' = Used
    BY <2>8 DEF Used
  <2> QED  BY <2>8, <2>9, <2>10 DEF Ledger!Find
<1> QED
    BY <1>1, <1>5, <1>6 DEF FindStorage

\* Storage of blocks that failed stays held, until it is returned.
LEMMA LedgerCollect ==
    ASSUME Typed, Typed', Handed, Jobs, Placed, NEW w \in Workers, Collect(w)
    PROVE  Same
<1>1. PICK j \in Job, s \in Job : j = worker[w] /\ s = worker'[w] /\ j \in Job /\ s \in Job
    BY DEF Typed
<1>2. PICK f : f = Failures(w)
    OBVIOUS
<1> DEFINE back == [i \in DOMAIN f |-> block[f[i]].contract]
           g == [b \in Blocks |-> block[b].contract]
           X(c) == {b \in ToSet(f) : g[b] = c}
<1>3. /\ f \in Seq(Blocks) /\ ToSet(f) = {b \in ToSet(j.pending) : block[b].stage = "bad"}
      /\ IsInjective(j.pending) => IsInjective(f)
      /\ back \in Seq(Contracts) /\ s.toReturn = j.toReturn \o back
      /\ SameJobs(w) /\ SameBlocks(ToSet(f)) /\ \A b \in ToSet(f) : block'[b] = Unplaced
      /\ j.pc = "waiting"
    BY <1>1, <1>2, CollectOn
<1>4. /\ IsInjective(f) /\ j.upload \notin done
      /\ \A b \in ToSet(f) : b \in Blocks /\ Owner(b) = j.upload
  <2>1. j.upload \in Uploads /\ j.upload \notin done /\ Rounds(w)
    BY <1>1, <1>3 DEF Jobs, JobOK, Handed
  <2>2. ToSet(f) \subseteq ToSet(BlocksOf[j.upload]) /\ IsInjective(f)
    BY <1>1, <1>3, <2>1 DEF Rounds
  <2> QED  BY <2>1, <2>2, BlockLists
<1>5. /\ done' = done /\ free' = free
    BY DEF Collect, CollectAvoiding
<1>6. ASSUME NEW c \in Contracts  PROVE Count(back, c) = Cardinality(X(c))
  <2>1. \A i \in DOMAIN f : back[i] = g[f[i]]
    BY <1>3
  <2>2. DOMAIN back = DOMAIN f
    OBVIOUS
  <2>3. f \in Seq(Blocks) /\ IsInjective(f)
    BY <1>3, <1>4
  <2> HIDE DEF back, g
  <2> QED  BY <2>1, <2>2, <2>3, CountBlocks
<1>7. ASSUME NEW c \in Contracts
      PROVE  /\ Taken(c, TRUE)' = Taken(c, TRUE)
             /\ X(c) \subseteq Taken(c, FALSE)
             /\ Taken(c, FALSE)' = Taken(c, FALSE) \ X(c)
  <2>1. \A b \in ToSet(f) : /\ b \in Blocks /\ block'[b].contract # c
                            /\ block[b].stage = "bad"
                            /\ ((Owner(b) \in done) = FALSE) /\ g[b] = block[b].contract
    BY <1>3, <1>4, UploadAssumption DEF Unplaced
  <2>2. \A b \in Blocks \ ToSet(f) : block'[b] = block[b]
    BY <1>3 DEF SameBlocks
  <2> HIDE DEF g
  <2>3. \A b : b \in Taken(c, TRUE)' <=> b \in Taken(c, TRUE)
    BY <1>5, <2>1, <2>2 DEF Taken
  <2>4. \A b : b \in Taken(c, FALSE)' <=> b \in Taken(c, FALSE) \ X(c)
    BY <1>5, <2>1, <2>2 DEF Taken
  <2>5. X(c) \subseteq Taken(c, FALSE)
    BY <2>1 DEF Taken
  <2> QED  BY <2>3, <2>4, <2>5
<1>8. ASSUME NEW c \in Contracts
      PROVE  Held'[c] = Held[c] /\ Used'[c] = Used[c]
  <2>1. /\ Cardinality(Taken(c, FALSE))' = Cardinality(Taken(c, FALSE)) - Cardinality(X(c))
        /\ Cardinality(X(c)) \in Nat
    BY <1>7, TakenFinite, CardOfRest
  <2>2. Count(s.toReturn, c) = Count(j.toReturn, c) + Cardinality(X(c))
    <3>1. j.toReturn \in Seq(Contracts) /\ back \in Seq(Contracts)
      BY <1>3 DEF Job
    <3> HIDE DEF back
    <3>2. Count(j.toReturn \o back, c) = Count(j.toReturn, c) + Count(back, c)
      BY <3>1, CountConcat
    <3>3. s.toReturn = j.toReturn \o back /\ Count(back, c) = Cardinality(X(c))
      BY <1>3, <1>6
    <3> QED  BY <3>2, <3>3
  <2>3. Owed(c)' = Owed(c) - Count(j.toReturn, c) + Count(s.toReturn, c)
    BY <1>1, <1>3, OwedMoves
  <2> HIDE DEF X
  <2>4. PICK t \in Nat, o \in Nat, m \in Nat, n \in Nat :
           /\ t = Cardinality(Taken(c, FALSE)) /\ o = Owed(c)
           /\ m = Count(j.toReturn, c) /\ n = Cardinality(X(c))
    BY <1>1, <2>1, AmountsKnown DEF Amounts
  <2>5. Cardinality(Taken(c, FALSE))' + Owed(c)' = Cardinality(Taken(c, FALSE)) + Owed(c)
    <3>1. (t - n) + (o - m + (m + n)) = t + o
      OBVIOUS
    <3> QED  BY <2>1, <2>2, <2>3, <2>4, <3>1
  <2> QED  BY <1>7, <2>5 DEF Held, Used
<1>9. Held' = Held /\ Used' = Used
  <2>1. Amounts /\ Amounts'
    BY AmountsKnown, PTL
  <2> QED  BY <1>8, <2>1 DEF Amounts
<1> QED
    BY <1>5, <1>9 DEF Same

\* When an upload ends, what it owes and what it gave up is free again, and
\* the rest of what it held is in use.
LEMMA LedgerSettle ==
    ASSUME Typed, Typed', Handed, Jobs, Placed, NEW w \in Workers, Settle(w)
    PROVE  Ledger!Settle
<1>1. PICK j \in Job, s \in Job : j = worker[w] /\ s = worker'[w] /\ j \in Job /\ s \in Job
    BY DEF Typed
<1> DEFINE X(c) == {b \in GivenUp(w) : block[b].contract = c}
           M(c) == {b \in Taken(c, FALSE) : Owner(b) = j.upload}
<1>2. /\ j.pc = "settling" /\ j.upload \in Uploads /\ s.toReturn = <<>> /\ SameJobs(w)
      /\ done' = done \cup {j.upload}
      /\ GivenUp(w) \subseteq ToSet(BlocksOf[j.upload]) /\ GivenUp(w) \subseteq Blocks
      /\ \A b \in GivenUp(w) : block[b].stage = "ok"
      /\ SameBlocks(GivenUp(w))
      /\ \A b \in GivenUp(w) : /\ block'[b].stage = "abandoned"
                               /\ block'[b].contract = block[b].contract
    BY <1>1, SettleOn
<1>3. j.upload \notin done /\ \A b \in GivenUp(w) : Owner(b) = j.upload
  <2>1. j.upload \notin done
    BY <1>1, <1>2 DEF Jobs, JobOK
  <2> QED  BY <1>2, <2>1, BlockLists
<1>4. free' = [c \in Contracts |-> free[c] + Count(j.toReturn, c) + Cardinality(X(c))]
    BY <1>1 DEF Settle, SettleReturning
<1>5. ASSUME NEW c \in Contracts
      PROVE  /\ X(c) \subseteq M(c) /\ M(c) \subseteq Taken(c, FALSE)
             /\ Taken(c, FALSE)' = Taken(c, FALSE) \ M(c)
             /\ Taken(c, TRUE)' = Taken(c, TRUE) \cup (M(c) \ X(c))
             /\ Taken(c, TRUE) \cap (M(c) \ X(c)) = {}
  <2>1. \A b \in Blocks \ GivenUp(w) : block'[b] = block[b]
    BY <1>2 DEF SameBlocks
  <2>2. \A b : ((Owner(b) \in done') = TRUE) <=> (Owner(b) \in done \/ Owner(b) = j.upload)
    BY <1>2
  <2>3. \A b : ((Owner(b) \in done') = FALSE) <=> (Owner(b) \notin done /\ Owner(b) # j.upload)
    BY <1>2
  <2>4. \A b : /\ ((Owner(b) \in done) = TRUE) <=> Owner(b) \in done
               /\ ((Owner(b) \in done) = FALSE) <=> Owner(b) \notin done
    OBVIOUS
  <2>5. \A b : b \in Taken(c, FALSE)' <=> b \in Taken(c, FALSE) \ M(c)
    BY <1>2, <1>3, <2>1, <2>3, <2>4 DEF Taken
  <2>6. \A b : b \in Taken(c, TRUE)' <=> b \in Taken(c, TRUE) \cup (M(c) \ X(c))
    BY <1>2, <1>3, <2>1, <2>2, <2>4 DEF Taken
  <2>7. X(c) \subseteq M(c)
    BY <1>2, <1>3, <2>4 DEF Taken
  <2>8. Taken(c, TRUE) \cap (M(c) \ X(c)) = {}
    BY <1>3, <2>4 DEF Taken
  <2> QED  BY <2>5, <2>6, <2>7, <2>8
<1>6. ASSUME NEW c \in Contracts
      PROVE  /\ free'[c] + Cardinality(Taken(c, FALSE))' + Owed(c)' + Cardinality(Taken(c, TRUE))'
                  = free[c] + Cardinality(Taken(c, FALSE)) + Owed(c) + Cardinality(Taken(c, TRUE))
             /\ free[c] <= free'[c] /\ Used[c] <= Used'[c]
  <2>1. /\ IsFiniteSet(M(c)) /\ Cardinality(M(c)) \in Nat
        /\ Cardinality(Taken(c, FALSE))' = Cardinality(Taken(c, FALSE)) - Cardinality(M(c))
    BY <1>5, TakenFinite, CardOfRest
  <2>2. /\ Cardinality(X(c)) \in Nat
        /\ Cardinality(M(c) \ X(c)) = Cardinality(M(c)) - Cardinality(X(c))
    BY <1>5, <2>1, CardOfRest
  <2>3. IsFiniteSet(M(c) \ X(c)) /\ Cardinality(M(c) \ X(c)) \in Nat
    <3>1. (M(c) \ X(c)) \in SUBSET M(c)
      OBVIOUS
    <3> QED  BY <2>1, <3>1, FS_Subset, FS_CardinalityType
  <2>4. Cardinality(Taken(c, TRUE))' = Cardinality(Taken(c, TRUE)) + Cardinality(M(c) \ X(c))
    BY <1>5, <2>3, TakenFinite, CardOfBoth
  <2>5. Count(s.toReturn, c) = 0
    <3>1. {i \in DOMAIN <<>> : <<>>[i] = c} = {}
      OBVIOUS
    <3> QED  BY <1>2, <3>1, FS_EmptySet DEF Count
  <2>6. Owed(c)' = Owed(c) - Count(j.toReturn, c) + Count(s.toReturn, c)
    BY <1>1, <1>2, OwedMoves
  <2>7. PICK t \in Nat, o \in Nat, u \in Nat, f \in Nat, n \in Nat :
           /\ t = Cardinality(Taken(c, FALSE)) /\ o = Owed(c) /\ u = Cardinality(Taken(c, TRUE))
           /\ f = free[c] /\ n = Count(j.toReturn, c)
    BY <1>1, AmountsKnown DEF Amounts
  <2>8. PICK m \in Nat, x \in Nat : m = Cardinality(M(c)) /\ x = Cardinality(X(c))
    BY <2>1, <2>2
  <2>9. m - x \in Nat
    BY <2>2, <2>3, <2>8
  <2>10. free'[c] = f + n + x
    BY <1>4, <2>7, <2>8
  <2> HIDE DEF X, M
  <2>11. Cardinality(Taken(c, FALSE))' = t - m /\ Cardinality(Taken(c, TRUE))' = u + (m - x)
    BY <2>1, <2>2, <2>4, <2>7, <2>8
  <2>12. Owed(c)' = o - n + 0
    BY <2>5, <2>6, <2>7
  <2>13. /\ (f + n + x) + (t - m) + (o - n + 0) + (u + (m - x)) = f + t + o + u
         /\ f <= f + n + x /\ u <= u + (m - x)
    BY <2>9
  <2>14. Used[c] = u /\ Used'[c] = u + (m - x)
    BY <2>7, <2>11 DEF Used
  <2> QED  BY <2>7, <2>10, <2>11, <2>12, <2>13, <2>14
<1>7. Ledger!Moved
    BY <1>6, MovesWhen
<1> QED
    BY <1>6, <1>7 DEF Ledger!Settle

\* A block that is removed is in use no more.
LEMMA LedgerRemove ==
    ASSUME Typed, Typed', Placed, Asked, NEW q \in Requests, RemoveBlock(q)
    PROVE  Same \/ Ledger!Reclaim
<1>1. PICK b \in Blocks :
         /\ Owner(b) \in done /\ block[b].stage = "ok" /\ block[b].contract \in Contracts
         /\ SameBlocks({b}) /\ block'[b].contract = block[b].contract
         /\ \/ /\ block'[b].stage = "removed"
               /\ free' = [free EXCEPT ![block[b].contract] = @ + 1]
            \/ block'[b].stage = "stranded" /\ free' = free
  <2>1. PICK s \in Request : s = request[q]
    BY DEF Typed
  <2>2. PICK b \in Blocks : b = Head(s.todo) /\ b \in ToSet(s.todo) /\ s.pc = "undoing"
    BY <2>1, RemoveOn
  <2>3. Owner(b) \in done
    BY <2>1, <2>2 DEF Asked, Undoes
  <2>4. /\ block[b].stage = "ok" /\ block[b].contract \in Contracts
        /\ SameBlocks({b}) /\ block'[b].contract = block[b].contract
        /\ \/ /\ block'[b].stage = "removed"
              /\ free' = [free EXCEPT ![block[b].contract] = @ + 1]
           \/ block'[b].stage = "stranded" /\ free' = free
    BY <2>1, <2>2, RemoveOn
  <2> QED  BY <2>3, <2>4
<1>2. done' = done /\ worker' = worker
    BY DEF RemoveBlock
<1>3. \A a \in Blocks : a # b => block'[a] = block[a]
    BY <1>1 DEF SameBlocks
<1>4. CASE block'[b].stage = "stranded" /\ free' = free
    BY <1>1, <1>2, <1>3, <1>4, LedgerKeeps
<1>5. CASE /\ block'[b].stage = "removed"
           /\ free' = [free EXCEPT ![block[b].contract] = @ + 1]
  <2>1. PICK d \in Contracts : d = block[b].contract
    BY <1>1
  <2>2. \A c : Owed(c)' = Owed(c)
    BY <1>2, OwedKeeps
  <2>3. \A c \in Contracts : /\ Taken(c, FALSE)' = Taken(c, FALSE)
                             /\ c # d => Taken(c, TRUE)' = Taken(c, TRUE)
    BY <1>1, <1>2, <1>3, <1>5, <2>1 DEF Taken
  <2>4. b \in Taken(d, TRUE) /\ Taken(d, TRUE)' = Taken(d, TRUE) \ {b}
    BY <1>1, <1>2, <1>3, <1>5, <2>1 DEF Taken
  <2>5. Cardinality(Taken(d, TRUE))' = Cardinality(Taken(d, TRUE)) - 1
    BY <2>4, TakenFinite, FS_RemoveElement
  <2>6. ASSUME NEW c \in Contracts
        PROVE  /\ free'[c] + Cardinality(Taken(c, FALSE))' + Owed(c)' + Cardinality(Taken(c, TRUE))'
                    = free[c] + Cardinality(Taken(c, FALSE)) + Owed(c) + Cardinality(Taken(c, TRUE))
               /\ Held'[c] = Held[c] /\ Used'[c] <= Used[c]
    <3>1. PICK t \in Nat, o \in Nat, u \in Nat, f \in Nat :
             /\ t = Cardinality(Taken(c, FALSE)) /\ o = Owed(c) /\ u = Cardinality(Taken(c, TRUE))
             /\ f = free[c]
      BY AmountsKnown DEF Amounts
    <3>2. Cardinality(Taken(c, FALSE))' = t /\ Owed(c)' = o
      BY <2>2, <2>3, <3>1
    <3>3. CASE c = d
      <4>1. free'[c] = f + 1
        BY <1>5, <2>1, <3>1, <3>3 DEF Typed
      <4>2. Cardinality(Taken(c, TRUE))' = u - 1
        BY <2>5, <3>1, <3>3
      <4>3. (f + 1) + t + o + (u - 1) = f + t + o + u /\ u - 1 <= u
        OBVIOUS
      <4>4. Used[c] = u /\ Used'[c] = u - 1 /\ Held[c] = t + o /\ Held'[c] = t + o
        BY <3>1, <3>2, <4>2 DEF Used, Held
      <4> QED  BY <3>1, <3>2, <4>1, <4>2, <4>3, <4>4
    <3>4. CASE c # d
      <4>1. free'[c] = f
        BY <1>5, <2>1, <3>1, <3>4 DEF Typed
      <4>2. Cardinality(Taken(c, TRUE))' = u
        BY <2>3, <3>1, <3>4
      <4>3. Used[c] = u /\ Used'[c] = u /\ Held[c] = t + o /\ Held'[c] = t + o
        BY <3>1, <3>2, <4>2 DEF Used, Held
      <4>4. u <= u
        OBVIOUS
      <4> QED  BY <3>1, <3>2, <4>1, <4>2, <4>3, <4>4
    <3> QED  BY <3>3, <3>4
  <2>7. Ledger!Moved
    BY <2>6, MovesWhen
  <2>8. Held' = Held
    <3>1. Amounts /\ Amounts'
      BY AmountsKnown, PTL
    <3>2. \A c \in Contracts : Held'[c] = Held[c]
      BY <2>6
    <3> QED  BY <3>1, <3>2 DEF Amounts
  <2> QED  BY <2>6, <2>7, <2>8 DEF Ledger!Reclaim
<1> QED
    BY <1>1, <1>4, <1>5

\* Every step is one of the ledger, or none that it sees.
LEMMA LedgerStep ==
    ASSUME IInv, IInv', [Next]_vars
    PROVE  Same \/ Ledger!Next
<1> USE DEF IInv
<1>1. ASSUME UNCHANGED <<worker, block, done, free>>  PROVE Same
    BY <1>1, LedgerKeeps
<1>2. ASSUME NEW w \in Workers, Hand(w)  PROVE Same
  <2>1. /\ SameJobs(w) /\ worker'[w].toReturn = worker[w].toReturn
    BY <1>2, HandOn
  <2>2. UNCHANGED <<block, done, free>>
    BY <1>2 DEF Hand, HandUpTo
  <2> QED  BY <2>1, <2>2, LedgerKeeps DEF SameJobs
<1>3. ASSUME NEW w \in Workers, Finish(w)  PROVE Same
  <2>1. SameJobs(w) /\ worker[w].pc = "reporting" /\ worker'[w] = IdleWorker
    BY <1>3, FinishOn
  <2>2. worker[w].toReturn = <<>>
    BY <2>1 DEF Jobs, JobOK
  <2>3. worker'[w].toReturn = <<>>
    BY <2>1 DEF IdleWorker
  <2>4. UNCHANGED <<block, done, free>>
    BY <1>3 DEF Finish, FinishWith
  <2> QED  BY <2>1, <2>2, <2>3, <2>4, LedgerKeeps DEF SameJobs
<1>4. ASSUME NEW w \in Workers, PrepareUpload(w)  PROVE Same
  <2>1. SameJobs(w) /\ worker'[w].toReturn = worker[w].toReturn
    BY <1>4, PrepareOn
  <2>2. UNCHANGED <<block, done, free>>
    BY <1>4 DEF PrepareUpload
  <2> QED  BY <2>1, <2>2, LedgerKeeps DEF SameJobs
<1>5. ASSUME NEW w \in Workers, Queue(w)  PROVE Same
  <2>1. PICK b \in Blocks :
           /\ SameJobs(w) /\ worker'[w].toReturn = worker[w].toReturn
           /\ SameBlocks({b}) /\ block'[b].stage = "scheduled"
           /\ block'[b].contract = block[b].contract /\ block[b].stage = "placed"
    <3>1. PICK j \in Job : j = worker[w]
      BY DEF Typed
    <3>2. PICK b \in Blocks : b = j.pending[j.next] /\ j.pc = "queueing" /\ j.next \in DOMAIN j.pending
      BY <1>5, <3>1, QueueOn
    <3>3. block[b].stage = "placed"
      <4>1. ~(j.next < j.next)
        BY DEF Job
      <4> QED  BY <3>1, <3>2, <4>1 DEF Jobs, JobOK
    <3> QED  BY <1>5, <3>1, <3>2, <3>3, QueueOn
  <2>2. UNCHANGED <<done, free>>
    BY <1>5 DEF Queue
  <2> QED  BY <2>1, <2>2, LedgerKeeps DEF SameJobs, SameBlocks
<1>6. CASE UploadThread
    BY <1>1, <1>2, <1>3, <1>6 DEF UploadThread, Accept, PollNothing, ResetProviderConns
<1>7. ASSUME NEW w \in Workers, FileUploadWorker(w)  PROVE Same \/ Ledger!Next
    BY <1>4, <1>5, <1>7, LedgerFind, LedgerCollect, LedgerSettle DEF FileUploadWorker, Ledger!Next
<1>8. CASE Dial \/ \E p \in Providers : AuthorizeRenter(p)
    BY <1>1, <1>8 DEF Dial, AuthorizeRenter
<1>9. CASE Forward
  <2>1. PICK b \in Blocks :
           /\ SameBlocks({b}) /\ block[b].stage = "scheduled" /\ block'[b].stage = "sending"
           /\ block'[b].contract = block[b].contract
    BY <1>9, ForwardOn
  <2>2. UNCHANGED <<worker, done, free>>
    BY <1>9 DEF Forward
  <2> QED  BY <2>1, <2>2, LedgerKeeps DEF SameBlocks
<1>10. ASSUME NEW p \in Providers, NEW b \in Blocks, PutBlock(p, b)  PROVE Same
  <2>1. /\ SameBlocks({b}) /\ block[b].stage = "sending" /\ block'[b].stage \in {"ok", "bad"}
        /\ block'[b].contract = block[b].contract
    BY <1>10, PutOn
  <2>2. UNCHANGED <<worker, done, free>>
    BY <1>10 DEF PutBlock
  <2> QED  BY <2>1, <2>2, LedgerKeeps DEF SameBlocks
<1>11. ASSUME NEW q \in Requests, Upload(q) \/ RequestThread(q)  PROVE Same \/ Ledger!Next
    BY <1>1, <1>11, LedgerRemove DEF Upload, RequestThread, AwaitUploads, MakeNewFile, SaveFile,
       ReturnError, Ledger!Next
<1>12. CASE UNCHANGED vars
    BY <1>1, <1>12 DEF vars
<1> QED
    BY <1>6, <1>7, <1>8, <1>9, <1>10, <1>11, <1>12
    DEF Next, BlockUploadScheduleThread, BlockUploadThread

\* All storage is free.
LEMMA LedgerInit == Init => Ledger!Init
<1> SUFFICES ASSUME Init  PROVE Ledger!Init
    OBVIOUS
<1>1. ASSUME NEW c \in Contracts  PROVE Held[c] = 0 /\ Used[c] = 0
  <2>1. Taken(c, FALSE) = {} /\ Taken(c, TRUE) = {}
    BY UploadAssumption DEF Init, Taken, Unplaced
  <2>2. \A w \in Workers : [v \in Workers |-> Count(worker[v].toReturn, c)][w] = 0
    <3> SUFFICES ASSUME NEW w \in Workers  PROVE Count(worker[w].toReturn, c) = 0
      OBVIOUS
    <3>1. worker[w].toReturn = <<>>
      BY DEF Init, IdleWorker
    <3>2. {i \in DOMAIN <<>> : <<>>[i] = c} = {}
      OBVIOUS
    <3> QED  BY <3>1, <3>2, FS_EmptySet DEF Count
  <2>3. Owed(c) = 0
    BY <2>2, SumOfZeros, UploadAssumption DEF Owed
  <2>4. Cardinality(Taken(c, FALSE)) = 0 /\ Cardinality(Taken(c, TRUE)) = 0
    BY <2>1, FS_EmptySet
  <2>5. 0 + 0 = 0
    OBVIOUS
  <2> QED  BY <2>3, <2>4, <2>5 DEF Held, Used
<1>2. /\ Held = [c \in Contracts |-> 0] /\ Used = [c \in Contracts |-> 0]
    BY <1>1 DEF Held, Used
<1>3. free = [c \in Contracts |-> IF c \in Contracts THEN Capacity[c] ELSE 0]
    BY UploadAssumption DEF Init
<1> QED
    BY <1>2, <1>3 DEF Ledger!Init

\* The pipeline implements the storage ledger: with retries, failures and
\* removals in any order, every unit of storage is returned or used once.
THEOREM LedgerImplemented == Spec => ImplementsLedger
<1>1. IInv /\ IInv' /\ [Next]_vars => [Ledger!Next]_(Ledger!ledger)
    BY LedgerStep DEF Same, Ledger!ledger
<1> QED
    BY <1>1, LedgerInit, IInvHolds, PTL DEF Spec, ImplementsLedger, Ledger!Spec

\* A step of the ledger leaves what a contract has in all: bytes move, and no
\* contract is new.
LEMMA SumsStay ==
    ASSUME NEW c \in Contracts, [Ledger!Next]_(Ledger!ledger)
    PROVE  free'[c] + Held'[c] + Used'[c] = free[c] + Held[c] + Used[c]
<1>1. CASE Ledger!Reserve
    BY <1>1 DEF Ledger!Reserve
<1>2. CASE Ledger!Moved
    BY <1>2 DEF Ledger!Moved
<1>3. CASE UNCHANGED Ledger!ledger
    BY <1>3 DEF Ledger!ledger
<1> QED
    BY <1>1, <1>2, <1>3 DEF Ledger!Next, Ledger!Find, Ledger!Settle, Ledger!Reclaim

\* So the storage of every contract is free, held or used, and no more is
\* ever free than was reserved.
LEMMA StorageConserved == Spec => []Ledger!Conserved
<1>1. Init => Ledger!Conserved
  <2> SUFFICES ASSUME Init, NEW c \in Contracts
               PROVE  free[c] + Held[c] + Used[c] = Capacity[c]
    BY DEF Ledger!Conserved
  <2>1. free[c] = Capacity[c] /\ Held[c] = 0 /\ Used[c] = 0
    BY LedgerInit DEF Ledger!Init
  <2> QED  BY <2>1, UploadAssumption
<1>2. IInv /\ IInv' /\ Ledger!Conserved /\ [Next]_vars => Ledger!Conserved'
  <2> SUFFICES ASSUME IInv, IInv', Ledger!Conserved, [Next]_vars
               PROVE  Ledger!Conserved'
    OBVIOUS
  <2>1. [Ledger!Next]_(Ledger!ledger)
    BY LedgerStep DEF Same, Ledger!ledger
  <2>2. ASSUME NEW c \in Contracts
        PROVE  free'[c] + Held'[c] + Used'[c] = free[c] + Held[c] + Used[c]
    BY <2>1, SumsStay
  <2> QED  BY <2>2 DEF Ledger!Conserved
<1> QED
    BY <1>1, <1>2, IInvHolds, PTL DEF Spec

\* The state has its type; activeUploads stays within the workers, and no
\* freelist entry above the space of its contract (upload.go:380-420,
\* storage.go).
THEOREM TypeCorrect == Spec => []TypeOK
<1>1. IInv /\ Ledger!Conserved => TypeOK
  <2> SUFFICES ASSUME IInv, Ledger!Conserved  PROVE TypeOK
    OBVIOUS
  <2> USE DEF IInv
  <2>1. active \in 0..Cardinality(Workers)
    <3>1. Busy \in SUBSET Workers
      BY DEF Busy
    <3>2. Cardinality(Busy) \in Nat /\ Cardinality(Busy) <= Cardinality(Workers)
      BY <3>1, UploadAssumption, FS_Subset, FS_CardinalityType
    <3>3. Cardinality(Workers) \in Nat
      BY UploadAssumption, FS_CardinalityType
    <3> QED  BY <3>2, <3>3 DEF Counted
  <2>2. ASSUME NEW c \in Contracts  PROVE free[c] \in 0..Capacity[c]
    <3>1. PICK f \in Nat, h \in Nat, u \in Nat, k \in Nat :
             f = free[c] /\ h = Held[c] /\ u = Used[c] /\ k = Capacity[c]
      BY AmountsKnown, UploadAssumption DEF Amounts, Typed
    <3>2. f + h + u = k
      BY <3>1 DEF Ledger!Conserved
    <3> QED  BY <3>1, <3>2
  <2> QED  BY <2>1, <2>2 DEF TypeOK, Typed, Request, Job, Place
<1> QED
    BY <1>1, IInvHolds, StorageConserved, PTL
=============================================================================
