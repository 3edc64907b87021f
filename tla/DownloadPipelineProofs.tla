---------------------- MODULE DownloadPipelineProofs -----------------------
(***************************************************************************)
(* The safety of the downloads, for any number of requests, downloads,     *)
(* blocks and providers, and any limits.  The parts of the invariant:      *)
(*                                                                         *)
(*   Staged    the thread starts a download once;                          *)
(*   Counted   its counters are the number and the data blocks of the      *)
(*             downloads it has started and not heard of: LimitsKept,      *)
(*             QuietClose;                                                 *)
(*   Aligned   the blocks of a download in order, next to the failures     *)
(*             they make up for: AlignedShards;                            *)
(*   Routed    a block is in one queue or one hand at a time;              *)
(*   Answered  it is fetched once, after it was sent;                      *)
(*   Tallied   pending and failed are what they count: TypeCorrect and,    *)
(*             with Aligned, EarnedSuccess.                                *)
(***************************************************************************)
EXTENDS DownloadPipeline, DataLemmas, TLAPS

\* A download, its counters as numbers of any sign.
Row == [pc : Working \cup {"none", "reporting", "over"}, shards : Seq(Nat \ {0}),
        pending : Int, failed : Nat, err : BOOLEAN]

\* The blocks that have been sent: the last of shards only after "sending".
Sent(r) == IF r.pc = "sending" THEN Len(r.shards) - 1 ELSE Len(r.shards)

Typed ==
    /\ request \in [Requests -> [pc : {"new", "sending", "waiting", "returned"},
                                 at : Nat \ {0}]]
    /\ thread \in [pc : {"idle", "batch", "select", "draining"},
                   batch : Seq(Downloads), at : Nat \ {0}]
    /\ active \in Int /\ activeBlocks \in Int
    /\ down \in [Downloads -> Row]
    /\ outcome \in [Blocks -> {"none", "ok", "missing", "corrupt"}]
    /\ blockQ \in Seq(Blocks) /\ Len(blockQ) <= BlockQSize
    /\ workQ \in [Providers -> Seq(Blocks)]
    /\ sched \in Blocks \cup {NoBlock}
    /\ hand \in [Providers -> Blocks \cup {NoBlock}]
    /\ answers \subseteq Blocks
    /\ rebuilt \subseteq Downloads /\ restoreQ \subseteq Downloads

-----------------------------------------------------------------------------
(* The thread starts a download once.                                      *)

Unstarted(d) == down[d].pc = "none"

\* The request has not handed its downloads to the thread.
Keeps(q) == request[q].pc \in {"new", "sending"}

Staged ==
    /\ \A q \in Requests : Keeps(q) => \A d \in ToSet(Batch[q]) : Unstarted(d)
    /\ thread.pc = "batch" =>
          /\ IsInjective(thread.batch)
          /\ \A i \in DOMAIN thread.batch : i >= thread.at => Unstarted(thread.batch[i])
          /\ \A q \in Requests : Keeps(q) =>
                ToSet(thread.batch) \cap ToSet(Batch[q]) = {}

(* What the thread counts.                                                 *)

Started == {d \in Downloads : down[d].pc \notin {"none", "over"}}

Counted ==
    /\ active = Cardinality(Started) /\ active <= MaxDownloads
    /\ activeBlocks = SumFunctionOnSet(Data, Started) /\ activeBlocks <= MaxOpenFiles

(* The blocks of a download, and the failures they make up for.            *)

InOrder(s) == \A i \in DOMAIN s : s[i] = i

AlignedRow(r, data, parity) ==
    LET n == Len(r.shards)
    IN  /\ InOrder(r.shards)
        /\ n <= data + parity /\ n <= data + r.failed
        /\ r.pc = "none" => r = NewDownload
        /\ r.pc = "creating" =>
              /\ ~r.err
              /\ n < data => r.failed = 0
              /\ n >= data => r.failed \in 1..parity /\ n = data + r.failed - 1
        /\ r.pc = "sending" =>
              /\ ~r.err /\ n >= 1
              /\ n <= data => r.failed = 0
              /\ n > data => r.failed \in 1..parity /\ n = data + r.failed
        /\ r.pc = "collecting" /\ ~r.err => n = data + r.failed /\ r.failed <= parity
        /\ r.pc = "aborted" => r.err

Aligned == \A d \in Downloads : AlignedRow(down[d], Data[d], Parity[d])

(* The way of a block: it is in one place at a time.                       *)

InTransit(b) ==
    InList(blockQ, b) \/ sched = b \/ InList(workQ[At(b)], b) \/ hand[At(b)] = b

OnePlace(b) ==
    /\ InList(blockQ, b) => sched # b /\ ~InList(workQ[At(b)], b) /\ hand[At(b)] # b
    /\ sched = b => ~InList(workQ[At(b)], b) /\ hand[At(b)] # b
    /\ InList(workQ[At(b)], b) => hand[At(b)] # b

Routed ==
    /\ IsInjective(blockQ)
    /\ \A p \in Providers :
          /\ IsInjective(workQ[p])
          /\ \A b \in Blocks : InList(workQ[p], b) \/ hand[p] = b => At(b) = p
    /\ \A b \in Blocks : OnePlace(b)

(* What came of a block.                                                   *)

Answered ==
    /\ \A b \in Blocks : InTransit(b) => outcome[b] = "none"
    /\ \A b \in answers : outcome[b] # "none"
    /\ \A b \in Blocks : InTransit(b) \/ outcome[b] # "none" => b[2] <= Sent(down[b[1]])

Awaited(d) == {b \in Blocks : /\ b[1] = d /\ b[2] <= Sent(down[d])
                              /\ outcome[b] = "none" \/ b \in answers}

Bad(d) == {b \in Blocks : b[1] = d /\ outcome[b] \in {"missing", "corrupt"} /\ b \notin answers}

Tallied ==
    \A d \in Downloads :
        /\ down[d].pending = Cardinality(Awaited(d))
        /\ down[d].failed = Cardinality(Bad(d))

IInv == Typed /\ Staged /\ Counted /\ Aligned /\ Routed /\ Answered /\ Tallied /\ SuccessIsEarned

-----------------------------------------------------------------------------
(* The constants.                                                          *)

\* A block is of a download, and within its blocks.
LEMMA BlockParts ==
    ASSUME NEW b \in Blocks
    PROVE  /\ b[1] \in Downloads /\ b[2] \in 1..(Data[b[1]] + Parity[b[1]])
           /\ b = <<b[1], b[2]>> /\ At(b) \in Providers /\ b # NoBlock
<1>1. PICK d \in Downloads : b \in {d} \X (1..(Data[d] + Parity[d]))
    BY DEF Blocks
<1>2. b[1] = d /\ b[2] \in 1..(Data[d] + Parity[d]) /\ b = <<b[1], b[2]>>
    BY <1>1
<1> QED
    BY <1>2, DownloadAssumption DEF At

\* The other way round.
LEMMA BlockIs ==
    ASSUME NEW d \in Downloads, NEW i \in 1..(Data[d] + Parity[d])
    PROVE  <<d, i>> \in Blocks
<1>1. <<d, i>> \in {d} \X (1..(Data[d] + Parity[d]))
    OBVIOUS
<1> QED
    BY <1>1 DEF Blocks

\* The numbers of blocks are numbers.
LEMMA Sizes ==
    ASSUME NEW d \in Downloads
    PROVE  Data[d] \in Nat \ {0} /\ Parity[d] \in Nat /\ Data[d] <= MaxOpenFiles
BY DownloadAssumption

\* A batch is of downloads.
LEMMA Batches ==
    ASSUME NEW q \in Requests
    PROVE  /\ ToSet(Batch[q]) \subseteq Downloads
           /\ Batch[q] \in Seq(Downloads) /\ IsInjective(Batch[q])
<1>1. ToSet(Batch[q]) \subseteq Downloads
    BY DEF Downloads
<1>2. Batch[q] \in Seq(ToSet(Batch[q])) /\ IsInjective(Batch[q])
    BY DownloadAssumption
<1> QED
    BY <1>1, <1>2, SeqMonotonic

\* The elements of a sequence are finitely many.
LEMMA ElementsFinite ==
    ASSUME NEW S, NEW s \in Seq(S)
    PROVE  IsFiniteSet(ToSet(s))
<1>1. s \in [1..Len(s) -> ToSet(s)] /\ Len(s) \in Nat
    BY DEF ToSet
<1>2. s \in Surjection(1..Len(s), ToSet(s))
    BY <1>1 DEF Surjection, ToSet
<1>3. IsFiniteSet(1..Len(s))
    BY <1>1, FS_Interval
<1> QED
    BY <1>2, <1>3, FS_Surjection

\* Finitely many requests make finitely many downloads.
LEMMA DownloadsFinite == IsFiniteSet(Downloads)
<1> DEFINE F == [q \in Requests |-> ToSet(Batch[q])]
           T == {ToSet(Batch[q]) : q \in Requests}
<1>1. F \in Surjection(Requests, T)
    BY DEF Surjection
<1>2. IsFiniteSet(T)
    BY <1>1, FS_Surjection, DownloadAssumption
<1>3. \A B \in T : IsFiniteSet(B)
    BY ElementsFinite, Batches
<1> QED
    BY <1>2, <1>3, FS_UNION DEF Downloads

-----------------------------------------------------------------------------
(* What the steps do to a download, and to no other.                       *)

SameBut(d) == \A e \in Downloads \ {d} : down'[e] = down[e]

\* newBlockDownload takes the next block, whichever rule gives its index.
LEMMA CreateOn ==
    ASSUME Typed, Aligned, NEW d \in Downloads, CreateBlock(d)
    PROVE  LET r == down[d]
               s == down'[d]
               n == Len(r.shards)
           IN  /\ down' \in [Downloads -> Row] /\ SameBut(d)
               /\ r.pc = "creating" /\ s.pending = r.pending /\ s.failed = r.failed
               /\ \/ /\ s.pc = "sending" /\ s.err = r.err
                     /\ s.shards = Append(r.shards, n + 1)
                  \/ /\ s.pc = IF n < Data[d] THEN "aborted" ELSE "collecting"
                     /\ s.err = TRUE /\ s.shards = r.shards
<1>1. down \in [Downloads -> Row] /\ AlignedRow(down[d], Data[d], Parity[d])
    BY DEF Typed, Aligned
<1>2. PICK r \in Row : r = down[d]
    BY <1>1
<1>3. r.shards \in Seq(Nat \ {0}) /\ Len(r.shards) \in Nat /\ r.failed \in Nat /\ r.err \in BOOLEAN
    BY DEF Row
<1>4. PICK n \in Nat : n = Len(r.shards)
    BY <1>3
<1>5. r.pc = "creating" /\ (n >= Data[d] => n = Data[d] + r.failed - 1)
    BY <1>1, <1>2, <1>4 DEF AlignedRow, CreateBlock
<1>6. (IF n < Data[d] THEN n + 1 ELSE Data[d] + r.failed) = n + 1
  <2>1. PICK k \in Nat, f \in Nat : k = Data[d] /\ f = r.failed
    BY <1>3, Sizes
  <2>2. n >= k => n = k + f - 1
    BY <1>5, <2>1
  <2>3. (IF n < k THEN n + 1 ELSE k + f) = n + 1
    BY <2>2
  <2> QED  BY <2>1, <2>3
<1>7. CASE down' = [down EXCEPT ![d].pc = "sending", ![d].shards = Append(@, n + 1)]
  <2>1. down'[d] = [r EXCEPT !.pc = "sending", !.shards = Append(@, n + 1)]
    BY <1>1, <1>2, <1>7
  <2>2. Append(r.shards, n + 1) \in Seq(Nat \ {0})
    BY <1>3
  <2>3. down'[d] \in Row
    BY <2>1, <2>2 DEF Row, Working
  <2> QED  BY <1>1, <1>2, <1>4, <1>5, <1>7, <2>1, <2>3 DEF Row, SameBut
<1>8. CASE down' = [down EXCEPT ![d].err = TRUE,
                        ![d].pc = IF n < Data[d] THEN "aborted" ELSE "collecting"]
  <2>1. down'[d] = [r EXCEPT !.err = TRUE, !.pc = IF n < Data[d] THEN "aborted" ELSE "collecting"]
    BY <1>1, <1>2, <1>8
  <2>2. down'[d] \in Row
    BY <2>1 DEF Row, Working
  <2> QED  BY <1>1, <1>2, <1>4, <1>5, <1>8, <2>1, <2>2 DEF Row, SameBut
<1> QED
    BY <1>2, <1>4, <1>6, <1>7, <1>8 DEF CreateBlock

\* A block that is sent is the last of those made, and of the version.
LEMMA SendOn ==
    ASSUME Typed, Aligned, NEW d \in Downloads, SendBlock(d)
    PROVE  LET r == down[d]
               s == down'[d]
               n == Len(r.shards)
           IN  /\ down' \in [Downloads -> Row] /\ SameBut(d)
               /\ r.pc = "sending" /\ s.pending = r.pending + 1
               /\ s.failed = r.failed /\ s.err = r.err /\ s.shards = r.shards
               /\ s.pc = IF n < Data[d] THEN "creating" ELSE "collecting"
               /\ n \in 1..(Data[d] + Parity[d]) /\ <<d, n>> \in Blocks
               /\ blockQ' = Append(blockQ, <<d, n>>)
<1>1. down \in [Downloads -> Row] /\ AlignedRow(down[d], Data[d], Parity[d])
    BY DEF Typed, Aligned
<1>2. PICK r \in Row : r = down[d]
    BY <1>1
<1>3. r.shards \in Seq(Nat \ {0}) /\ Len(r.shards) \in Nat /\ r.pending \in Int
    BY DEF Row
<1>4. PICK n \in Nat : n = Len(r.shards)
    BY <1>3
<1>5. /\ r.pc = "sending" /\ n >= 1 /\ n <= Data[d] + Parity[d] /\ InOrder(r.shards)
      /\ down' = [down EXCEPT ![d].pending = @ + 1,
                    ![d].pc = IF n < Data[d] THEN "creating" ELSE "collecting"]
      /\ blockQ' = Append(blockQ, <<d, Last(r.shards)>>)
    BY <1>1, <1>2, <1>4 DEF AlignedRow, SendBlock
<1>6. n \in DOMAIN r.shards
    BY <1>3, <1>4, <1>5
<1>7. Last(r.shards) = n
    BY <1>4, <1>5, <1>6 DEF Last, InOrder
<1>8. n \in 1..(Data[d] + Parity[d]) /\ <<d, n>> \in Blocks
    BY <1>4, <1>5, Sizes, BlockIs
<1>9. down'[d] = [r EXCEPT !.pending = @ + 1, !.pc = IF n < Data[d] THEN "creating" ELSE "collecting"]
    BY <1>1, <1>2, <1>5
<1>10. down'[d] \in Row
  <2>1. r.pending + 1 \in Int /\ (IF n < Data[d] THEN "creating" ELSE "collecting") \in Working
    BY <1>3 DEF Working
  <2> QED  BY <1>9, <2>1 DEF Row
<1>11. down' \in [Downloads -> Row] /\ SameBut(d)
    BY <1>1, <1>5, <1>10 DEF SameBut
<1> QED
    BY <1>2, <1>4, <1>5, <1>7, <1>8, <1>9, <1>11 DEF Row

\* A block that is collected counts as a failure, if it is one.
LEMMA CollectOn ==
    ASSUME Typed, NEW d \in Downloads, NEW b \in Blocks, Collect(d, b)
    PROVE  LET r == down[d]
               s == down'[d]
               bad == outcome[b] # "ok"
               failed == r.failed + 1
           IN  /\ down' \in [Downloads -> Row] /\ SameBut(d)
               /\ r.pc = "collecting" /\ s.shards = r.shards /\ s.pending = r.pending - 1
               /\ s.failed = IF bad THEN failed ELSE r.failed
               /\ s.err = (r.err \/ (bad /\ failed > Parity[d]))
               /\ s.pc = IF bad /\ ~r.err /\ failed <= Parity[d] THEN "creating" ELSE "collecting"
               /\ b \in answers /\ b[1] = d /\ answers' = answers \ {b}
<1>1. down \in [Downloads -> Row]
    BY DEF Typed
<1>2. PICK r \in Row : r = down[d]
    BY <1>1
<1>3. r.pending \in Int /\ r.failed \in Nat /\ r.err \in BOOLEAN
    BY DEF Row
<1>4. PICK bad \in BOOLEAN : bad <=> outcome[b] # "ok"
    OBVIOUS
<1>5. PICK failed \in Nat : failed = r.failed + 1
    BY <1>3
<1>6. PICK over \in BOOLEAN : over <=> failed > Parity[d]
    OBVIOUS
<1>7. PICK more \in BOOLEAN : more <=> (bad /\ ~r.err /\ failed <= Parity[d])
    OBVIOUS
<1>8. PICK err \in BOOLEAN : err = (r.err \/ (bad /\ failed > Parity[d]))
    BY <1>3, <1>4
<1>9. /\ r.pc = "collecting" /\ b \in answers /\ b[1] = d /\ answers' = answers \ {b}
      /\ down' = [down EXCEPT ![d].pending = @ - 1, ![d].failed = IF bad THEN failed ELSE @,
                      ![d].err = err, ![d].pc = IF more THEN "creating" ELSE @]
    BY <1>1, <1>2, <1>4, <1>5, <1>7, <1>8 DEF Collect, CollectIf
<1>10. down'[d] = [r EXCEPT !.pending = @ - 1, !.failed = IF bad THEN failed ELSE @,
                      !.err = err, !.pc = IF more THEN "creating" ELSE @]
    BY <1>1, <1>2, <1>9
<1>11. down'[d] \in Row
  <2>1. /\ r.pending - 1 \in Int /\ (IF bad THEN failed ELSE r.failed) \in Nat
        /\ (IF more THEN "creating" ELSE r.pc) \in Working
    BY <1>3, <1>9 DEF Working
  <2> QED  BY <1>10, <2>1 DEF Row
<1>12. down' \in [Downloads -> Row] /\ SameBut(d)
    BY <1>1, <1>9, <1>11 DEF SameBut
<1>13. down'[d].pc = IF bad /\ ~r.err /\ failed <= Parity[d] THEN "creating" ELSE "collecting"
    BY <1>7, <1>9, <1>10 DEF Row
<1> QED
    BY <1>2, <1>4, <1>5, <1>8, <1>9, <1>10, <1>12, <1>13 DEF Row

\* A download that is over is reported as one that failed or that did not.
LEMMA FinishOn ==
    ASSUME Typed, NEW d \in Downloads, Finish(d)
    PROVE  LET r == down[d]
               s == down'[d]
           IN  /\ down' \in [Downloads -> Row] /\ SameBut(d)
               /\ (r.pc = "collecting" /\ r.pending = 0) \/ r.pc = "aborted"
               /\ s.pc = "reporting" /\ s.shards = r.shards /\ s.pending = r.pending
               /\ s.failed = r.failed /\ (r.err => s.err)
               /\ rebuilt' \subseteq Downloads /\ restoreQ' \subseteq Downloads
<1>1. down \in [Downloads -> Row]
    BY DEF Typed
<1>2. PICK r \in Row : r = down[d]
    BY <1>1
<1>3. PICK decoded \in BOOLEAN, placed \in BOOLEAN :
          /\ placed => decoded
          /\ decoded => ~r.err
          /\ down' = [down EXCEPT ![d].pc = "reporting", ![d].err = ~placed]
          /\ rebuilt' = IF decoded THEN rebuilt \cup {d} ELSE rebuilt
    BY <1>2 DEF Finish
<1>4. down'[d] = [r EXCEPT !.pc = "reporting", !.err = ~placed]
    BY <1>1, <1>2, <1>3
<1>5. down'[d] \in Row /\ (r.err => down'[d].err)
  <2>1. down'[d].err = ~placed
    BY <1>4 DEF Row
  <2>2. r.err => ~placed
    BY <1>3
  <2>3. PICK e \in BOOLEAN : e = ~placed
    OBVIOUS
  <2>4. down'[d] = [r EXCEPT !.pc = "reporting", !.err = e]
    BY <1>4, <2>3
  <2>5. down'[d] \in Row
    BY <2>4 DEF Row
  <2> QED  BY <2>1, <2>2, <2>5
<1>6. down' \in [Downloads -> Row] /\ SameBut(d)
    BY <1>1, <1>3, <1>5 DEF SameBut
<1>7. (r.pc = "collecting" /\ r.pending = 0) \/ r.pc = "aborted"
    BY <1>2 DEF Finish
<1>8. rebuilt' \subseteq Downloads /\ restoreQ' \subseteq Downloads
    BY <1>3 DEF Finish, Typed
<1> QED
    BY <1>2, <1>4, <1>5, <1>6, <1>7, <1>8 DEF Row

\* A download that is started, or heard of, changes its place alone.
LEMMA PlaceOn ==
    ASSUME Typed, NEW d \in Downloads, NEW label \in Working \cup {"none", "reporting", "over"},
           down' = [down EXCEPT ![d].pc = label]
    PROVE  LET r == down[d]
               s == down'[d]
           IN  /\ down' \in [Downloads -> Row] /\ SameBut(d)
               /\ s.pc = label /\ s.shards = r.shards /\ s.pending = r.pending
               /\ s.failed = r.failed /\ s.err = r.err
<1>1. down \in [Downloads -> Row]
    BY DEF Typed
<1>2. PICK r \in Row : r = down[d]
    BY <1>1
<1>3. down'[d] = [r EXCEPT !.pc = label]
    BY <1>1, <1>2
<1>4. down'[d] \in Row
    BY <1>3 DEF Row
<1> QED
    BY <1>1, <1>2, <1>3, <1>4 DEF Row, SameBut

-----------------------------------------------------------------------------
(* The types.                                                              *)

\* The thread starts a download of its batch that has not been started.
LEMMA StartOn ==
    ASSUME Typed, Staged, Start
    PROVE  \E d \in Downloads :
              /\ d = thread.batch[thread.at] /\ thread.pc = "batch"
              /\ thread.at \in DOMAIN thread.batch
              /\ Fits(d) /\ Unstarted(d)
              /\ down' = [down EXCEPT ![d].pc = "creating"]
              /\ active' = active + 1 /\ activeBlocks' = activeBlocks + Data[d]
              /\ thread' = [thread EXCEPT !.at = @ + 1]
<1>1. thread.batch \in Seq(Downloads) /\ thread.at \in Nat \ {0}
    BY DEF Typed
<1>2. thread.pc = "batch" /\ thread.at <= Len(thread.batch)
    BY DEF Start
<1>3. thread.at \in DOMAIN thread.batch /\ thread.batch[thread.at] \in Downloads
    BY <1>1, <1>2
<1>4. Unstarted(thread.batch[thread.at])
    BY <1>1, <1>2, <1>3 DEF Staged
<1> QED
    BY <1>2, <1>3, <1>4 DEF Start

\* What is queued, and what is in hand, is a block of a provider.
LEMMA QueuesTyped ==
    ASSUME Typed
    PROVE  /\ \A p \in Providers : workQ[p] \in Seq(Blocks) /\ hand[p] \in Blocks \cup {NoBlock}
           /\ \A p \in Providers : workQ[p] # <<>> =>
                 Head(workQ[p]) \in Blocks /\ Tail(workQ[p]) \in Seq(Blocks)
           /\ blockQ # <<>> => /\ Head(blockQ) \in Blocks /\ Tail(blockQ) \in Seq(Blocks)
                               /\ Len(Tail(blockQ)) <= BlockQSize
<1>1. \A p \in Providers : workQ[p] \in Seq(Blocks) /\ hand[p] \in Blocks \cup {NoBlock}
    BY DEF Typed
<1>2. blockQ \in Seq(Blocks) /\ Len(blockQ) <= BlockQSize /\ BlockQSize \in Nat
    BY DownloadAssumption DEF Typed
<1>3. ASSUME NEW s \in Seq(Blocks), s # <<>>
      PROVE  /\ Head(s) \in Blocks /\ Tail(s) \in Seq(Blocks) /\ Len(Tail(s)) = Len(s) - 1
             /\ Len(s) \in Nat
    BY <1>3
<1>4. blockQ # <<>> => Len(Tail(blockQ)) <= BlockQSize
    BY <1>2, <1>3
<1> QED
    BY <1>1, <1>2, <1>3, <1>4

\* Every step keeps the types, given the order of the blocks.
LEMMA TypedStep ==
    ASSUME Typed, Staged, Aligned, [Next]_vars
    PROVE  Typed'
<1> USE DEF queues
<1>1. ASSUME NEW q \in Requests, Download(q) \/ AwaitDownloads(q)  PROVE Typed'
  <2>1. request[q] \in [pc : {"new", "sending", "waiting", "returned"}, at : Nat \ {0}]
    BY DEF Typed
  <2>2. request' \in [Requests -> [pc : {"new", "sending", "waiting", "returned"},
                                   at : Nat \ {0}]]
    <3>1. request \in [Requests -> [pc : {"new", "sending", "waiting", "returned"},
                                    at : Nat \ {0}]]
      BY DEF Typed
    <3>2. \/ request' = [request EXCEPT ![q].pc = "sending"]
          \/ request' = [request EXCEPT ![q].pc = "returned"]
          \/ request' = [request EXCEPT ![q].at = @ + 1]
      BY <1>1 DEF Download, AwaitDownloads
    <3>3. request[q].at + 1 \in Nat \ {0}
      BY <2>1
    <3> QED  BY <2>1, <3>1, <3>2, <3>3
  <2> QED  BY <1>1, <2>2 DEF Typed, Download, AwaitDownloads
<1>2. ASSUME NEW q \in Requests, Dequeue(q)  PROVE Typed'
  <2>1. thread' \in [pc : {"idle", "batch", "select", "draining"},
                     batch : Seq(Downloads), at : Nat \ {0}]
    BY <1>2, Batches DEF Dequeue
  <2>2. request[q] \in [pc : {"new", "sending", "waiting", "returned"}, at : Nat \ {0}]
    BY DEF Typed
  <2>3. request' \in [Requests -> [pc : {"new", "sending", "waiting", "returned"},
                                   at : Nat \ {0}]]
    BY <1>2, <2>2 DEF Typed, Dequeue
  <2> QED  BY <1>2, <2>1, <2>3 DEF Typed, Dequeue
<1>3. CASE Start
  <2>1. PICK d \in Downloads :
              /\ down' = [down EXCEPT ![d].pc = "creating"]
              /\ active' = active + 1 /\ activeBlocks' = activeBlocks + Data[d]
              /\ thread' = [thread EXCEPT !.at = @ + 1]
    BY <1>3, StartOn
  <2>2. down' \in [Downloads -> Row]
    BY <2>1, PlaceOn DEF Working
  <2>3. active' \in Int /\ activeBlocks' \in Int
    BY <2>1, Sizes DEF Typed
  <2>4. thread' \in [pc : {"idle", "batch", "select", "draining"},
                     batch : Seq(Downloads), at : Nat \ {0}]
    <3>1. PICK t \in [pc : {"idle", "batch", "select", "draining"},
                      batch : Seq(Downloads), at : Nat \ {0}] : t = thread
      BY DEF Typed
    <3>2. t.at + 1 \in Nat \ {0}
      OBVIOUS
    <3> QED  BY <2>1, <3>1, <3>2
  <2> QED  BY <1>3, <2>2, <2>3, <2>4 DEF Typed, Start
<1>4. ASSUME NEW d \in Downloads, ReceiveFinished(d)  PROVE Typed'
  <2>1. down' \in [Downloads -> Row]
    BY <1>4, PlaceOn DEF ReceiveFinished, ReceiveFinishedOf
  <2>2. active' \in Int /\ activeBlocks' \in Int
    BY <1>4, Sizes DEF Typed, ReceiveFinished, ReceiveFinishedOf
  <2> QED  BY <1>4, <2>1, <2>2 DEF Typed, ReceiveFinished, ReceiveFinishedOf
<1>5. CASE BatchStarted \/ PollNothing
    BY <1>5 DEF Typed, BatchStarted, PollNothing
<1>6. CASE Restart
  <2>1. <<>> \in Seq(Blocks) /\ <<>> \in Seq(Downloads) /\ Len(<<>>) <= BlockQSize
    BY DownloadAssumption
  <2> QED  BY <1>6, <2>1 DEF Typed, Restart, RestartWhen
<1>7. ASSUME NEW d \in Downloads, CreateBlock(d)  PROVE Typed'
    BY <1>7, CreateOn DEF Typed, CreateBlock
<1>8. ASSUME NEW d \in Downloads, SendBlock(d)  PROVE Typed'
  <2>1. PICK b \in Blocks : blockQ' = Append(blockQ, b)
    BY <1>8, SendOn
  <2>2. blockQ' \in Seq(Blocks) /\ Len(blockQ') <= BlockQSize
    <3>1. /\ blockQ \in Seq(Blocks) /\ Len(blockQ) < BlockQSize
          /\ BlockQSize \in Nat
      BY <1>8, DownloadAssumption DEF Typed, SendBlock
    <3> QED  BY <2>1, <3>1
  <2> QED  BY <1>8, <2>2, SendOn DEF Typed, SendBlock
<1>9. ASSUME NEW d \in Downloads, NEW b \in Blocks, Collect(d, b)  PROVE Typed'
  <2>1. down' \in [Downloads -> Row] /\ answers' = answers \ {b}
    BY <1>9, CollectOn
  <2> QED  BY <1>9, <2>1 DEF Typed, Collect, CollectIf
<1>10. ASSUME NEW d \in Downloads, Finish(d)  PROVE Typed'
  <2>1. down' \in [Downloads -> Row] /\ rebuilt' \subseteq Downloads /\ restoreQ' \subseteq Downloads
    BY <1>10, FinishOn
  <2> QED  BY <1>10, <2>1 DEF Typed, Finish
<1>11. CASE ScheduleTake
    BY <1>11, QueuesTyped DEF Typed, ScheduleTake
<1>12. CASE SchedulePass
  <2>1. sched \in Blocks /\ At(sched) \in Providers
    BY <1>12, BlockParts DEF Typed, SchedulePass
  <2>2. workQ' \in [Providers -> Seq(Blocks)]
    BY <1>12, <2>1 DEF Typed, SchedulePass
  <2> QED  BY <1>12, <2>2 DEF Typed, SchedulePass
<1>13. ASSUME NEW p \in Providers, WorkerTake(p)  PROVE Typed'
    BY <1>13, QueuesTyped DEF Typed, WorkerTake
<1>14. ASSUME NEW p \in Providers, WorkerFetch(p)  PROVE Typed'
  <2>1. hand[p] \in Blocks
    BY <1>14, QueuesTyped DEF WorkerFetch, WorkerFetchWhen
  <2> QED  BY <1>14, <2>1 DEF Typed, WorkerFetch, WorkerFetchWhen
<1>15. CASE UNCHANGED vars
    BY <1>15 DEF Typed, vars
<1> QED
    BY <1>1, <1>2, <1>3, <1>4, <1>5, <1>6, <1>7, <1>8, <1>9, <1>10, <1>11, <1>12, <1>13,
       <1>14, <1>15
    DEF Next, DownloadThread, PerformDownload, BlockScheduleThread, DownloadWorker

-----------------------------------------------------------------------------
(* The thread starts a download once.                                      *)

\* A step that hands over no batch and starts no download.
LEMMA StagedKeeps ==
    ASSUME Staged, thread'.pc = "batch" => thread' = thread,
           \A q \in Requests : Keeps(q)' => Keeps(q),
           \A d \in Downloads : Unstarted(d) => Unstarted(d)', Typed
    PROVE  Staged'
<1>1. \A q \in Requests : \A d \in ToSet(Batch[q]) : d \in Downloads
    BY Batches
<1>2. \A i \in DOMAIN thread.batch : thread.batch[i] \in Downloads
    BY DEF Typed
<1>3. \A q \in Requests : Keeps(q)' => \A d \in ToSet(Batch[q]) : Unstarted(d)'
    BY <1>1 DEF Staged
<1>4. ASSUME thread'.pc = "batch"
      PROVE  /\ IsInjective(thread'.batch)
             /\ \A i \in DOMAIN thread'.batch : i >= thread'.at => Unstarted(thread.batch[i])'
             /\ \A q \in Requests : Keeps(q)' =>
                   ToSet(thread'.batch) \cap ToSet(Batch[q]) = {}
  <2>1. thread' = thread /\ thread.pc = "batch"
    BY <1>4
  <2>2. \A i \in DOMAIN thread.batch : Unstarted(thread.batch[i]) => Unstarted(thread.batch[i])'
    BY <1>2, <2>1 DEF Unstarted
  <2> QED  BY <2>1, <2>2 DEF Staged
<1> QED
    BY <1>3, <1>4 DEF Staged

\* Every step keeps it.
LEMMA StagedStep ==
    ASSUME Typed, Staged, Aligned, [Next]_vars
    PROVE  Staged'
<1> USE DEF queues
<1>1. ASSUME NEW q \in Requests, Download(q) \/ AwaitDownloads(q)  PROVE Staged'
  <2>1. \A r \in Requests : Keeps(r)' => Keeps(r)
    <3>1. request' = [request EXCEPT ![q] = request'[q]] /\ (Keeps(q)' => Keeps(q))
      BY <1>1 DEF Download, AwaitDownloads, Keeps, Typed
    <3> QED  BY <3>1 DEF Keeps, Typed
  <2> QED  BY <1>1, <2>1, StagedKeeps DEF Download, AwaitDownloads, Unstarted
<1>2. ASSUME NEW q \in Requests, Dequeue(q)  PROVE Staged'
  <2>1. Keeps(q) /\ ~Keeps(q)' /\ \A r \in Requests \ {q} : Keeps(r)' => Keeps(r)
    BY <1>2 DEF Dequeue, Keeps, Typed
  <2>2. thread'.batch = Batch[q] /\ thread'.at = 1 /\ down' = down
    BY <1>2 DEF Dequeue
  <2>3. \A r \in Requests : Keeps(r)' => \A d \in ToSet(Batch[r]) : Unstarted(d)'
    BY <2>1, <2>2 DEF Staged, Unstarted
  <2>4. \A i \in DOMAIN Batch[q] : Unstarted(Batch[q][i])'
    BY <2>1, <2>2 DEF Staged, Unstarted, ToSet
  <2>5. \A r \in Requests : Keeps(r)' => ToSet(Batch[q]) \cap ToSet(Batch[r]) = {}
    BY <2>1, DownloadAssumption
  <2> QED  BY <2>2, <2>3, <2>4, <2>5, Batches DEF Staged
<1>3. CASE Start
  <2>1. PICK d \in Downloads :
              /\ d = thread.batch[thread.at] /\ thread.pc = "batch"
              /\ thread.at \in DOMAIN thread.batch
              /\ down' = [down EXCEPT ![d].pc = "creating"]
              /\ thread' = [thread EXCEPT !.at = @ + 1]
    BY <1>3, StartOn
  <2>2. /\ thread'.batch = thread.batch /\ thread'.at = thread.at + 1 /\ thread'.pc = "batch"
        /\ thread.at \in Nat /\ thread.batch \in Seq(Downloads)
    BY <2>1 DEF Typed
  <2>3. \A e \in Downloads \ {d} : Unstarted(e) => Unstarted(e)'
    BY <2>1 DEF Unstarted, Typed
  <2>4. d \in ToSet(thread.batch) /\ request' = request
    BY <1>3, <2>1 DEF Start, ToSet
  <2>5. \A q \in Requests : Keeps(q)' => Keeps(q) /\ d \notin ToSet(Batch[q])
    BY <2>1, <2>4 DEF Staged, Keeps
  <2>6. \A q \in Requests : Keeps(q)' => \A e \in ToSet(Batch[q]) : Unstarted(e)'
    BY <2>3, <2>5, Batches DEF Staged
  <2>7. ASSUME NEW i \in DOMAIN thread.batch, i >= thread.at + 1
        PROVE  Unstarted(thread.batch[i])'
    <3>1. PICK e \in Downloads : e = thread.batch[i]
      BY <2>2, <2>7
    <3>2. e # d
      BY <2>1, <2>2, <2>7, <3>1 DEF Staged, IsInjective
    <3>3. Unstarted(e)
      BY <2>1, <2>2, <2>7, <3>1 DEF Staged
    <3>4. Unstarted(e)'
      BY <2>3, <3>2, <3>3
    <3> QED  BY <2>2, <3>1, <3>4 DEF Unstarted
  <2>8. IsInjective(thread'.batch)
    BY <2>1, <2>2 DEF Staged
  <2>9. \A q \in Requests : Keeps(q)' => ToSet(thread'.batch) \cap ToSet(Batch[q]) = {}
    BY <2>1, <2>2, <2>5 DEF Staged
  <2>10. \A i \in DOMAIN thread'.batch : i >= thread'.at => Unstarted(thread.batch[i])'
    BY <2>2, <2>7
  <2> QED  BY <2>6, <2>8, <2>9, <2>10 DEF Staged
<1>4. ASSUME NEW d \in Downloads, SameBut(d), ~Unstarted(d), request' = request, thread' = thread
      PROVE  Staged'
    BY <1>4, StagedKeeps DEF SameBut, Unstarted, Keeps
<1>5. ASSUME NEW d \in Downloads, ReceiveFinished(d)  PROVE Staged'
  <2>1. SameBut(d) /\ ~Unstarted(d) /\ request' = request /\ thread' = thread
    BY <1>5, PlaceOn DEF ReceiveFinished, ReceiveFinishedOf, Unstarted
  <2> QED  BY <1>4, <2>1
<1>6. ASSUME NEW d \in Downloads, PerformDownload(d)  PROVE Staged'
  <2>1. request' = request /\ thread' = thread
    BY <1>6 DEF PerformDownload, CreateBlock, SendBlock, Collect, CollectIf, Finish
  <2>2. SameBut(d) /\ ~Unstarted(d)
    BY <1>6, CreateOn, SendOn, CollectOn, FinishOn DEF PerformDownload, Unstarted
  <2> QED  BY <1>4, <2>1, <2>2
<1>7. ASSUME down' = down, request' = request, thread'.pc = "batch" => thread' = thread
      PROVE  Staged'
    BY <1>7, StagedKeeps DEF Unstarted, Keeps
<1>8. CASE BatchStarted \/ PollNothing \/ Restart
  <2>1. thread'.pc # "batch"
    BY <1>8 DEF BatchStarted, PollNothing, Restart, RestartWhen, Typed
  <2> QED  BY <1>7, <1>8, <2>1 DEF BatchStarted, PollNothing, Restart, RestartWhen
<1>9. CASE BlockScheduleThread \/ \E p \in Providers : DownloadWorker(p)
    BY <1>7, <1>9 DEF BlockScheduleThread, ScheduleTake, SchedulePass, DownloadWorker,
       WorkerTake, WorkerFetch, WorkerFetchWhen
<1>10. CASE UNCHANGED vars
    BY <1>7, <1>10 DEF vars
<1> QED
    BY <1>1, <1>2, <1>3, <1>5, <1>6, <1>8, <1>9, <1>10 DEF Next, DownloadThread

-----------------------------------------------------------------------------
(* The blocks of a download.                                               *)

\* Appending the next index to indices in order keeps them in order.
LEMMA OrderGrows ==
    ASSUME NEW s \in Seq(Nat \ {0}), InOrder(s)
    PROVE  InOrder(Append(s, Len(s) + 1)) /\ Len(Append(s, Len(s) + 1)) = Len(s) + 1
BY DEF InOrder

\* A row that is in order, in numbers.
LEMMA RowNumbers ==
    ASSUME NEW r \in Row
    PROVE  /\ r.shards \in Seq(Nat \ {0}) /\ Len(r.shards) \in Nat
           /\ r.failed \in Nat /\ r.pending \in Int /\ r.err \in BOOLEAN
BY DEF Row

\* A step that changes one row: the others stay in order.
LEMMA AlignedKeeps ==
    ASSUME Aligned, NEW d \in Downloads, SameBut(d),
           AlignedRow(down[d], Data[d], Parity[d])'
    PROVE  Aligned'
BY DEF Aligned, SameBut, AlignedRow

\* The next block of the version.
LEMMA AlignedCreate ==
    ASSUME Typed, Aligned, NEW d \in Downloads, CreateBlock(d)
    PROVE  Aligned'
<1>1. PICK r \in Row, s \in Row : r = down[d] /\ s = down'[d]
    BY CreateOn DEF Typed
<1>2. PICK data \in Nat, parity \in Nat : data = Data[d] /\ parity = Parity[d]
    BY Sizes
<1>3. PICK n \in Nat : n = Len(r.shards)
    BY RowNumbers
<1>4. /\ r.pc = "creating" /\ s.pending = r.pending /\ s.failed = r.failed
      /\ \/ s.pc = "sending" /\ s.err = r.err /\ s.shards = Append(r.shards, n + 1)
         \/ /\ s.pc = IF n < data THEN "aborted" ELSE "collecting"
            /\ s.err = TRUE /\ s.shards = r.shards
      /\ SameBut(d)
    BY <1>1, <1>2, <1>3, CreateOn
<1>5. PICK f \in Nat : f = r.failed
    BY RowNumbers
<1>6. /\ InOrder(r.shards) /\ n <= data + parity /\ n <= data + f /\ ~r.err
      /\ n < data => f = 0
      /\ n >= data => f >= 1 /\ f <= parity /\ n = data + f - 1
    BY <1>1, <1>2, <1>3, <1>4, <1>5 DEF Aligned, AlignedRow
<1>7. CASE s.pc = "sending" /\ s.err = r.err /\ s.shards = Append(r.shards, n + 1)
  <2>1. InOrder(s.shards) /\ Len(s.shards) = n + 1
    BY <1>3, <1>6, <1>7, OrderGrows, RowNumbers
  <2>2. /\ n + 1 <= data + parity /\ n + 1 <= data + f /\ n + 1 >= 1
        /\ n + 1 <= data => f = 0
        /\ n + 1 > data => f \in 1..parity /\ n + 1 = data + f
    BY <1>6
  <2>3. AlignedRow(s, data, parity)
    BY <1>4, <1>5, <1>6, <1>7, <2>1, <2>2 DEF AlignedRow
  <2> QED  BY <1>1, <1>2, <1>4, <2>3, AlignedKeeps
<1>8. CASE /\ s.pc = IF n < data THEN "aborted" ELSE "collecting"
           /\ s.err = TRUE /\ s.shards = r.shards
  <2>1. AlignedRow(s, data, parity)
    BY <1>3, <1>4, <1>5, <1>6, <1>8 DEF AlignedRow
  <2> QED  BY <1>1, <1>2, <1>4, <2>1, AlignedKeeps
<1> QED
    BY <1>4, <1>7, <1>8

\* A block is sent; the next one is made while data blocks are left.
LEMMA AlignedSend ==
    ASSUME Typed, Aligned, NEW d \in Downloads, SendBlock(d)
    PROVE  Aligned'
<1>1. PICK r \in Row, s \in Row : r = down[d] /\ s = down'[d]
    BY SendOn DEF Typed
<1>2. PICK data \in Nat, parity \in Nat : data = Data[d] /\ parity = Parity[d]
    BY Sizes
<1>3. PICK n \in Nat, f \in Nat : n = Len(r.shards) /\ f = r.failed
    BY RowNumbers
<1>4. /\ r.pc = "sending" /\ s.failed = r.failed /\ s.err = r.err /\ s.shards = r.shards
      /\ s.pc = IF n < data THEN "creating" ELSE "collecting"
      /\ SameBut(d)
    BY <1>1, <1>2, <1>3, SendOn
<1>5. /\ InOrder(r.shards) /\ n <= data + parity /\ n <= data + f /\ ~r.err /\ n >= 1
      /\ n <= data => f = 0
      /\ n > data => f \in 1..parity /\ n = data + f
    BY <1>1, <1>2, <1>3, <1>4 DEF Aligned, AlignedRow
<1>6. n >= data => n = data + f /\ f <= parity
    BY <1>5
<1>7. n < data => f = 0
    BY <1>5
<1>8. AlignedRow(s, data, parity)
    BY <1>3, <1>4, <1>5, <1>6, <1>7 DEF AlignedRow
<1> QED
    BY <1>1, <1>2, <1>4, <1>8, AlignedKeeps

\* A failure asks for the parity block of its number, if there is one.
LEMMA AlignedCollect ==
    ASSUME Typed, Aligned, NEW d \in Downloads, NEW b \in Blocks, Collect(d, b)
    PROVE  Aligned'
<1>1. PICK r \in Row, s \in Row : r = down[d] /\ s = down'[d]
    BY CollectOn DEF Typed
<1>2. PICK data \in Nat, parity \in Nat : data = Data[d] /\ parity = Parity[d]
    BY Sizes
<1>3. PICK n \in Nat, f \in Nat : n = Len(r.shards) /\ f = r.failed
    BY RowNumbers
<1>4. PICK bad \in BOOLEAN : bad <=> outcome[b] # "ok"
    OBVIOUS
<1>5. /\ r.pc = "collecting" /\ s.shards = r.shards
      /\ s.failed = IF bad THEN f + 1 ELSE f
      /\ s.err = (r.err \/ (bad /\ f + 1 > parity))
      /\ s.pc = IF bad /\ ~r.err /\ f + 1 <= parity THEN "creating" ELSE "collecting"
      /\ SameBut(d)
    BY <1>1, <1>2, <1>3, <1>4, CollectOn
<1>6. /\ InOrder(r.shards) /\ n <= data + parity /\ n <= data + f
      /\ ~r.err => n = data + f /\ f <= parity
    BY <1>1, <1>2, <1>3, <1>5 DEF Aligned, AlignedRow
<1>7. n <= data + (IF bad THEN f + 1 ELSE f)
    BY <1>6
<1>8. PICK re \in BOOLEAN, se \in BOOLEAN : re = r.err /\ se = s.err
    BY RowNumbers
<1>9. PICK made \in BOOLEAN : made <=> f + 1 <= parity
    OBVIOUS
<1>10. f + 1 > parity <=> ~made
    BY <1>9
<1>11. se <=> (re \/ (bad /\ ~made))
    BY <1>5, <1>8, <1>10
<1>12. s.pc = IF bad /\ ~re /\ made THEN "creating" ELSE "collecting"
    BY <1>5, <1>8, <1>9
<1>13. CASE bad /\ ~re /\ made
  <2>1. ~se /\ s.pc = "creating" /\ s.failed = f + 1
    BY <1>5, <1>11, <1>12, <1>13
  <2>2. n = data + f /\ f + 1 \in 1..parity
    BY <1>6, <1>8, <1>9, <1>13
  <2>3. n >= data /\ n = data + (f + 1) - 1 /\ n <= data + (f + 1)
    BY <2>2
  <2>4. AlignedRow(s, data, parity)
    BY <1>3, <1>5, <1>6, <1>8, <2>1, <2>2, <2>3 DEF AlignedRow
  <2> QED  BY <1>1, <1>2, <1>5, <2>4, AlignedKeeps
<1>14. CASE ~(bad /\ ~re /\ made)
  <2>1. s.pc = "collecting" /\ (~se => ~re /\ ~bad)
    BY <1>11, <1>12, <1>14
  <2>2. ~s.err => n = data + s.failed /\ s.failed <= parity
    BY <1>5, <1>6, <1>8, <2>1
  <2>3. n <= data + s.failed
    BY <1>5, <1>7
  <2>4. AlignedRow(s, data, parity)
    BY <1>3, <1>5, <1>6, <2>1, <2>2, <2>3 DEF AlignedRow
  <2> QED  BY <1>1, <1>2, <1>5, <2>4, AlignedKeeps
<1> QED
    BY <1>13, <1>14

\* A download that starts has no block, and needs no parity yet.
LEMMA AlignedStart ==
    ASSUME Typed, Staged, Aligned, Start
    PROVE  Aligned'
<1>1. PICK d \in Downloads : Unstarted(d) /\ down' = [down EXCEPT ![d].pc = "creating"]
    BY StartOn
<1>2. PICK r \in Row, s \in Row : r = down[d] /\ s = down'[d]
    BY <1>1, PlaceOn DEF Typed, Working
<1>3. /\ s.pc = "creating" /\ s.shards = r.shards /\ s.failed = r.failed /\ s.err = r.err
      /\ SameBut(d)
    BY <1>1, <1>2, PlaceOn DEF Working
<1>4. r = NewDownload
    BY <1>1, <1>2 DEF Aligned, AlignedRow, Unstarted
<1>5. s.shards = <<>> /\ Len(s.shards) = 0 /\ s.failed = 0 /\ ~s.err
    BY <1>3, <1>4 DEF NewDownload
<1>6. PICK data \in Nat \ {0}, parity \in Nat : data = Data[d] /\ parity = Parity[d]
    BY Sizes
<1>7. AlignedRow(s, data, parity)
    BY <1>3, <1>5, <1>6 DEF AlignedRow, InOrder
<1> QED
    BY <1>2, <1>3, <1>6, <1>7, AlignedKeeps

\* What is over keeps its blocks.
LEMMA AlignedOver ==
    ASSUME Typed, Aligned, NEW d \in Downloads, down' \in [Downloads -> Row], SameBut(d),
           down'[d].pc \in {"reporting", "over"}, down'[d].shards = down[d].shards,
           down'[d].failed = down[d].failed
    PROVE  Aligned'
<1>1. AlignedRow(down[d], Data[d], Parity[d])
    BY DEF Aligned
<1>2. AlignedRow(down'[d], Data[d], Parity[d])
    BY <1>1 DEF AlignedRow
<1> QED
    BY <1>2, AlignedKeeps

\* Every step keeps the blocks of every download in order.
LEMMA AlignedStep ==
    ASSUME Typed, Staged, Aligned, [Next]_vars
    PROVE  Aligned'
<1>1. CASE Start
    BY <1>1, AlignedStart
<1>2. ASSUME NEW d \in Downloads, ReceiveFinished(d)  PROVE Aligned'
    BY <1>2, PlaceOn, AlignedOver DEF ReceiveFinished, ReceiveFinishedOf
<1>3. ASSUME NEW d \in Downloads, PerformDownload(d)  PROVE Aligned'
  <2>1. CASE Finish(d)
    BY <2>1, FinishOn, AlignedOver
  <2> QED
    BY <1>3, <2>1, AlignedCreate, AlignedSend, AlignedCollect DEF PerformDownload
<1>4. ASSUME down' = down  PROVE Aligned'
    BY <1>4 DEF Aligned, AlignedRow
<1> QED
    BY <1>1, <1>2, <1>3, <1>4 DEF Next, Download, AwaitDownloads, DownloadThread, Dequeue,
       BatchStarted, PollNothing, Restart, RestartWhen, BlockScheduleThread, ScheduleTake,
       SchedulePass, DownloadWorker, WorkerTake, WorkerFetch, WorkerFetchWhen, vars

-----------------------------------------------------------------------------
(* What the thread counts.                                                 *)

\* The downloads that run are finitely many, and their blocks are numbers.
LEMMA StartedFinite ==
    ASSUME NEW S, S \subseteq Downloads
    PROVE  /\ IsFiniteSet(S) /\ Cardinality(S) \in Nat
           /\ SumFunctionOnSet(Data, S) \in Nat
<1>1. IsFiniteSet(S)
    BY DownloadsFinite, FS_Subset
<1> QED
    BY <1>1, FS_CardinalityType, SumType, Sizes

\* A step that starts nothing and is not told of an end.
LEMMA CountedKeeps ==
    ASSUME Counted, active' = active, activeBlocks' = activeBlocks,
           \A d \in Downloads : down[d].pc \in {"none", "over"} <=> down'[d].pc \in {"none", "over"}
    PROVE  Counted'
<1>1. Started' = Started
    BY DEF Started
<1> QED
    BY <1>1 DEF Counted

\* Every step keeps the counts, and the limits.
LEMMA CountedStep ==
    ASSUME Typed, Staged, Aligned, Counted, [Next]_vars
    PROVE  Counted'
<1>0. Started \subseteq Downloads /\ Started' \subseteq Downloads
    BY DEF Started
<1>1. CASE Start
  <2>1. PICK d \in Downloads :
          /\ Fits(d) /\ Unstarted(d) /\ down' = [down EXCEPT ![d].pc = "creating"]
          /\ active' = active + 1 /\ activeBlocks' = activeBlocks + Data[d]
    BY <1>1, StartOn
  <2>2. SameBut(d) /\ down'[d].pc = "creating"
    BY <2>1, PlaceOn DEF Working
  <2>3. d \notin Started /\ Started' = Started \cup {d}
    BY <2>1, <2>2 DEF Started, Unstarted, SameBut
  <2>4. Cardinality(Started') = Cardinality(Started) + 1
    BY <1>0, <2>3, StartedFinite, FS_AddElement
  <2>5. SumFunctionOnSet(Data, Started') = Data[d] + SumFunctionOnSet(Data, Started)
    <3>1. IsFiniteSet(Started) /\ \A e \in Started \cup {d} : Data[e] \in Int
      BY <1>0, StartedFinite, Sizes
    <3> QED  BY <2>3, <3>1, SumPutsIn
  <2>6. active \in Int /\ activeBlocks \in Int /\ MaxDownloads \in Nat /\ MaxOpenFiles \in Nat
    BY DownloadAssumption DEF Typed
  <2> QED  BY <2>1, <2>4, <2>5, <2>6, Sizes DEF Counted, Fits
<1>2. ASSUME NEW d \in Downloads, ReceiveFinished(d)  PROVE Counted'
  <2>1. /\ SameBut(d) /\ down'[d].pc = "over" /\ down[d].pc = "reporting"
        /\ active' = active - 1 /\ activeBlocks' = activeBlocks - Data[d]
    BY <1>2, PlaceOn DEF ReceiveFinished, ReceiveFinishedOf
  <2>2. d \in Started /\ Started' = Started \ {d}
    BY <2>1 DEF Started, SameBut
  <2>3. Cardinality(Started') = Cardinality(Started) - 1
    BY <1>0, <2>2, StartedFinite, FS_RemoveElement
  <2>4. SumFunctionOnSet(Data, Started) = Data[d] + SumFunctionOnSet(Data, Started')
    <3>1. IsFiniteSet(Started) /\ \A e \in Started : Data[e] \in Int
      BY <1>0, StartedFinite, Sizes
    <3> QED  BY <2>2, <3>1, SumTakesOut
  <2>5. active \in Int /\ activeBlocks \in Int /\ MaxDownloads \in Nat /\ MaxOpenFiles \in Nat
    BY DownloadAssumption DEF Typed
  <2>6. SumFunctionOnSet(Data, Started') \in Nat
    BY <1>0, StartedFinite
  <2> QED  BY <2>1, <2>3, <2>4, <2>5, <2>6, Sizes DEF Counted
<1>3. ASSUME NEW d \in Downloads, PerformDownload(d)  PROVE Counted'
  <2>1. active' = active /\ activeBlocks' = activeBlocks
    BY <1>3 DEF PerformDownload, CreateBlock, SendBlock, Collect, CollectIf, Finish
  <2>2. SameBut(d) /\ down[d].pc \notin {"none", "over"} /\ down'[d].pc \notin {"none", "over"}
    BY <1>3, CreateOn, SendOn, CollectOn, FinishOn DEF PerformDownload
  <2> QED  BY <2>1, <2>2, CountedKeeps DEF SameBut
<1>4. ASSUME down' = down, active' = active, activeBlocks' = activeBlocks  PROVE Counted'
    BY <1>4, CountedKeeps
<1> QED
    BY <1>1, <1>2, <1>3, <1>4 DEF Next, Download, AwaitDownloads, DownloadThread, Dequeue,
       BatchStarted, PollNothing, Restart, RestartWhen, BlockScheduleThread, ScheduleTake,
       SchedulePass, DownloadWorker, WorkerTake, WorkerFetch, WorkerFetchWhen, vars

-----------------------------------------------------------------------------
(* The way of a block.                                                     *)

\* The order of the blocks is the places they are in, one after the other.
LEMMA RoutedFacts ==
    ASSUME Typed, Routed
    PROVE  /\ blockQ \in Seq(Blocks) /\ IsInjective(blockQ)
           /\ \A p \in Providers : workQ[p] \in Seq(Blocks) /\ IsInjective(workQ[p])
           /\ \A p \in Providers : \A b \in Blocks :
                 InList(workQ[p], b) \/ hand[p] = b => At(b) = p
           /\ \A b \in Blocks : OnePlace(b) /\ At(b) \in Providers /\ b # NoBlock
BY BlockParts DEF Typed, Routed

\* The scheduler takes the first block of its queue.
LEMMA RoutedTake ==
    ASSUME Typed, Routed, ScheduleTake
    PROVE  Routed' /\ \A b \in Blocks : InTransit(b)' => InTransit(b)
<1>1. /\ sched = NoBlock /\ blockQ # <<>> /\ sched' = Head(blockQ) /\ blockQ' = Tail(blockQ)
      /\ workQ' = workQ /\ hand' = hand
    BY DEF ScheduleTake
<1>2. PICK s \in Seq(Blocks) : s = blockQ /\ IsInjective(s)
    BY RoutedFacts
<1>3. PICK h \in Blocks : h = Head(s) /\ InList(s, h)
    BY <1>1, <1>2, QueuesTyped, ShorterLists
<1>4. /\ IsInjective(Tail(s)) /\ ~InList(Tail(s), h)
      /\ \A b : InList(Tail(s), b) => InList(s, b)
    BY <1>1, <1>2, <1>3, ShorterLists
<1>5. ASSUME NEW b \in Blocks  PROVE OnePlace(b)' /\ (InTransit(b)' => InTransit(b))
  <2>1. OnePlace(b) /\ b # NoBlock
    BY RoutedFacts
  <2>2. InList(blockQ', b) => InList(blockQ, b) /\ b # h
    BY <1>1, <1>2, <1>4
  <2>3. sched' = b => b = h /\ InList(blockQ, b)
    BY <1>1, <1>2, <1>3
  <2> QED  BY <1>1, <1>2, <1>3, <2>1, <2>2, <2>3 DEF OnePlace, InTransit
<1>6. IsInjective(blockQ')
    BY <1>1, <1>2, <1>4
<1>7. \A p \in Providers :
          /\ IsInjective(workQ'[p])
          /\ \A b \in Blocks : InList(workQ'[p], b) \/ hand'[p] = b => At(b) = p
    BY <1>1, RoutedFacts
<1> QED
    BY <1>5, <1>6, <1>7 DEF Routed

\* It passes the block on to the worker of its provider.
LEMMA RoutedPass ==
    ASSUME Typed, Routed, SchedulePass
    PROVE  Routed' /\ \A b \in Blocks : InTransit(b)' => InTransit(b)
<1>1. PICK c \in Blocks : c = sched
    BY DEF Typed, SchedulePass
<1>2. PICK p \in Providers : p = At(c)
    BY BlockParts
<1>3. /\ sched' = NoBlock /\ blockQ' = blockQ /\ hand' = hand
      /\ workQ' = [workQ EXCEPT ![p] = Append(@, c)]
    BY <1>1, <1>2 DEF SchedulePass
<1>4. PICK s \in Seq(Blocks) : s = workQ[p] /\ IsInjective(s)
    BY RoutedFacts
<1>5. workQ'[p] = Append(s, c) /\ \A q \in Providers \ {p} : workQ'[q] = workQ[q]
    BY <1>3, <1>4 DEF Typed
<1>6. /\ ~InList(s, c) => IsInjective(Append(s, c))
      /\ \A b : InList(Append(s, c), b) => InList(s, b) \/ b = c
    BY <1>4, ShorterLists
<1>7. OnePlace(c)
    BY RoutedFacts
<1>8. ~InList(s, c) /\ ~InList(blockQ, c) /\ hand[p] # c
    BY <1>1, <1>2, <1>4, <1>7 DEF OnePlace
<1>9. ASSUME NEW b \in Blocks, b # c
      PROVE  /\ InList(workQ'[At(b)], b) => InList(workQ[At(b)], b)
             /\ sched' # b /\ sched # b
  <2>1. At(b) \in Providers /\ b # NoBlock
    BY RoutedFacts
  <2> QED  BY <1>1, <1>3, <1>4, <1>5, <1>6, <1>9, <2>1
<1>10. ASSUME NEW b \in Blocks  PROVE OnePlace(b)' /\ (InTransit(b)' => InTransit(b))
  <2>1. CASE b = c
    <3>1. sched' # b /\ ~InList(blockQ', b) /\ hand'[At(b)] # b
      BY <1>2, <1>3, <1>8, <2>1, RoutedFacts
    <3> QED  BY <1>1, <2>1, <3>1 DEF OnePlace, InTransit
  <2>2. CASE b # c
    <3>1. OnePlace(b)
      BY RoutedFacts
    <3> QED  BY <1>3, <1>9, <2>2, <3>1 DEF OnePlace, InTransit
  <2> QED  BY <2>1, <2>2
<1>11. ASSUME NEW q \in Providers
       PROVE  /\ IsInjective(workQ'[q])
              /\ \A b \in Blocks : InList(workQ'[q], b) \/ hand'[q] = b => At(b) = q
  <2>1. CASE q = p
    BY <1>2, <1>3, <1>4, <1>5, <1>6, <1>8, <2>1, RoutedFacts
  <2>2. CASE q # p
    BY <1>3, <1>5, <2>2, RoutedFacts
  <2> QED  BY <2>1, <2>2
<1> QED
    BY <1>3, <1>10, <1>11 DEF Routed

\* A worker takes the first block of its queue in hand.
LEMMA RoutedWork ==
    ASSUME Typed, Routed, NEW p \in Providers, WorkerTake(p)
    PROVE  Routed' /\ \A b \in Blocks : InTransit(b)' => InTransit(b)
<1>1. PICK s \in Seq(Blocks) : s = workQ[p] /\ IsInjective(s)
    BY RoutedFacts
<1>2. /\ hand[p] = NoBlock /\ s # <<>> /\ sched' = sched /\ blockQ' = blockQ
      /\ hand' = [hand EXCEPT ![p] = Head(s)] /\ workQ' = [workQ EXCEPT ![p] = Tail(s)]
    BY <1>1 DEF WorkerTake
<1>3. PICK h \in Blocks : h = Head(s) /\ InList(s, h)
    BY <1>1, <1>2, QueuesTyped, ShorterLists
<1>4. /\ IsInjective(Tail(s)) /\ ~InList(Tail(s), h)
      /\ \A b : InList(Tail(s), b) => InList(s, b)
    BY <1>1, <1>2, <1>3, ShorterLists
<1>5. /\ hand'[p] = h /\ workQ'[p] = Tail(s)
      /\ \A q \in Providers \ {p} : hand'[q] = hand[q] /\ workQ'[q] = workQ[q]
    BY <1>2, <1>3 DEF Typed
<1>6. At(h) = p
    BY <1>1, <1>3, RoutedFacts
<1>7. ASSUME NEW b \in Blocks  PROVE OnePlace(b)' /\ (InTransit(b)' => InTransit(b))
  <2>1. OnePlace(b) /\ At(b) \in Providers
    BY RoutedFacts
  <2>2. InList(workQ'[At(b)], b) => InList(workQ[At(b)], b) /\ b # h
    <3>1. CASE At(b) = p
      BY <1>1, <1>4, <1>5, <3>1
    <3>2. CASE At(b) # p
      BY <1>5, <1>6, <2>1, <3>2
    <3> QED  BY <3>1, <3>2
  <2>3. hand'[At(b)] = b => hand[At(b)] = b \/ (b = h /\ InList(workQ[At(b)], b))
    <3>1. CASE At(b) = p
      BY <1>1, <1>3, <1>5, <3>1
    <3>2. CASE At(b) # p
      BY <1>5, <2>1, <3>2
    <3> QED  BY <3>1, <3>2
  <2> QED  BY <1>2, <2>1, <2>2, <2>3 DEF OnePlace, InTransit
<1>8. ASSUME NEW q \in Providers
      PROVE  /\ IsInjective(workQ'[q])
             /\ \A b \in Blocks : InList(workQ'[q], b) \/ hand'[q] = b => At(b) = q
  <2>1. CASE q = p
    BY <1>1, <1>4, <1>5, <1>6, <2>1, RoutedFacts
  <2>2. CASE q # p
    BY <1>5, <2>2, RoutedFacts
  <2> QED  BY <2>1, <2>2
<1> QED
    BY <1>2, <1>7, <1>8, RoutedFacts DEF Routed

\* It has fetched it: the block is nowhere any more.
LEMMA RoutedFetch ==
    ASSUME Typed, Routed, NEW p \in Providers, WorkerFetch(p)
    PROVE  /\ Routed' /\ \A b \in Blocks : InTransit(b)' => InTransit(b)
           /\ \E c \in Blocks : c = hand[p] /\ InTransit(c) /\ ~InTransit(c)'
<1>1. PICK c \in Blocks : c = hand[p]
    BY QueuesTyped DEF WorkerFetch, WorkerFetchWhen
<1>2. /\ sched' = sched /\ blockQ' = blockQ /\ workQ' = workQ
      /\ hand' = [hand EXCEPT ![p] = NoBlock]
    BY DEF WorkerFetch, WorkerFetchWhen
<1>3. hand'[p] = NoBlock /\ \A q \in Providers \ {p} : hand'[q] = hand[q]
    BY <1>2 DEF Typed
<1>4. At(c) = p /\ OnePlace(c) /\ InTransit(c)
    BY <1>1, RoutedFacts DEF InTransit
<1>5. ASSUME NEW b \in Blocks
      PROVE  OnePlace(b)' /\ (InTransit(b)' => InTransit(b)) /\ (b = c => ~InTransit(b)')
  <2>1. OnePlace(b) /\ At(b) \in Providers /\ b # NoBlock
    BY RoutedFacts
  <2>2. hand'[At(b)] = b => hand[At(b)] = b /\ b # c
    BY <1>3, <1>4, <2>1
  <2>3. OnePlace(b)' /\ (InTransit(b)' => InTransit(b))
    BY <1>2, <2>1, <2>2 DEF OnePlace, InTransit
  <2>4. b = c => ~InTransit(b)'
    BY <1>1, <1>2, <1>4, <2>2 DEF OnePlace, InTransit
  <2> QED  BY <2>3, <2>4
<1>6. ASSUME NEW q \in Providers
      PROVE  /\ IsInjective(workQ'[q])
             /\ \A b \in Blocks : InList(workQ'[q], b) \/ hand'[q] = b => At(b) = q
  <2>1. \A b \in Blocks : hand'[q] = b => hand[q] = b
    BY <1>3, RoutedFacts
  <2> QED  BY <1>2, <2>1, RoutedFacts
<1>7. Routed'
    BY <1>2, <1>5, <1>6, RoutedFacts DEF Routed
<1> QED
    BY <1>1, <1>4, <1>5, <1>7

\* A block that is sent was nowhere before: those on their way are sent.
LEMMA RoutedSend ==
    ASSUME Typed, Aligned, Routed, Answered, NEW d \in Downloads, SendBlock(d)
    PROVE  LET c == <<d, Len(down[d].shards)>>
           IN  /\ Routed' /\ c \in Blocks /\ ~InTransit(c) /\ outcome[c] = "none" /\ c \notin answers
               /\ \A b \in Blocks : InTransit(b)' => InTransit(b) \/ b = c
<1>1. PICK c \in Blocks : c = <<d, Len(down[d].shards)>> /\ blockQ' = Append(blockQ, c)
    BY SendOn
<1>2. /\ c[1] = d /\ c[2] = Len(down[d].shards) /\ Len(down[d].shards) \in Nat
      /\ Sent(down[d]) = Len(down[d].shards) - 1
    BY <1>1, SendOn DEF Sent
<1>3. ~InTransit(c) /\ outcome[c] = "none" /\ c \notin answers
    BY <1>2 DEF Answered
<1>4. sched' = sched /\ workQ' = workQ /\ hand' = hand
    BY DEF SendBlock
<1>5. IsInjective(blockQ') /\ \A b : InList(blockQ', b) => InList(blockQ, b) \/ b = c
  <2>1. PICK s \in Seq(Blocks) : s = blockQ /\ IsInjective(s)
    BY RoutedFacts
  <2>2. ~InList(s, c)
    BY <1>3, <2>1 DEF InTransit
  <2> QED  BY <1>1, <2>1, <2>2, ShorterLists
<1>6. ASSUME NEW b \in Blocks  PROVE OnePlace(b)' /\ (InTransit(b)' => InTransit(b) \/ b = c)
  <2>1. OnePlace(b)
    BY RoutedFacts
  <2> QED  BY <1>3, <1>4, <1>5, <2>1 DEF OnePlace, InTransit
<1>7. Routed'
    BY <1>4, <1>5, <1>6, RoutedFacts DEF Routed
<1> QED
    BY <1>1, <1>3, <1>6, <1>7

\* The queues are made anew.
LEMMA RoutedRestart ==
    ASSUME Typed, Routed, Restart
    PROVE  Routed' /\ \A b \in Blocks : ~InTransit(b)'
<1>1. /\ blockQ' = <<>> /\ sched' = NoBlock
      /\ \A p \in Providers : workQ'[p] = <<>> /\ hand'[p] = NoBlock
    BY DEF Restart, RestartWhen
<1>2. IsInjective(<<>>) /\ ~\E b : InList(<<>>, b)
    BY DEF IsInjective, InList
<1>3. \A b \in Blocks : ~InTransit(b)' /\ OnePlace(b)'
    BY <1>1, <1>2, RoutedFacts DEF InTransit, OnePlace
<1> QED
    BY <1>1, <1>2, <1>3, RoutedFacts DEF Routed

-----------------------------------------------------------------------------
(* What came of a block.                                                   *)

\* Sending a block is the only step after which more blocks are sent.
LEMMA SentStep ==
    ASSUME Typed, Staged, Aligned, [Next]_vars, NEW e \in Downloads
    PROVE  \/ Sent(down'[e]) = Sent(down[e])
           \/ /\ SendBlock(e) /\ Sent(down'[e]) = Len(down[e].shards)
              /\ Sent(down[e]) = Len(down[e].shards) - 1
<1>1. ASSUME NEW d \in Downloads, SameBut(d), down[d].pc # "sending",
             down'[d].pc # "sending", down'[d].shards = down[d].shards
      PROVE  Sent(down'[e]) = Sent(down[e])
    BY <1>1 DEF SameBut, Sent
<1>2. CASE Start
  <2>1. PICK d \in Downloads : Unstarted(d) /\ down' = [down EXCEPT ![d].pc = "creating"]
    BY <1>2, StartOn
  <2>2. /\ SameBut(d) /\ down[d].pc # "sending" /\ down'[d].pc # "sending"
        /\ down'[d].shards = down[d].shards
    <3>1. SameBut(d) /\ down'[d].pc = "creating" /\ down'[d].shards = down[d].shards
      BY <2>1, PlaceOn DEF Working
    <3> QED  BY <2>1, <3>1 DEF Unstarted
  <2> QED  BY <1>1, <2>2
<1>3. ASSUME NEW d \in Downloads, ReceiveFinished(d)  PROVE Sent(down'[e]) = Sent(down[e])
  <2>1. down[d].pc = "reporting" /\ down' = [down EXCEPT ![d].pc = "over"]
    BY <1>3 DEF ReceiveFinished, ReceiveFinishedOf
  <2>2. SameBut(d) /\ down'[d].pc = "over" /\ down'[d].shards = down[d].shards
    BY <2>1, PlaceOn
  <2> QED  BY <1>1, <2>1, <2>2
<1>4. ASSUME NEW d \in Downloads, CreateBlock(d)  PROVE Sent(down'[e]) = Sent(down[e])
  <2>1. PICK r \in Row, s \in Row : r = down[d] /\ s = down'[d]
    BY <1>4, CreateOn DEF Typed
  <2>2. r.shards \in Seq(Nat \ {0}) /\ r.pc = "creating" /\ SameBut(d)
    BY <1>4, <2>1, CreateOn, RowNumbers
  <2>3. \/ s.pc = "sending" /\ s.shards = Append(r.shards, Len(r.shards) + 1)
        \/ s.pc \in {"aborted", "collecting"} /\ s.shards = r.shards
    BY <1>4, <2>1, CreateOn
  <2>4. Sent(s) = Sent(r)
    BY <2>2, <2>3 DEF Sent
  <2> QED  BY <2>1, <2>2, <2>4 DEF SameBut
<1>5. ASSUME NEW d \in Downloads, NEW b \in Blocks, Collect(d, b)
      PROVE  Sent(down'[e]) = Sent(down[e])
  <2>1. /\ SameBut(d) /\ down[d].pc # "sending" /\ down'[d].pc # "sending"
        /\ down'[d].shards = down[d].shards
    BY <1>5, CollectOn
  <2> QED  BY <1>1, <2>1
<1>6. ASSUME NEW d \in Downloads, Finish(d)  PROVE Sent(down'[e]) = Sent(down[e])
    BY <1>1, <1>6, FinishOn
<1>7. ASSUME NEW d \in Downloads, SendBlock(d)
      PROVE  \/ Sent(down'[e]) = Sent(down[e])
             \/ /\ SendBlock(e) /\ Sent(down'[e]) = Len(down[e].shards)
                /\ Sent(down[e]) = Len(down[e].shards) - 1
    BY <1>7, SendOn DEF SameBut, Sent
<1>8. ASSUME down' = down  PROVE Sent(down'[e]) = Sent(down[e])
    BY <1>8
<1> QED
    BY <1>2, <1>3, <1>4, <1>5, <1>6, <1>7, <1>8
    DEF Next, PerformDownload, Download, AwaitDownloads, DownloadThread, Dequeue,
       BatchStarted, PollNothing, Restart, RestartWhen, BlockScheduleThread, ScheduleTake,
       SchedulePass, DownloadWorker, WorkerTake, WorkerFetch, WorkerFetchWhen, vars

\* What has been sent is a number.
LEMMA SentType ==
    ASSUME Typed, NEW d \in Downloads
    PROVE  Sent(down[d]) \in Int
<1>1. down[d] \in Row
    BY DEF Typed
<1> QED
    BY <1>1, RowNumbers DEF Sent

\* The steps that leave a block's way to the queues.
LEMMA RoutedStep ==
    ASSUME Typed, Aligned, Routed, Answered, [Next]_vars
    PROVE  /\ Routed'
           /\ \A b \in Blocks : InTransit(b)' =>
                 \/ InTransit(b)
                 \/ \E d \in Downloads : SendBlock(d) /\ b = <<d, Len(down[d].shards)>>
<1>1. ASSUME NEW d \in Downloads, SendBlock(d)
      PROVE  /\ Routed'
             /\ \A b \in Blocks : InTransit(b)' => InTransit(b) \/ b = <<d, Len(down[d].shards)>>
    BY <1>1, RoutedSend
<1>2. CASE ScheduleTake
    BY <1>2, RoutedTake
<1>3. CASE SchedulePass
    BY <1>3, RoutedPass
<1>4. ASSUME NEW p \in Providers, DownloadWorker(p)
      PROVE  Routed' /\ \A b \in Blocks : InTransit(b)' => InTransit(b)
    BY <1>4, RoutedWork, RoutedFetch DEF DownloadWorker
<1>5. CASE Restart
    BY <1>5, RoutedRestart
<1>6. ASSUME UNCHANGED queues
      PROVE  Routed' /\ \A b \in Blocks : InTransit(b)' => InTransit(b)
    BY <1>6 DEF queues, Routed, OnePlace, InTransit
<1> QED
    BY <1>1, <1>2, <1>3, <1>4, <1>5, <1>6
    DEF Next, PerformDownload, Download, AwaitDownloads, DownloadThread, Dequeue, Start,
       ReceiveFinished, ReceiveFinishedOf, CreateBlock, Collect, CollectIf, Finish,
       BatchStarted, PollNothing, BlockScheduleThread, queues, vars

\* An outcome is written by the worker that had the block in hand, and then
\* the block waits to be collected.
LEMMA FetchOn ==
    ASSUME Typed, Routed, NEW p \in Providers, WorkerFetch(p)
    PROVE  \E c \in Blocks, end \in {"ok", "missing", "corrupt"} :
              /\ InTransit(c) /\ ~InTransit(c)' /\ answers' = answers \cup {c}
              /\ outcome'[c] = end /\ \A b \in Blocks \ {c} : outcome'[b] = outcome[b]
              /\ down' = down
<1>1. PICK c \in Blocks : c = hand[p] /\ InTransit(c) /\ ~InTransit(c)'
    BY RoutedFetch
<1>2. PICK end \in {"ok", "missing", "corrupt"} : outcome' = [outcome EXCEPT ![c] = end]
    BY <1>1 DEF WorkerFetch, WorkerFetchWhen
<1>3. outcome'[c] = end /\ \A b \in Blocks \ {c} : outcome'[b] = outcome[b]
    BY <1>2 DEF Typed
<1>4. answers' = answers \cup {c} /\ down' = down
    BY <1>1 DEF WorkerFetch, WorkerFetchWhen
<1> QED
    BY <1>1, <1>3, <1>4

\* No other step writes one.
LEMMA OutcomeStays ==
    ASSUME [Next]_vars, \A p \in Providers : ~WorkerFetch(p)
    PROVE  /\ outcome' = outcome
           /\ \/ answers' = answers
              \/ \E d \in Downloads, b \in Blocks : Collect(d, b)
<1> QED
    BY DEF Next, PerformDownload, Download, AwaitDownloads, DownloadThread, Dequeue, Start,
       ReceiveFinished, ReceiveFinishedOf, CreateBlock, SendBlock, Collect, CollectIf, Finish,
       BatchStarted, PollNothing, Restart, RestartWhen, BlockScheduleThread, ScheduleTake,
       SchedulePass, DownloadWorker, WorkerTake, vars

\* Every step keeps what is known of a block.
LEMMA AnsweredStep ==
    ASSUME Typed, Staged, Aligned, Routed, Answered, [Next]_vars
    PROVE  Answered'
<1>1. \A b \in Blocks : b[1] \in Downloads /\ b[2] \in Int /\ b = <<b[1], b[2]>>
    BY BlockParts
<1>2. \A e \in Downloads : /\ Sent(down[e]) \in Int /\ Sent(down'[e]) \in Int
                           /\ Sent(down'[e]) >= Sent(down[e])
  <2>1. ASSUME NEW e \in Downloads
        PROVE  Sent(down[e]) \in Int /\ Sent(down'[e]) \in Int /\ Sent(down'[e]) >= Sent(down[e])
    <3>1. Sent(down[e]) \in Int
      BY SentType
    <3>2. SendBlock(e) => Len(down[e].shards) \in Nat
      BY SendOn
    <3> QED  BY <3>1, <3>2, SentStep
  <2> QED  BY <2>1
<1>3. ASSUME NEW b \in Blocks, InTransit(b)'
      PROVE  outcome[b] = "none" /\ b[2] <= Sent(down'[b[1]])
  <2>1. CASE InTransit(b)
    BY <1>1, <1>2, <2>1 DEF Answered
  <2>2. CASE ~InTransit(b)
    <3>1. PICK d \in Downloads : SendBlock(d) /\ b = <<d, Len(down[d].shards)>>
      BY <1>3, <2>2, RoutedStep
    <3>2. outcome[b] = "none"
      BY <3>1, RoutedSend
    <3>3. b[1] = d /\ b[2] = Len(down[d].shards)
      BY <3>1
    <3>4. Sent(down'[d]) = Len(down[d].shards)
      BY <3>1, SendOn DEF Sent
    <3> QED  BY <1>1, <3>2, <3>3, <3>4
  <2> QED  BY <2>1, <2>2
<1>4. ASSUME NEW p \in Providers, WorkerFetch(p)  PROVE Answered'
  <2>1. PICK c \in Blocks, end \in {"ok", "missing", "corrupt"} :
              /\ InTransit(c) /\ ~InTransit(c)' /\ answers' = answers \cup {c}
              /\ outcome'[c] = end /\ \A b \in Blocks \ {c} : outcome'[b] = outcome[b]
              /\ down' = down
    BY <1>4, FetchOn
  <2>2. \A b \in Blocks : InTransit(b)' => outcome'[b] = "none"
    BY <1>3, <2>1
  <2>3. \A b \in answers' : outcome'[b] # "none"
    BY <2>1 DEF Answered, Typed
  <2>4. \A b \in Blocks : outcome'[b] # "none" => b[2] <= Sent(down[b[1]])
    BY <2>1 DEF Answered
  <2> QED  BY <1>3, <2>1, <2>2, <2>3, <2>4 DEF Answered
<1>5. CASE \A p \in Providers : ~WorkerFetch(p)
  <2>1. outcome' = outcome /\ answers' \subseteq answers
    BY <1>5, OutcomeStays, CollectOn
  <2>2. \A b \in Blocks : outcome'[b] # "none" => b[2] <= Sent(down'[b[1]])
    BY <1>1, <1>2, <2>1 DEF Answered
  <2> QED  BY <1>3, <2>1, <2>2 DEF Answered
<1> QED
    BY <1>4, <1>5

-----------------------------------------------------------------------------
(* What a download counts.                                                 *)

\* The first n blocks of a version are n.
LEMMA FirstBlocks ==
    ASSUME NEW d \in Downloads, NEW n \in Nat, n <= Data[d] + Parity[d]
    PROVE  /\ IsFiniteSet({b \in Blocks : b[1] = d /\ b[2] <= n})
           /\ Cardinality({b \in Blocks : b[1] = d /\ b[2] <= n}) = n
<1> DEFINE S == {b \in Blocks : b[1] = d /\ b[2] <= n}
           f == [i \in 1..n |-> <<d, i>>]
<1>1. ASSUME NEW i \in 1..n  PROVE <<d, i>> \in S
  <2>1. i \in 1..(Data[d] + Parity[d])
    BY Sizes
  <2> QED  BY <2>1, BlockIs
<1>2. ASSUME NEW b \in S  PROVE b[2] \in 1..n /\ b = <<d, b[2]>>
    BY BlockParts
<1>3. f \in [1..n -> S]
    BY <1>1
<1>4. f \in Injection(1..n, S)
    BY <1>3 DEF Injection, IsInjective
<1>5. f \in Surjection(1..n, S)
    BY <1>2, <1>3 DEF Surjection
<1>6. IsFiniteSet(1..n) /\ Cardinality(1..n) = n
    BY FS_Interval
<1> HIDE DEF S, f
<1>7. IsFiniteSet(S) /\ Cardinality(S) = n
    BY <1>4, <1>5, <1>6, FS_Surjection
<1> QED
    BY <1>7 DEF S

\* The blocks of a version are finitely many, and so are those of any kind.
LEMMA SomeBlocks ==
    ASSUME NEW d \in Downloads, NEW S, S \subseteq {b \in Blocks : b[1] = d}
    PROVE  IsFiniteSet(S) /\ Cardinality(S) \in Nat
<1>1. PICK n \in Nat : n = Data[d] + Parity[d]
    BY Sizes
<1>2. S \subseteq {b \in Blocks : b[1] = d /\ b[2] <= n}
    BY <1>1, BlockParts
<1>3. IsFiniteSet({b \in Blocks : b[1] = d /\ b[2] <= n})
    BY <1>1, FirstBlocks
<1>4. IsFiniteSet(S)
    BY <1>2, <1>3, FS_Subset
<1> QED
    BY <1>4, FS_CardinalityType

\* One block more, and one less.
LEMMA BlockMoves ==
    ASSUME NEW d \in Downloads, NEW S, S \subseteq {b \in Blocks : b[1] = d}, NEW c
    PROVE  /\ c \notin S => Cardinality(S \cup {c}) = Cardinality(S) + 1
           /\ c \in S => Cardinality(S \ {c}) = Cardinality(S) - 1
BY SomeBlocks, FS_AddElement, FS_RemoveElement

\* A step that leaves both counts, and what they count.
LEMMA TalliedKeeps ==
    ASSUME Tallied, \A d \in Downloads : /\ down'[d].pending = down[d].pending
                                         /\ down'[d].failed = down[d].failed
                                         /\ Awaited(d)' = Awaited(d) /\ Bad(d)' = Bad(d)
    PROVE  Tallied'
BY DEF Tallied

\* A step that changes no outcome, and no number but that of the place.
LEMMA TalliedQuiet ==
    ASSUME Typed, Staged, Aligned, Tallied, [Next]_vars,
           outcome' = outcome, answers' = answers, \A d \in Downloads : ~SendBlock(d),
           \A d \in Downloads : /\ down'[d].pending = down[d].pending
                                /\ down'[d].failed = down[d].failed
    PROVE  Tallied'
<1>1. \A d \in Downloads : Sent(down'[d]) = Sent(down[d])
    BY SentStep
<1>2. ASSUME NEW d \in Downloads  PROVE Awaited(d)' = Awaited(d) /\ Bad(d)' = Bad(d)
    BY <1>1 DEF Awaited, Bad
<1> QED
    BY <1>2, TalliedKeeps

\* A block that is sent is awaited.
LEMMA TalliedSend ==
    ASSUME Typed, Staged, Aligned, Routed, Answered, Tallied, [Next]_vars,
           NEW d \in Downloads, SendBlock(d)
    PROVE  Tallied'
<1>1. PICK c \in Blocks : /\ c = <<d, Len(down[d].shards)>>
                          /\ outcome[c] = "none" /\ c \notin answers
    BY RoutedSend
<1>2. outcome' = outcome /\ answers' = answers
    BY DEF SendBlock
<1>3. PICK n \in Int : n = Sent(down[d])
    BY SentType
<1>4. /\ SameBut(d) /\ down'[d].pending = down[d].pending + 1 /\ down'[d].failed = down[d].failed
      /\ Sent(down'[d]) = n + 1 /\ c[1] = d /\ c[2] = n + 1
    BY <1>1, <1>3, SendOn DEF Sent
<1>5. c \notin Awaited(d) /\ Awaited(d)' = Awaited(d) \cup {c}
  <2>1. \A b \in Blocks : b[1] = d => b[2] \in Int /\ b = <<d, b[2]>>
    BY BlockParts
  <2>2. \A b \in Blocks : b[1] = d => (b[2] <= n + 1 <=> b[2] <= n \/ b = c)
    BY <1>1, <1>4, <2>1
  <2>3. ~(c[2] <= n)
    BY <1>4
  <2> QED  BY <1>1, <1>2, <1>3, <1>4, <2>2, <2>3 DEF Awaited
<1>6. Cardinality(Awaited(d)') = Cardinality(Awaited(d)) + 1
  <2>1. Awaited(d) \subseteq {b \in Blocks : b[1] = d}
    BY DEF Awaited
  <2> QED  BY <1>5, <2>1, BlockMoves
<1>7. \A e \in Downloads : Bad(e)' = Bad(e)
    BY <1>2 DEF Bad
<1>8. \A e \in Downloads \ {d} : Awaited(e)' = Awaited(e)
    BY <1>2, <1>4 DEF Awaited, SameBut
<1> QED
    BY <1>4, <1>6, <1>7, <1>8 DEF Tallied, SameBut

\* A block that is collected is awaited no more, and bad if it is.
LEMMA TalliedCollect ==
    ASSUME Typed, Staged, Aligned, Answered, Tallied, [Next]_vars,
           NEW d \in Downloads, NEW c \in Blocks, Collect(d, c)
    PROVE  Tallied'
<1>1. outcome' = outcome /\ answers' = answers \ {c} /\ c \in answers /\ c[1] = d
    BY CollectOn DEF Collect, CollectIf
<1>2. /\ SameBut(d) /\ down'[d].pending = down[d].pending - 1
      /\ down'[d].failed = IF outcome[c] # "ok" THEN down[d].failed + 1 ELSE down[d].failed
    BY CollectOn
<1>3. \A e \in Downloads : Sent(down'[e]) = Sent(down[e])
  <2>1. \A e \in Downloads : ~SendBlock(e)
    BY <1>1 DEF SendBlock
  <2> QED  BY <2>1, SentStep
<1>4. outcome[c] # "none" /\ c[2] <= Sent(down[d])
    BY <1>1 DEF Answered
<1>5. c \in Awaited(d) /\ Awaited(d)' = Awaited(d) \ {c}
    BY <1>1, <1>3, <1>4 DEF Awaited
<1>6. Cardinality(Awaited(d)') = Cardinality(Awaited(d)) - 1
  <2>1. Awaited(d) \subseteq {b \in Blocks : b[1] = d}
    BY DEF Awaited
  <2> QED  BY <1>5, <2>1, BlockMoves
<1>7. c \notin Bad(d) /\ Bad(d)' = IF outcome[c] # "ok" THEN Bad(d) \cup {c} ELSE Bad(d)
  <2>1. outcome[c] # "ok" <=> outcome[c] \in {"missing", "corrupt"}
    BY <1>4 DEF Typed
  <2> QED  BY <1>1, <2>1 DEF Bad
<1>8. Cardinality(Bad(d)') = IF outcome[c] # "ok" THEN Cardinality(Bad(d)) + 1
                             ELSE Cardinality(Bad(d))
  <2>1. Bad(d) \subseteq {b \in Blocks : b[1] = d}
    BY DEF Bad
  <2> QED  BY <1>7, <2>1, BlockMoves
<1>9. \A e \in Downloads \ {d} : Awaited(e)' = Awaited(e) /\ Bad(e)' = Bad(e)
    BY <1>1, <1>3 DEF Awaited, Bad
<1> QED
    BY <1>2, <1>6, <1>8, <1>9 DEF Tallied, SameBut

\* A block that is fetched is still awaited, and not bad yet.
LEMMA TalliedFetch ==
    ASSUME Typed, Routed, Answered, Tallied, NEW p \in Providers, WorkerFetch(p)
    PROVE  Tallied'
<1>1. PICK c \in Blocks, end \in {"ok", "missing", "corrupt"} :
              /\ InTransit(c) /\ answers' = answers \cup {c}
              /\ outcome'[c] = end /\ \A b \in Blocks \ {c} : outcome'[b] = outcome[b]
              /\ down' = down
    BY FetchOn
<1>2. outcome[c] = "none"
    BY <1>1 DEF Answered
<1>3. ASSUME NEW d \in Downloads  PROVE Awaited(d)' = Awaited(d) /\ Bad(d)' = Bad(d)
    BY <1>1, <1>2 DEF Awaited, Bad
<1> QED
    BY <1>1, <1>3, TalliedKeeps

\* Every step keeps the counts of every download.
LEMMA TalliedStep ==
    ASSUME Typed, Staged, Aligned, Routed, Answered, Tallied, [Next]_vars
    PROVE  Tallied'
<1>1. ASSUME NEW d \in Downloads, SendBlock(d)  PROVE Tallied'
    BY <1>1, TalliedSend
<1>2. ASSUME NEW d \in Downloads, NEW b \in Blocks, Collect(d, b)  PROVE Tallied'
    BY <1>2, TalliedCollect
<1>3. ASSUME NEW p \in Providers, WorkerFetch(p)  PROVE Tallied'
    BY <1>3, TalliedFetch
<1>4. CASE /\ \A d \in Downloads : ~SendBlock(d)
           /\ \A d \in Downloads, b \in Blocks : ~Collect(d, b)
           /\ \A p \in Providers : ~WorkerFetch(p)
  <2>1. outcome' = outcome /\ answers' = answers
    BY <1>4, OutcomeStays
  <2>2. ASSUME NEW d \in Downloads, SameBut(d), down'[d].pending = down[d].pending,
               down'[d].failed = down[d].failed
        PROVE  Tallied'
    BY <1>4, <2>1, <2>2, TalliedQuiet DEF SameBut
  <2>3. CASE Start
    BY <2>2, <2>3, StartOn, PlaceOn DEF Working
  <2>4. ASSUME NEW d \in Downloads, ReceiveFinished(d)  PROVE Tallied'
    BY <2>2, <2>4, PlaceOn DEF ReceiveFinished, ReceiveFinishedOf
  <2>5. ASSUME NEW d \in Downloads, CreateBlock(d)  PROVE Tallied'
    BY <2>2, <2>5, CreateOn
  <2>6. ASSUME NEW d \in Downloads, Finish(d)  PROVE Tallied'
    BY <2>2, <2>6, FinishOn
  <2>7. CASE down' = down
    BY <1>4, <2>1, <2>7, TalliedQuiet
  <2> QED
    BY <1>4, <2>3, <2>4, <2>5, <2>6, <2>7
    DEF Next, PerformDownload, Download, AwaitDownloads, DownloadThread, Dequeue,
       BatchStarted, PollNothing, Restart, RestartWhen, BlockScheduleThread, ScheduleTake,
       SchedulePass, DownloadWorker, WorkerTake, vars
<1> QED
    BY <1>1, <1>2, <1>3, <1>4

-----------------------------------------------------------------------------
(* A success is earned.                                                    *)

Fetched(d) == {b \in Blocks : b[1] = d /\ outcome[b] = "ok"}

\* Every step keeps the blocks that were fetched unharmed.
LEMMA FetchedStay ==
    ASSUME Typed, Routed, Answered, [Next]_vars, NEW d \in Downloads
    PROVE  Fetched(d) \subseteq Fetched(d)'
<1>1. ASSUME NEW p \in Providers, WorkerFetch(p)  PROVE Fetched(d) \subseteq Fetched(d)'
  <2>1. PICK c \in Blocks, end \in {"ok", "missing", "corrupt"} :
              InTransit(c) /\ \A b \in Blocks \ {c} : outcome'[b] = outcome[b]
    BY <1>1, FetchOn
  <2>2. outcome[c] = "none"
    BY <2>1 DEF Answered
  <2> QED  BY <2>1, <2>2 DEF Fetched
<1>2. CASE \A p \in Providers : ~WorkerFetch(p)
    BY <1>2, OutcomeStays DEF Fetched
<1> QED
    BY <1>1, <1>2

\* When the last awaited block has come and nothing failed, all but the bad
\* blocks of those sent are there: as many as the file has data blocks.
LEMMA FinishEarned ==
    ASSUME Typed, Aligned, Answered, Tallied, NEW d \in Downloads, Finish(d), ~down'[d].err
    PROVE  Cardinality(Fetched(d)) >= Data[d]
<1>1. PICK r \in Row : r = down[d]
    BY DEF Typed
<1>2. PICK data \in Nat, parity \in Nat : data = Data[d] /\ parity = Parity[d]
    BY Sizes
<1>3. PICK n \in Nat, f \in Nat : n = Len(r.shards) /\ f = r.failed
    BY RowNumbers
<1>4. ~r.err /\ ((r.pc = "collecting" /\ r.pending = 0) \/ r.pc = "aborted")
    BY <1>1, FinishOn
<1>5. r.pc = "collecting" /\ r.pending = 0 /\ n = data + f /\ n <= data + parity
    BY <1>1, <1>2, <1>3, <1>4 DEF Aligned, AlignedRow
<1>6. Sent(down[d]) = n
    BY <1>1, <1>3, <1>5 DEF Sent
<1> DEFINE S == {b \in Blocks : b[1] = d /\ b[2] <= n}
<1>7. IsFiniteSet(S) /\ Cardinality(S) = n
    BY <1>2, <1>5, FirstBlocks
<1>8. Awaited(d) = {}
  <2>1. Awaited(d) \subseteq {b \in Blocks : b[1] = d}
    BY DEF Awaited
  <2>2. IsFiniteSet(Awaited(d)) /\ Cardinality(Awaited(d)) = 0
    BY <1>1, <1>5, <2>1, SomeBlocks DEF Tallied
  <2> QED  BY <2>2, FS_EmptySet
<1>9. S \subseteq Fetched(d) \cup Bad(d)
  <2>1. ASSUME NEW b \in S  PROVE b \in Fetched(d) \cup Bad(d)
    <3>1. outcome[b] # "none" /\ b \notin answers
      BY <1>6, <1>8 DEF Awaited
    <3>2. outcome[b] \in {"ok", "missing", "corrupt"}
      BY <3>1 DEF Typed
    <3> QED  BY <3>1, <3>2 DEF Fetched, Bad
  <2> QED  BY <2>1
<1> HIDE DEF S
<1>10. /\ IsFiniteSet(Fetched(d)) /\ Cardinality(Fetched(d)) \in Nat
       /\ IsFiniteSet(Bad(d)) /\ Cardinality(Bad(d)) = f
  <2>1. /\ Fetched(d) \subseteq {b \in Blocks : b[1] = d}
        /\ Bad(d) \subseteq {b \in Blocks : b[1] = d}
    BY DEF Fetched, Bad
  <2> QED  BY <1>1, <1>3, <2>1, SomeBlocks DEF Tallied
<1>11. PICK x \in Nat : x = Cardinality(Fetched(d))
    BY <1>10
<1>12. n <= x + f
  <2>1. /\ IsFiniteSet(Fetched(d) \cup Bad(d))
        /\ Cardinality(Fetched(d) \cup Bad(d)) <= Cardinality(Fetched(d)) + Cardinality(Bad(d))
    <3>1. PICK k \in Nat : k = Cardinality(Fetched(d) \cap Bad(d))
      BY <1>10, FS_Intersection, FS_CardinalityType
    <3>2. Cardinality(Fetched(d) \cup Bad(d)) = x + f - k
      BY <1>10, <1>11, <3>1, FS_Union
    <3>3. IsFiniteSet(Fetched(d) \cup Bad(d))
      BY <1>10, FS_Union
    <3>4. x + f - k <= x + f
      BY <1>3, <1>11, <3>1
    <3> QED  BY <1>10, <1>11, <3>2, <3>3, <3>4
  <2>2. Cardinality(S) <= Cardinality(Fetched(d) \cup Bad(d))
    BY <1>9, <2>1, FS_Subset
  <2>3. Cardinality(Fetched(d) \cup Bad(d)) \in Nat
    BY <2>1, FS_CardinalityType
  <2> QED  BY <1>7, <1>10, <1>11, <2>1, <2>2, <2>3
<1> QED
    BY <1>2, <1>5, <1>11, <1>12

\* Every step keeps the successes earned.
LEMMA EarnedStep ==
    ASSUME Typed, Staged, Aligned, Routed, Answered, Tallied, SuccessIsEarned, [Next]_vars
    PROVE  SuccessIsEarned'
<1>1. ASSUME NEW e \in Downloads, Cardinality(Fetched(e)) >= Data[e]
      PROVE  Cardinality(Fetched(e)') >= Data[e]
  <2>1. Fetched(e)' \subseteq {b \in Blocks : b[1] = e} /\ Fetched(e) \subseteq Fetched(e)'
    BY FetchedStay DEF Fetched
  <2>2. /\ IsFiniteSet(Fetched(e)') /\ Cardinality(Fetched(e)') \in Nat
        /\ IsFiniteSet(Fetched(e)) /\ Cardinality(Fetched(e)) \in Nat
    BY <2>1, SomeBlocks DEF Fetched
  <2>3. Cardinality(Fetched(e)) <= Cardinality(Fetched(e)')
    BY <2>1, <2>2, FS_Subset
  <2> QED  BY <1>1, <2>2, <2>3, Sizes
<1>2. ASSUME NEW e \in Downloads, down'[e].pc \in {"reporting", "over"}, ~down'[e].err
      PROVE  Cardinality(Fetched(e)) >= Data[e]
  <2> DEFINE Succeeded == down[e].pc \in {"reporting", "over"} /\ ~down[e].err
  <2>1. CASE Succeeded
    BY <2>1 DEF SuccessIsEarned, Fetched
  <2>2. CASE Finish(e)
    BY <1>2, <2>2, FinishEarned
  <2>3. ASSUME NEW d \in Downloads, SameBut(d),
               d # e \/ down'[d].pc \notin {"reporting", "over"}
        PROVE  Succeeded
    BY <1>2, <2>3 DEF SameBut
  <2>4. ASSUME Start  PROVE Succeeded
    <3>1. PICK d \in Downloads : down' = [down EXCEPT ![d].pc = "creating"]
      BY <2>4, StartOn
    <3>2. SameBut(d) /\ down'[d].pc = "creating"
      BY <3>1, PlaceOn DEF Working
    <3> QED  BY <2>3, <3>2
  <2>5. ASSUME NEW d \in Downloads, ReceiveFinished(d)  PROVE Succeeded
    <3>1. down[d].pc = "reporting" /\ down' = [down EXCEPT ![d].pc = "over"]
      BY <2>5 DEF ReceiveFinished, ReceiveFinishedOf
    <3>2. SameBut(d) /\ down'[d].err = down[d].err
      BY <3>1, PlaceOn
    <3> QED  BY <1>2, <3>1, <3>2 DEF SameBut
  <2>6. ASSUME NEW d \in Downloads, CreateBlock(d)  PROVE Succeeded
    BY <2>3, <2>6, CreateOn
  <2>7. ASSUME NEW d \in Downloads, SendBlock(d)  PROVE Succeeded
    BY <2>3, <2>7, SendOn
  <2>8. ASSUME NEW d \in Downloads, NEW b \in Blocks, Collect(d, b)  PROVE Succeeded
    BY <2>3, <2>8, CollectOn
  <2>9. ASSUME NEW d \in Downloads, Finish(d), d # e  PROVE Succeeded
    BY <2>3, <2>9, FinishOn
  <2>10. ASSUME down' = down  PROVE Succeeded
    BY <1>2, <2>10
  <2>11. Succeeded \/ Finish(e)
    BY <2>4, <2>5, <2>6, <2>7, <2>8, <2>9, <2>10
    DEF Next, PerformDownload, Download, AwaitDownloads, DownloadThread, Dequeue,
       BatchStarted, PollNothing, Restart, RestartWhen, BlockScheduleThread, ScheduleTake,
       SchedulePass, DownloadWorker, WorkerTake, WorkerFetch, WorkerFetchWhen, vars
  <2> QED  BY <2>1, <2>2, <2>11
<1> QED
    BY <1>1, <1>2 DEF SuccessIsEarned, Fetched

-----------------------------------------------------------------------------
(* The invariant, and what follows from it.                                *)

\* The invariant holds at first: nothing has been asked for.
LEMMA IInvInit == Init => IInv
<1> SUFFICES ASSUME Init  PROVE IInv
    OBVIOUS
<1>1. <<>> \in Seq(Blocks) /\ <<>> \in Seq(Downloads) /\ <<>> \in Seq(Nat \ {0}) /\ Len(<<>>) = 0
    OBVIOUS
<1>2. NewDownload \in Row
    BY <1>1 DEF Row, NewDownload
<1>3. Typed
    BY <1>1, <1>2, DownloadAssumption DEF Init, Typed
<1>4. Staged
    BY Batches DEF Init, Staged, Unstarted, NewDownload
<1>5. Started = {}
    BY DEF Init, Started, NewDownload
<1>6. Counted
    BY <1>5, FS_EmptySet, SumOfNone, DownloadAssumption DEF Init, Counted
<1>7. ASSUME NEW d \in Downloads  PROVE AlignedRow(down[d], Data[d], Parity[d])
  <2>1. down[d] = NewDownload
    BY DEF Init
  <2>2. NewDownload.pc = "none" /\ NewDownload.shards = <<>> /\ NewDownload.failed = 0
    BY DEF NewDownload
  <2>3. InOrder(<<>>)
    BY DEF InOrder
  <2> QED  BY <1>1, <2>1, <2>2, <2>3, Sizes DEF AlignedRow
<1>8. ASSUME NEW b \in Blocks  PROVE ~InTransit(b) /\ OnePlace(b)
  <2>1. ~InList(<<>>, b)
    BY DEF InList
  <2> QED  BY <2>1, BlockParts DEF Init, InTransit, OnePlace
<1>9. Routed
  <2>1. IsInjective(<<>>) /\ \A b : ~InList(<<>>, b)
    BY DEF IsInjective, InList
  <2> QED  BY <1>8, <2>1, BlockParts DEF Init, Routed
<1>10. Answered
    BY <1>8 DEF Init, Answered
<1>11. ASSUME NEW d \in Downloads
       PROVE  down[d].pending = Cardinality(Awaited(d)) /\ down[d].failed = Cardinality(Bad(d))
  <2>1. down[d].pending = 0 /\ down[d].failed = 0 /\ Sent(down[d]) = 0
    BY <1>1 DEF Init, NewDownload, Sent
  <2>2. \A b \in Blocks : b[1] = d => b[2] \in 1..(Data[d] + Parity[d])
    BY BlockParts
  <2>3. Awaited(d) = {} /\ Bad(d) = {}
    BY <2>1, <2>2, Sizes DEF Init, Awaited, Bad
  <2> QED  BY <2>1, <2>3, FS_EmptySet
<1>12. SuccessIsEarned
    BY DEF Init, NewDownload, SuccessIsEarned
<1> QED
    BY <1>3, <1>4, <1>6, <1>7, <1>9, <1>10, <1>11, <1>12 DEF IInv, Aligned, Tallied

\* Every step keeps it.
LEMMA IInvStep == IInv /\ [Next]_vars => IInv'
<1> SUFFICES ASSUME IInv, [Next]_vars  PROVE IInv'
    OBVIOUS
<1>1. /\ Typed /\ Staged /\ Counted /\ Aligned /\ Routed /\ Answered /\ Tallied
      /\ SuccessIsEarned
    BY DEF IInv
<1> QED
    BY <1>1, TypedStep, StagedStep, CountedStep, AlignedStep, RoutedStep, AnsweredStep,
       TalliedStep, EarnedStep DEF IInv

\* The counters of the thread and of the downloads are never negative: each
\* is the size of what it counts.
THEOREM TypeCorrect == Spec => []TypeOK
<1>1. ASSUME IInv  PROVE TypeOK
  <2>1. Typed /\ Counted /\ Tallied
    BY <1>1 DEF IInv
  <2>2. active \in Nat /\ activeBlocks \in Nat
    BY <2>1, StartedFinite DEF Counted, Started
  <2>3. ASSUME NEW d \in Downloads  PROVE down[d].pending \in Nat
    <3>1. Awaited(d) \subseteq {b \in Blocks : b[1] = d}
      BY DEF Awaited
    <3> QED  BY <2>1, <3>1, SomeBlocks DEF Tallied
  <2>4. down \in [Downloads -> [pc : Working \cup {"none", "reporting", "over"},
                               shards : Seq(Nat \ {0}), pending : Nat, failed : Nat,
                               err : BOOLEAN]]
    BY <2>1, <2>3 DEF Typed, Row
  <2> QED  BY <2>1, <2>2, <2>4 DEF Typed, TypeOK
<1>2. QED
    BY <1>1, IInvInit, IInvStep, PTL DEF Spec

\* The blocks of a download are the version's, in order, whatever failed: the
\* decoder gets each shard in its place.
THEOREM AlignedShards == Spec => []ShardsAligned
<1>1. IInv => ShardsAligned
    BY DEF IInv, Aligned, AlignedRow, InOrder, ShardsAligned
<1>2. QED
    BY <1>1, IInvInit, IInvStep, PTL DEF Spec

\* The downloads at work are within both limits, for any number of requests.
THEOREM LimitsKept == Spec => []WithinLimits
<1>1. ASSUME IInv  PROVE WithinLimits
  <2> DEFINE S == {d \in Downloads : down[d].pc \in Working}
             files == [d \in Downloads |-> Len(down[d].shards) - down[d].failed]
  <2>1. Typed /\ Counted /\ Aligned
    BY <1>1 DEF IInv
  <2>2. S \subseteq Started /\ Started \subseteq Downloads
    BY DEF Started, Working
  <2>3. ASSUME NEW d \in Downloads
        PROVE  files[d] \in Int /\ files[d] <= Data[d]
    <3>1. PICK r \in Row : r = down[d]
      BY <2>1 DEF Typed
    <3>2. PICK n \in Nat, f \in Nat : n = Len(r.shards) /\ f = r.failed
      BY RowNumbers
    <3>3. n <= Data[d] + f
      BY <2>1, <3>1, <3>2 DEF Aligned, AlignedRow
    <3>4. files[d] = n - f
      BY <3>1, <3>2
    <3> QED  BY <3>2, <3>3, <3>4, Sizes
  <2> HIDE DEF S, files
  <2>4. IsFiniteSet(S) /\ IsFiniteSet(Started) /\ Cardinality(S) \in Nat /\ Cardinality(Started) \in Nat
    BY <2>2, StartedFinite
  <2>5. Cardinality(S) <= Cardinality(Started)
    BY <2>2, <2>4, FS_Subset
  <2>6. SumFunctionOnSet(files, S) <= SumFunctionOnSet(Data, S)
    <3>1. \A d \in S : files[d] \in Int /\ Data[d] \in Int /\ files[d] <= Data[d]
      BY <2>2, <2>3, Sizes
    <3> QED  BY <2>4, <3>1, SumGrows
  <2>7. SumFunctionOnSet(Data, S) <= SumFunctionOnSet(Data, Started)
    <3>1. \A d \in Started : Data[d] \in Nat
      BY <2>2, Sizes
    <3> QED  BY <2>2, <2>4, <3>1, SumOfPart
  <2>8. /\ SumFunctionOnSet(files, S) \in Int /\ SumFunctionOnSet(Data, S) \in Int
        /\ SumFunctionOnSet(Data, Started) \in Int
    <3>1. \A d \in S : files[d] \in Int
      BY <2>2, <2>3
    <3> QED  BY <2>2, <2>4, <3>1, SumType, StartedFinite
  <2>9. MaxDownloads \in Nat /\ MaxOpenFiles \in Nat
    BY DownloadAssumption
  <2>10. Cardinality(S) <= MaxDownloads /\ SumFunctionOnSet(files, S) <= MaxOpenFiles
    BY <2>1, <2>4, <2>5, <2>6, <2>7, <2>8, <2>9 DEF Counted
  <2> QED  BY <2>10 DEF S, files, WithinLimits
<1>2. QED
    BY <1>1, IInvInit, IInvStep, PTL DEF Spec

\* A download that reports success fetched enough blocks for the decoder,
\* in whatever order the answers came.
THEOREM EarnedSuccess == Spec => []SuccessIsEarned
<1>1. IInv => SuccessIsEarned
    BY DEF IInv
<1>2. QED
    BY <1>1, IInvInit, IInvStep, PTL DEF Spec

\* The thread closes the queue when nobody sends to it: a count of 0 means
\* that no download runs.
THEOREM QuietClose == Spec => CloseIsQuiet
<1>1. ASSUME IInv, [Next]_vars
      PROVE  thread.pc = "draining" /\ thread'.pc = "idle" =>
                \A d \in Downloads : down[d].pc \notin Working
  <2> SUFFICES ASSUME thread.pc = "draining", thread'.pc = "idle"
               PROVE  \A d \in Downloads : down[d].pc \notin Working
    OBVIOUS
  <2>1. Typed /\ Counted /\ Staged /\ Aligned
    BY <1>1 DEF IInv
  <2>2. Restart
    <3>1. ~Start /\ ~BatchStarted /\ ~PollNothing /\ \A q \in Requests : ~Dequeue(q)
      BY DEF Start, BatchStarted, PollNothing, Dequeue
    <3>2. thread' # thread
      OBVIOUS
    <3> QED
      BY <1>1, <3>1, <3>2
      DEF Next, PerformDownload, Download, AwaitDownloads, DownloadThread, ReceiveFinished,
       ReceiveFinishedOf, CreateBlock, SendBlock, Collect, CollectIf, Finish,
       BlockScheduleThread, ScheduleTake, SchedulePass, DownloadWorker, WorkerTake,
       WorkerFetch, WorkerFetchWhen, vars
  <2>3. Cardinality(Started) = 0
    BY <2>1, <2>2 DEF Restart, RestartWhen, Counted
  <2>4. Started = {}
    <3>1. IsFiniteSet(Started)
      BY StartedFinite DEF Started
    <3> QED  BY <2>3, <3>1, FS_EmptySet
  <2> QED  BY <2>4 DEF Started, Working
<1>2. QED
    BY <1>1, IInvInit, IInvStep, PTL DEF Spec, CloseIsQuiet
=============================================================================
