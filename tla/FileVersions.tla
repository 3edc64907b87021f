---------------------------- MODULE FileVersions ----------------------------
(***************************************************************************)
(* The versions of one file: the metaserver's document, the renter's       *)
(* cached copies of it, the blocks at the providers, and everyone who      *)
(* writes one from an earlier reading of another: the requests of the      *)
(* renter's clients (renter/renter.go, uploadVersion in renter/upload.go), *)
(* the restorer (renter/restore.go) and the metaserver's auditor           *)
(* (metaserver/auditrunner.go).                                            *)
(*                                                                         *)
(* A call to the metaserver is one action: every handler here ends in one  *)
(* write of the document, and the document's absence, the only thing that  *)
(* can change after the handler's checks, fails that write as well.        *)
(* Storing the blocks of an upload and removing those of a version are one *)
(* action each; UploadPipeline and ProviderStore have their steps.         *)
(*                                                                         *)
(* A file object of Go is a length and an array that other holders of the  *)
(* object share: arrays keeps the arrays, list the object each reading of  *)
(* the metaserver's list made, the last being the cache.                   *)
(***************************************************************************)
EXTENDS Integers, SequencesExt, Lists

CONSTANTS
    Threads,      \* requests served at once
    Providers,
    Capacity,     \* Capacity[p]: blocks the contract with p has room for
    FirstAt,      \* FirstAt[i]: where block i of the first version is
    Requests,     \* the kinds of requests clients make
    Gone,         \* the document of a deleted file
    MaxUploads, MaxRequests,            \* bounds: requests made
    MaxFaults, MaxCorrupt, MaxCrashes,  \* bounds: what goes wrong
    MaxBatches, MaxAudits               \* bounds: batches and audits

Blocks == DOMAIN FirstAt
Uploads == 0..MaxUploads

\* The blocks of the version there is at first; the contracts had room for it.
FirstBlocks(p) == {<<0, i>> : i \in {j \in Blocks : FirstAt[j] = p}}

ASSUME FileAssumption ==
    /\ IsFiniteSet(Providers)
    /\ FirstAt \in Seq(Providers) \ {<<>>}
    /\ Capacity \in [Providers -> Nat]
    /\ \A p \in Providers : Cardinality(FirstBlocks(p)) <= Capacity[p]
    /\ MaxUploads \in Nat
    /\ Requests \subseteq {"upload", "rename", "removeVersion", "removeFile", "pull"}

\* A version: its number, the upload that made it, which stands for the IDs
\* of its blocks, and the provider each block is said to be with.
Version == [num : Nat, up : Uploads, at : [Blocks -> Providers]]

ASSUME GoneAssumption == Gone \notin Seq(Version)

VARIABLES
    doc,        \* the versions in the metaserver's document, or Gone
    counter,    \* the last version number drawn
    arrays,     \* the arrays of versions behind the renter's file objects
    list,       \* list[e]: the file object of the e-th file list
    disk,       \* the renter's last snapshot
    free,       \* free[p]: blocks the freelist has left with p
    has, bad,   \* has[p]: blocks whose files p has, bad[p]: the corrupted ones
    used,       \* used[p]: blocks p has counted
    thread,     \* thread[t]: the request t serves
    queue,      \* batches offered to the restore queue
    restorer, auditor,
    spent,      \* how much of each bound is used up
    acked, asked,      \* history: uploads acknowledged; asked to be removed
    suspect, dropped, overtaken,   \* history: uploads that a named mishap hit
    misnumbered,       \* history: a cached object may have a version twice or
                       \* under the number 0
    slack, since       \* history: space miscounted; stored since the snapshot

renterVars == <<arrays, list, disk>>
storeVars == <<free, has, bad, used, slack, since>>
history == <<acked, asked, suspect, dropped, overtaken, misnumbered>>
vars == <<doc, counter, renterVars, storeVars, thread, queue, restorer, auditor,
          spent, history>>

-----------------------------------------------------------------------------
Slice(obj) == SubSeq(arrays[obj.arr], 1, obj.len)
Cached == list[Len(list)]
Ups(versions) == {versions[i].up : i \in DOMAIN versions}
Nums(versions) == {versions[i].num : i \in DOMAIN versions}

\* The first of the versions with a number, as findVersion finds it.
Slot(versions, num) ==
    CHOOSE i \in DOMAIN versions :
        /\ versions[i].num = num
        /\ \A j \in 1..(i - 1) : versions[j].num # num

Init ==
    LET first == [num |-> 0, up |-> 0, at |-> FirstAt]
    IN  /\ doc = <<first>>
        /\ counter = 0
        /\ arrays = <<<<first>>>>
        /\ list = <<[there |-> TRUE, arr |-> 1, len |-> 1]>>
        /\ has = [p \in Providers |-> FirstBlocks(p)]
        /\ bad = [p \in Providers |-> {}]
        /\ used = [p \in Providers |-> Cardinality(FirstBlocks(p))]
        /\ free = [p \in Providers |-> Capacity[p] - Cardinality(FirstBlocks(p))]
        /\ disk = [there |-> TRUE, versions |-> <<first>>, free |-> free]
        /\ thread = [t \in Threads |-> [pc |-> "idle"]]
        /\ queue = {}
        /\ restorer = [pc |-> "idle"]
        /\ auditor = <<>>
        /\ spent = [requests |-> 0, uploads |-> 0, faults |-> 0, corrupt |-> 0,
                    crashes |-> 0, batches |-> 0, audits |-> 0]
        /\ acked = {0} /\ asked = {} /\ suspect = {} /\ dropped = {} /\ overtaken = {}
        /\ misnumbered = FALSE
        /\ slack = [p \in Providers |-> 0]
        /\ since = [p \in Providers |-> 0]

Spend(what) == spent' = [spent EXCEPT ![what] = @ + 1]

\* A call answers, is refused without an effect, or loses its answer.
Replies == {"ok", "refused", "lost"}
Reply(reply) ==
    \/ reply = "ok" /\ UNCHANGED spent
    \/ reply # "ok" /\ spent.faults < MaxFaults /\ Spend("faults")

Goto(t, pc) == thread' = [thread EXCEPT ![t].pc = pc]
Finish(t) == thread' = [thread EXCEPT ![t] = [pc |-> "idle"]]

SaveSnapshot ==
    /\ disk' = [there |-> list'[Len(list')].there,
                versions |-> LET obj == list'[Len(list')]
                             IN  SubSeq(arrays'[obj.arr], 1, obj.len),
                free |-> free']
    /\ since' = [p \in Providers |-> 0]

\* Mutant of Removable: blocks that were not there to remove count as well.
RemovableAll(versions, failed, p) ==
    {b \in Uploads \X Blocks : \E v \in versions : v.up = b[1] /\ v.at[b[2]] = p} \ failed

\* The blocks of the versions that p removes: a failed removal is one of a
\* block that is not there (any more), or one of the failures given.
Removable(versions, failed, p) ==
    {b \in has[p] \ failed : \E v \in versions : v.up = b[1] /\ v.at[b[2]] = p}

\* removeVersionContents: the storage of the removed blocks goes back to the
\* freelist.
RemoveContents(versions, failed) ==
    LET goes(p) == Removable(versions, failed, p)
    IN  /\ failed # {} => spent.faults < MaxFaults
        /\ IF failed = {} THEN UNCHANGED spent ELSE Spend("faults")
        /\ has' = [p \in Providers |-> has[p] \ goes(p)]
        /\ bad' = [p \in Providers |-> bad[p] \cap has'[p]]
        /\ used' = [p \in Providers |-> used[p] - Cardinality(goes(p))]
        /\ free' = [p \in Providers |-> free[p] + Cardinality(goes(p))]
        /\ UNCHANGED slack

\* Which removals fail: none, or those of one provider.
Failures == {{}} \cup {has[p] : p \in Providers}

Begin(t, kind, state) ==
    /\ kind \in Requests
    /\ thread[t].pc = "idle"
    /\ spent.requests < MaxRequests
    /\ Cached.there
    /\ thread' = [thread EXCEPT ![t] = state]

-----------------------------------------------------------------------------
(* uploadVersion                                                           *)

\* doUploads: the blocks are stored with providers that have room.  To
\* overwrite is to ask that the version go that is the latest now.
StartUpload(t) ==
    \E over \in BOOLEAN, at \in [Blocks -> Providers] :
        LET new(p) == {<<spent.uploads + 1, i>> : i \in {j \in Blocks : at[j] = p}}
            version == [num |-> 0, up |-> spent.uploads + 1, at |-> at]
        IN  /\ spent.uploads < MaxUploads
            /\ Begin(t, "upload", [pc |-> "draw", e |-> Len(list), over |-> over,
                                   version |-> version, num |-> 0, slot |-> <<0, 0>>])
            /\ \A p \in Providers : /\ Cardinality(new(p)) <= free[p]
                                    /\ Cardinality(new(p)) <= Capacity[p] - used[p]
            /\ has' = [p \in Providers |-> has[p] \cup new(p)]
            /\ used' = [p \in Providers |-> used[p] + Cardinality(new(p))]
            /\ free' = [p \in Providers |-> free[p] - Cardinality(new(p))]
            /\ since' = [p \in Providers |-> since[p] + Cardinality(new(p))]
            /\ spent' = [spent EXCEPT !.uploads = @ + 1, !.requests = @ + 1]
            /\ asked' = IF over /\ Cached.len > 0
                        THEN asked \cup {Last(Slice(Cached)).up} ELSE asked
            /\ UNCHANGED <<doc, counter, renterVars, bad, slack, queue, restorer,
                           auditor, acked, suspect, dropped, overtaken, misnumbered>>

\* Mutant of NextNumber: the number behind the last version listed.
NextNumberListed == IF doc = <<>> THEN 1 ELSE Last(doc).num + 1

\* getFileVersionNum: $inc of the file's counter, which survives deletions.
NextNumber == counter + 1

\* InsertFileVersion, first step: the next number of the file is drawn.
DrawNumber(t) ==
    /\ thread[t].pc = "draw"
    /\ \E reply \in {"ok", "refused"} :
        /\ Reply(reply)
        /\ IF reply = "ok" /\ doc # Gone
           THEN /\ counter' = NextNumber
                /\ thread' = [thread EXCEPT ![t].pc = "push", ![t].num = NextNumber]
           ELSE Goto(t, "undo") /\ UNCHANGED counter
    /\ UNCHANGED <<doc, renterVars, storeVars, queue, restorer, auditor, history>>

\* Second step: the version is pushed.  An answer that is lost makes the
\* renter remove the blocks of a version that is listed.
PushVersion(t) ==
    LET new == [thread[t].version EXCEPT !.num = thread[t].num]
    IN  /\ thread[t].pc = "push"
        /\ \E reply \in {"ok", "lost"} :
            /\ Reply(reply)
            /\ doc = Gone => reply = "ok"
            /\ doc' = IF doc = Gone THEN Gone ELSE Append(doc, new)
            /\ Goto(t, IF doc = Gone \/ reply = "lost" THEN "undo"
                       ELSE IF thread[t].over THEN "deletePrevious" ELSE "refresh")
            /\ acked' = IF doc # Gone /\ reply = "ok" THEN acked \cup {new.up} ELSE acked
            /\ suspect' = IF reply = "lost" THEN suspect \cup {new.up} ELSE suspect
        /\ UNCHANGED <<counter, renterVars, storeVars, queue, restorer, auditor,
                       asked, dropped, overtaken, misnumbered>>

UndoUpload(t) ==
    /\ thread[t].pc = "undo"
    /\ \E failed \in Failures : RemoveContents({thread[t].version}, failed)
    /\ Finish(t)
    /\ UNCHANGED <<doc, counter, renterVars, since, queue, restorer, auditor, history>>

\* DeleteFileVersion: every version with the number goes, none is no error.
PullVersions(num) == Those(doc, {v \in Range(doc) : v.num # num})

\* Mutant of AfterDelete: the error is ignored.
AfterDeleteUnchecked(reply, answered, failed) == answered

AfterDelete(reply, answered, failed) ==
    IF doc # Gone /\ reply = "ok" THEN answered ELSE failed

\* The call, with the thread's next state when it answers and when it fails.
CallDeleteVersion(t, num, answered, failed) ==
    \E reply \in Replies :
        /\ Reply(reply)
        /\ doc = Gone => reply = "ok"
        /\ doc' = IF doc = Gone \/ reply = "refused" THEN doc ELSE PullVersions(num)
        /\ thread' = [thread EXCEPT ![t] = AfterDelete(reply, answered, failed)]

\* The version to overwrite is the last that the object has by now: another
\* request that refreshed the object may have put one there that nobody asked
\* to remove, this request's own included.  If the object was emptied, this
\* request panics.
DeletePrevious(t) ==
    LET obj == list[thread[t].e]
    IN  /\ thread[t].pc = "deletePrevious"
        /\ IF obj.len = 0
           THEN Finish(t) /\ UNCHANGED <<doc, spent, overtaken>>
           ELSE LET last == arrays[obj.arr][obj.len]
                IN  /\ CallDeleteVersion(t, last.num,
                           [thread[t] EXCEPT !.pc = "removePrevious", !.num = last.num,
                                             !.slot = <<obj.arr, obj.len>>],
                           [thread[t] EXCEPT !.pc = "refresh"])
                    /\ overtaken' = overtaken \cup (IF doc' = doc THEN {} ELSE {last.up} \ asked)
        /\ UNCHANGED <<counter, renterVars, storeVars, queue, restorer, auditor,
                       acked, asked, suspect, dropped, misnumbered>>

\* The pointer kept is to a slot of an array: what is there now is removed.
At(slot) == arrays[slot[1]][slot[2]]

\* The version that came under the pointer in place of the one deleted from
\* the document: its blocks are removed.
Slipped(t) ==
    LET now == At(thread[t].slot)
    IN  IF now.num = thread[t].num THEN {} ELSE {now.up}

RemovePrevious(t) ==
    LET e == thread[t].e
    IN  /\ thread[t].pc = "removePrevious"
        /\ \E failed \in Failures : RemoveContents({At(thread[t].slot)}, failed)
        /\ IF list[e].len = 0
           THEN Finish(t) /\ UNCHANGED list
           ELSE list' = [list EXCEPT ![e].len = @ - 1] /\ Goto(t, "refresh")
        /\ suspect' = suspect \cup Slipped(t)
        /\ UNCHANGED <<doc, counter, arrays, disk, since, queue, restorer, auditor, acked,
                       asked, dropped, overtaken, misnumbered>>

\* The object is replaced by the document; or, if that cannot be had, the
\* version is appended as the renter made it, with the number 0.
Refresh(t) ==
    LET e == thread[t].e
        obj == list[e]
    IN  /\ thread[t].pc = "refresh"
        /\ Finish(t)
        /\ UNCHANGED free
        /\ \E reply \in {"ok", "refused"} :
            /\ Reply(reply)
            /\ doc = Gone => reply = "ok"
            /\ IF doc # Gone /\ reply = "ok"
               THEN /\ arrays' = Append(arrays, doc)
                    /\ list' = [list EXCEPT ![e].arr = Len(arrays) + 1, ![e].len = Len(doc)]
                    /\ SaveSnapshot
                    /\ UNCHANGED <<suspect, misnumbered>>
               ELSE /\ arrays' = [arrays EXCEPT ![obj.arr] =
                            IF obj.len < Len(@) THEN [@ EXCEPT ![obj.len + 1] = thread[t].version]
                            ELSE Append(@, thread[t].version)]
                    /\ list' = [list EXCEPT ![e].len = @ + 1]
                    /\ suspect' = suspect \cup {thread[t].version.up}
                    /\ misnumbered' = TRUE
                    /\ UNCHANGED <<disk, since>>
        /\ UNCHANGED <<doc, counter, has, bad, used, slack, queue, restorer, auditor,
                       acked, asked, dropped, overtaken>>

-----------------------------------------------------------------------------
(* RemoveFile, of a version and of the file                                *)

StartRemoveVersion(t) ==
    /\ \E num \in Nums(Slice(Cached)) :
         LET slot == <<Cached.arr, Slot(Slice(Cached), num)>>
         IN  /\ Begin(t, "removeVersion",
                      [pc |-> "deleteVersion", e |-> Len(list), num |-> num, slot |-> slot])
             /\ asked' = asked \cup {At(slot).up}
    /\ Cached.len # 1
    /\ Spend("requests")
    /\ UNCHANGED <<doc, counter, renterVars, storeVars, queue, restorer, auditor, acked,
                   suspect, dropped, overtaken, misnumbered>>

DeleteVersion(t) ==
    /\ thread[t].pc = "deleteVersion"
    /\ CallDeleteVersion(t, thread[t].num, [thread[t] EXCEPT !.pc = "removeVersion"],
                         [pc |-> "idle"])
    /\ UNCHANGED <<counter, renterVars, storeVars, queue, restorer, auditor, history>>

\* What the pointer is to by now loses its blocks.  The version is cut out of
\* the array in place: the versions behind it move up, under the pointers
\* other requests keep; an index out of range panics.
RemoveVersion(t) ==
    LET e == thread[t].e
        i == thread[t].slot[2]
        obj == list[e]
    IN  /\ thread[t].pc = "removeVersion"
        /\ \E failed \in Failures : RemoveContents({At(thread[t].slot)}, failed)
        /\ Finish(t)
        /\ suspect' = suspect \cup Slipped(t)
        /\ IF i > obj.len
           THEN UNCHANGED <<renterVars, since>>
           ELSE /\ arrays' = [arrays EXCEPT ![obj.arr] =
                        [k \in DOMAIN @ |-> IF k \in i..(obj.len - 1) THEN @[k + 1] ELSE @[k]]]
                /\ list' = [list EXCEPT ![e].len = @ - 1]
                /\ SaveSnapshot
        /\ UNCHANGED <<doc, counter, queue, restorer, auditor, acked,
                       asked, dropped, overtaken, misnumbered>>

StartRemoveFile(t) ==
    /\ Begin(t, "removeFile", [pc |-> "deleteFile", e |-> Len(list)])
    /\ Spend("requests")
    /\ UNCHANGED <<doc, counter, renterVars, storeVars, queue, restorer, auditor, history>>

DeleteFile(t) ==
    /\ thread[t].pc = "deleteFile"
    /\ \E reply \in Replies :
        /\ Reply(reply)
        /\ doc = Gone => reply = "ok"
        /\ doc' = IF reply = "refused" THEN doc ELSE Gone
        /\ IF doc # Gone /\ reply = "ok" THEN Goto(t, "removeFile") ELSE Finish(t)
    /\ UNCHANGED <<counter, renterVars, storeVars, queue, restorer, auditor, history>>

\* The versions the renter knows of are removed, and the file from its list.
RemoveFileContents(t) ==
    /\ thread[t].pc = "removeFile"
    /\ \E failed \in Failures : RemoveContents(Range(Slice(list[thread[t].e])), failed)
    /\ Finish(t)
    /\ IF Cached.there
       THEN /\ list' = [list EXCEPT ![Len(list)].there = FALSE]
            /\ UNCHANGED arrays
            /\ SaveSnapshot
       ELSE UNCHANGED <<renterVars, since>>
    /\ UNCHANGED <<doc, counter, queue, restorer, auditor, history>>

-----------------------------------------------------------------------------
(* PUT of the whole file, RenameFile and pullFiles                         *)

StartRename(t) ==
    /\ Begin(t, "rename", [pc |-> "send", e |-> Len(list)])
    /\ Spend("requests")
    /\ UNCHANGED <<doc, counter, renterVars, storeVars, queue, restorer, auditor, history>>

SendFile(t) ==
    /\ thread[t].pc = "send"
    /\ thread' = [thread EXCEPT ![t] = [pc |-> "put", body |-> Slice(list[@.e])]]
    /\ UNCHANGED <<doc, counter, renterVars, storeVars, queue, restorer, auditor, spent,
                   history>>

\* UpdateFile: whatever was listed is replaced.  Versions come back that
\* were deleted since the body was read, and versions go that were posted.
PutDocument(body) ==
    /\ doc' = body
    /\ suspect' = suspect \cup (Ups(body) \ Ups(doc))
    /\ dropped' = dropped \cup (Ups(doc) \ Ups(body))

UpdateFile(t) ==
    /\ thread[t].pc = "put"
    /\ Finish(t)
    /\ UNCHANGED free
    /\ \E reply \in Replies :
        /\ Reply(reply)
        /\ doc = Gone => reply = "ok"
        /\ IF doc # Gone /\ reply # "refused"
           THEN PutDocument(thread[t].body)
           ELSE UNCHANGED <<doc, suspect, dropped>>
        /\ IF doc # Gone /\ reply = "ok"
           THEN UNCHANGED <<arrays, list>> /\ SaveSnapshot
           ELSE UNCHANGED <<renterVars, since>>
    /\ UNCHANGED <<counter, has, bad, used, slack, queue, restorer, auditor,
                   acked, asked, overtaken, misnumbered>>

\* The list is read at the metaserver; everything the renter had is replaced
\* when it arrives.
ReadList(t) ==
    /\ Begin(t, "pull", [pc |-> "pull", there |-> doc # Gone,
                         body |-> IF doc = Gone THEN <<>> ELSE doc])
    /\ Spend("requests")
    /\ UNCHANGED <<doc, counter, renterVars, storeVars, queue, restorer, auditor, history>>

PullFiles(t) ==
    /\ thread[t].pc = "pull"
    /\ Finish(t)
    /\ UNCHANGED free
    /\ arrays' = Append(arrays, thread[t].body)
    /\ list' = Append(list, [there |-> thread[t].there, arr |-> Len(arrays) + 1,
                             len |-> Len(thread[t].body)])
    /\ SaveSnapshot
    /\ UNCHANGED <<doc, counter, has, bad, used, slack, queue, restorer, auditor, spent,
                   history>>

-----------------------------------------------------------------------------
(* The restorer                                                            *)

\* A download of a cached version found blocks corrupted and recovered them.
SubmitBatch ==
    /\ spent.batches < MaxBatches
    /\ Cached.there
    /\ \E version \in Range(Slice(Cached)) :
        LET corrupted == {i \in Blocks : <<version.up, i>> \in bad[version.at[i]]}
        IN  /\ corrupted # {}
            /\ queue' = queue \cup {[id |-> spent.batches, version |-> version,
                                     blocks |-> corrupted]}
    /\ Spend("batches")
    /\ UNCHANGED <<doc, counter, renterVars, storeVars, thread, restorer, auditor, history>>

\* Blocks are stale if the version's block has another ID by now.
PickBatch ==
    \E batch \in queue :
        LET versions == Slice(Cached)
            num == batch.version.num
            slot == Slot(versions, num)
        IN  /\ restorer.pc = "idle"
            /\ queue' = queue \ {batch}
            /\ restorer' =
                 IF /\ Cached.there /\ num \in Nums(versions)
                    /\ versions[slot].up = batch.version.up
                 THEN [pc |-> "round", num |-> num, new |-> versions[slot],
                       arr |-> Cached.arr,
                       todo |-> Those([i \in Blocks |-> i], batch.blocks),
                       excluded |-> {batch.version.at[i] : i \in batch.blocks},
                       back |-> [p \in Providers |-> 0]]
                 ELSE [pc |-> "idle"]
            /\ UNCHANGED <<doc, counter, renterVars, storeVars, thread, auditor, spent,
                           history>>

\* The failed blocks of a round are looked up by their position among the
\* failures, not by their position in the round.
StillBad(failures, seq) == [k \in DOMAIN failures |-> seq[k]]

\* Mutant of Returned: the blobs of the stored blocks come back as well.
ReturnedAll(failures, at) == at

\* The blobs of a round that are kept to give back.
Returned(failures, at) == StillBad(failures, at)

Share(seq, p) == Cardinality({k \in DOMAIN seq : seq[k] = p})

\* Where FindStorageExclude may place n blocks.
Places(n, excluded) ==
    {at \in [1..n -> Providers \ excluded] : \A p \in Providers : Share(at, p) <= free[p]}

\* A store succeeds, is refused, is cut off, which removes the file there
\* was, or succeeds and its answer is lost.
Outcomes == {"ok", "refused", "cut", "lost"}

\* One round: the blocks are stored one after the other.  A stored block
\* moves at once in every copy of the version that shares its block array.
Round(at, result) ==
    LET todo == restorer.todo
        up == restorer.new.up
        stored(p, n) == {k \in 1..n : at[k] = p /\ result[k] \in {"ok", "lost"}}
        cut(p) == {k \in DOMAIN todo : at[k] = p /\ result[k] = "cut"}
        room(k) == used[at[k]] + Cardinality(stored(at[k], k - 1)) < Capacity[at[k]]
        new(p) == stored(p, Len(todo))
        failures == Those([k \in DOMAIN todo |-> k], {k \in DOMAIN todo : result[k] # "ok"})
        faults == Cardinality({k \in DOMAIN todo : result[k] \in {"cut", "lost"}})
        blobs == Returned(failures, at)
        ids(ks) == {<<up, todo[k]>> : k \in ks}
        landed(i) == {k \in DOMAIN todo : todo[k] = i /\ result[k] = "ok"}
        moved(was) == [i \in Blocks |-> IF landed(i) = {} THEN was[i]
                                        ELSE at[CHOOSE k \in landed(i) : TRUE]]
        move(v) == IF v.up = up THEN [v EXCEPT !.at = moved(@)] ELSE v
    IN  /\ \A k \in DOMAIN todo : ~room(k) => result[k] = "refused"
        /\ spent.faults + faults <= MaxFaults
        /\ spent' = [spent EXCEPT !.faults = @ + faults]
        /\ free' = [p \in Providers |-> free[p] - Share(at, p)]
        /\ has' = [p \in Providers |-> (has[p] \cup ids(new(p))) \ ids(cut(p))]
        /\ bad' = [p \in Providers |-> bad[p] \ ids(new(p) \cup cut(p))]
        /\ used' = [p \in Providers |-> used[p] + Cardinality(new(p))]
        /\ since' = [p \in Providers |-> since[p] + Cardinality(new(p))]
        /\ slack' = [p \in Providers |->
                        slack[p] + Cardinality(new(p) \cap DOMAIN failures)]
        /\ suspect' = IF \E p \in Providers : ids(cut(p)) \cap has[p] # {}
                      THEN suspect \cup {up} ELSE suspect
        /\ arrays' = [arrays EXCEPT ![restorer.arr] = [k \in DOMAIN @ |-> move(@[k])]]
        /\ restorer' = [restorer EXCEPT
                          !.new = move(@),
                          !.todo = StillBad(failures, todo),
                          !.excluded = @ \cup Range(blobs),
                          !.back = [p \in Providers |-> @[p] + Share(blobs, p)]]

StoreRound ==
    /\ restorer.pc = "round"
    /\ restorer.todo # <<>>
    /\ \E at \in Places(Len(restorer.todo), restorer.excluded) :
       \E result \in [DOMAIN restorer.todo -> Outcomes] : Round(at, result)
    /\ UNCHANGED <<doc, counter, list, disk, thread, queue, auditor, acked,
                   asked, dropped, overtaken, misnumbered>>

\* Mutant of RoundsOver: rounds go on until every block is stored.
RoundsOverStored == restorer.todo = <<>>

RoundsOver ==
    \/ restorer.todo = <<>>
    \/ Places(Len(restorer.todo), restorer.excluded) = {}

\* The rounds end when every block is stored or no storage is found.  The
\* new version goes into the object the cache has now, and that is sent.
UpdateFileVersion ==
    LET obj == Cached
        versions == Slice(obj)
        slot == Slot(versions, restorer.num)
        sent == [versions EXCEPT ![slot] = restorer.new]
    IN  /\ restorer.pc = "round"
        /\ RoundsOver
        /\ free' = [p \in Providers |-> free[p] + restorer.back[p]]
        /\ IF obj.there /\ restorer.num \in Nums(versions)
           THEN /\ arrays' = [arrays EXCEPT ![obj.arr][slot] = restorer.new]
                /\ restorer' = [pc |-> "put", body |-> sent, e |-> Len(list),
                                slot |-> slot, old |-> versions[slot]]
           ELSE restorer' = [pc |-> "idle"] /\ UNCHANGED arrays
        /\ UNCHANGED <<doc, counter, list, disk, has, bad, used, slack, since, thread,
                       queue, auditor, spent, history>>

\* What a restart keeps: the snapshot.
Restart ==
    /\ arrays' = <<disk.versions>>
    /\ list' = <<[there |-> disk.there, arr |-> 1, len |-> Len(disk.versions)]>>
    /\ free' = disk.free
    /\ slack' = [p \in Providers |-> slack[p] + since[p]]
    /\ since' = [p \in Providers |-> 0]
    /\ thread' = [t \in Threads |-> [pc |-> "idle"]]
    /\ queue' = {}
    /\ restorer' = [pc |-> "idle"]
    /\ UNCHANGED disk

\* An update that fails puts the old version back into its slot, whatever is
\* there by now; if the object has become shorter, the index is out of range
\* and the renter dies.
RestoredPut ==
    LET arr == list[restorer.e].arr
        slot == restorer.slot
    IN  /\ restorer.pc = "put"
        /\ \E reply \in Replies :
            LET failed == doc = Gone \/ reply # "ok"
                back == failed /\ slot <= list[restorer.e].len
            IN  /\ Reply(reply)
                /\ doc = Gone => reply = "ok"
                /\ IF failed /\ ~back
                   THEN Restart /\ UNCHANGED misnumbered
                   ELSE /\ arrays' = IF back THEN [arrays EXCEPT ![arr][slot] = restorer.old]
                                     ELSE arrays
                        /\ misnumbered' = (misnumbered \/
                                (back /\ arrays[arr][slot].num # restorer.old.num))
                        /\ restorer' = [pc |-> "idle"]
                        /\ UNCHANGED <<list, disk, free, slack, since, thread, queue>>
                /\ IF doc # Gone /\ reply # "refused"
                   THEN PutDocument(restorer.body)
                   ELSE UNCHANGED <<doc, suspect, dropped>>
        /\ UNCHANGED <<counter, has, bad, used, auditor, acked, asked, overtaken>>

-----------------------------------------------------------------------------
(* The auditor, and what happens to the machines                           *)

\* runAudits reads every document once.
StartAudit ==
    /\ spent.audits < MaxAudits
    /\ auditor = <<>>
    /\ doc # Gone
    /\ auditor' = doc
    /\ Spend("audits")
    /\ UNCHANGED <<doc, counter, renterVars, storeVars, thread, queue, restorer, history>>

\* UpdateFileVersion: the version is replaced by the one read before its
\* blocks were audited; if the number is gone, the run ends.
AuditVersion ==
    /\ auditor # <<>>
    /\ LET version == Head(auditor)
           listed == doc # Gone /\ version.num \in Nums(doc)
       IN  IF listed
           THEN /\ doc' = [doc EXCEPT ![Slot(doc, version.num)] = version]
                /\ auditor' = Tail(auditor)
                /\ suspect' = suspect \cup ({version.up} \ Ups(doc))
           ELSE auditor' = <<>> /\ UNCHANGED <<doc, suspect>>
    /\ UNCHANGED <<counter, renterVars, storeVars, thread, queue, restorer, spent,
                   acked, asked, dropped, overtaken, misnumbered>>

CorruptBlock ==
    /\ spent.corrupt < MaxCorrupt
    /\ \E p \in Providers : \E b \in has[p] \ bad[p] : bad' = [bad EXCEPT ![p] = @ \cup {b}]
    /\ Spend("corrupt")
    /\ UNCHANGED <<doc, counter, renterVars, free, has, used, slack, since, thread, queue,
                   restorer, auditor, history>>

Crash ==
    /\ spent.crashes < MaxCrashes
    /\ Restart
    /\ Spend("crashes")
    /\ UNCHANGED <<doc, counter, has, bad, used, auditor, history>>

Serve(t) ==
    \/ DrawNumber(t) \/ PushVersion(t) \/ UndoUpload(t)
    \/ DeletePrevious(t) \/ RemovePrevious(t) \/ Refresh(t)
    \/ DeleteVersion(t) \/ RemoveVersion(t)
    \/ DeleteFile(t) \/ RemoveFileContents(t)
    \/ SendFile(t) \/ UpdateFile(t)
    \/ PullFiles(t)

Restore == PickBatch \/ StoreRound \/ UpdateFileVersion \/ RestoredPut

Next ==
    \/ \E t \in Threads :
         \/ StartUpload(t) \/ StartRemoveVersion(t) \/ StartRemoveFile(t)
         \/ StartRename(t) \/ ReadList(t)
         \/ Serve(t)
    \/ SubmitBatch \/ Restore
    \/ StartAudit \/ AuditVersion
    \/ CorruptBlock \/ Crash

\* The restorer is a goroutine of its own: it goes on.
Spec == Init /\ [][Next]_vars /\ WF_vars(Restore)

-----------------------------------------------------------------------------
TypeOK ==
    /\ doc = Gone \/ doc \in Seq(Version)
    /\ counter \in Nat
    /\ arrays \in Seq(Seq(Version))
    /\ \A e \in DOMAIN list : list[e].arr \in DOMAIN arrays
                              /\ list[e].len \in 0..Len(arrays[list[e].arr])
    /\ free \in [Providers -> Nat] /\ used \in [Providers -> Nat]
    /\ \A p \in Providers : bad[p] \subseteq has[p] /\ has[p] \subseteq Uploads \X Blocks
    /\ auditor \in Seq(Version)
    /\ acked \cup asked \cup suspect \cup dropped \cup overtaken \subseteq Uploads

\* Whatever order the requests, the restorer and the auditor write in, a
\* version the metaserver lists has its blocks where it says, but for the
\* mishaps recorded in suspect: an answer lost to the renter (upload.go:166),
\* a refresh that failed (upload.go:184), a deleted version that came back with
\* a whole-file PUT (renter.go:439, :683) or an audit (auditrunner.go:105), a
\* removal whose pointer is to another version by then (renter.go:530) than the
\* number it deleted (:526), and a store that was cut off over the block's own
\* file (provider/blocks.go:44).
ListedIsStored ==
    doc # Gone =>
        \A v \in Range(doc) : \A i \in Blocks :
            <<v.up, i>> \in has[v.at[i]] \/ v.up \in suspect

\* A version whose upload was acknowledged stays listed, under a number of
\* its own, until a request asks to remove it: by its number, or to overwrite
\* it, the latest when the request began.  The number is drawn in one step and
\* pushed in another (mongoDB.go:441, :447).  Two mishaps take a version away: a
\* whole-file PUT from an older copy drops it, and an overwriting upload deletes
\* what has become the latest since it began (upload.go:170).  Later removals and
\* PUTs act upon the cached object, so nothing is said once it has a number 0
\* from a failed refresh (upload.go:184) or an old version over another one
\* (renter.go:685).
VersionsKept ==
    doc # Gone /\ ~misnumbered =>
        /\ acked \subseteq Ups(doc) \cup asked \cup dropped \cup overtaken
        /\ \A i, j \in DOMAIN doc : doc[i].num = doc[j].num => i = j

\* The freelist never offers space that the provider counts as used, but
\* for the slack of lost answers, of rounds that mistook a stored block for a
\* failed one (restore.go:164) and of restarts from an old snapshot.
SpaceIsReal == \A p \in Providers : free[p] + used[p] <= Capacity[p] + slack[p]

\* A batch offered is taken up, and its rounds end: each that fails excludes
\* one more provider.
RestoreEnds == queue # {} \/ restorer.pc # "idle" ~> queue = {} /\ restorer.pc = "idle"
=============================================================================
