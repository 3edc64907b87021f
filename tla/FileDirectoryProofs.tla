------------------------ MODULE FileDirectoryProofs ------------------------
(***************************************************************************)
(* Folders, names and sharing, for any number of requests at once, of      *)
(* sharees, of folders and of failures, in four invariants.                *)
(*                                                                         *)
(* A document is listed in its owner's directory (DirectoryInv).           *)
(* Documents and directory are never changed together, so the invariant    *)
(* follows what is in between: the file that is inserted and not listed    *)
(* yet, and the files that the removal of a folder found and has not       *)
(* pulled yet, which are gone by then unless a rename moved them.          *)
(*                                                                         *)
(* A share answered holds in both places (SharesInv): permission and entry *)
(* come before the answer, and what takes them away is recorded.           *)
(*                                                                         *)
(* Types (TypesInv): what each request holds at each of its places.        *)
(*                                                                         *)
(* A file saved stays (SavedInv): every file belongs to the request that   *)
(* makes it until the user is told; what requests and cache know of files, *)
(* that they are folders, is true; and the cached children of a folder     *)
(* that is being removed are under it, or gone, or a mishap is recorded.   *)
(***************************************************************************)
EXTENDS FileDirectory, DataLemmas, SequenceTheorems, TLAPS

\* Before a request may have found children.
Early == {"idle", "insert", "enter", "save", "undo", "find"}
Sharing == {"permit", "share", "forbid", "unshare"}

Shapes ==
    /\ DOMAIN pc = Threads /\ DOMAIN file = Threads
    /\ DOMAIN found = Threads /\ DOMAIN call = Threads
    /\ DOMAIN entries = Users
    /\ made \in Nat

\* An ID about to be inserted is nowhere yet.
Fresh(t) ==
    pc[t] = "insert" =>
        /\ file[t] \in 1..made
        /\ file[t] \notin DOMAIN docs
        /\ \A u \in Threads : file[t] \notin found[u]
        /\ \A u \in Threads \ {t} : pc[u] \in {"insert", "leave"} => file[u] # file[t]

Numbered == DOMAIN docs \subseteq 1..made /\ \A t \in Threads : found[t] \subseteq 1..made

\* What a removal has found is under the folder, or gone, or was moved.
FoundIsGone(t) ==
    /\ pc[t] \in Early => found[t] = {}
    /\ pc[t] = "sweep" =>
         \A id \in found[t] \cap DOMAIN docs :
            Under(call[t].old, docs[id].name) \/ id \in moved
    /\ pc[t] \in {"delete", "leave"} => found[t] \cap DOMAIN docs \subseteq moved
    /\ pc[t] = "leave" => file[t] \in 1..made /\ file[t] \notin DOMAIN docs

SharesWithSharees(t) == pc[t] \in Sharing => call[t].with \in Sharees

DirectoryInv ==
    /\ Shapes /\ Numbered
    /\ \A t \in Threads : Fresh(t) /\ FoundIsGone(t) /\ SharesWithSharees(t)
    /\ FilesAreFound

\* Request t gets a place, the children found and the rest it holds.
Turns(t, where, kids, state) ==
    /\ DOMAIN pc' = Threads /\ DOMAIN file' = Threads
    /\ DOMAIN found' = Threads /\ DOMAIN call' = Threads
    /\ pc'[t] = where /\ found'[t] = kids /\ call'[t] = state
    /\ \A u \in Threads \ {t} : /\ pc'[u] = pc[u] /\ file'[u] = file[u]
                                /\ found'[u] = found[u] /\ call'[u] = call[u]

-----------------------------------------------------------------------------
(***************************************************************************)
(* A step of one request that inserts, removes and lists nothing.          *)
(***************************************************************************)
\* Documents may be replaced, but a name that changes while a folder is
\* removed is recorded.
LEMMA StepOfRequest ==
    ASSUME DirectoryInv, NEW t \in Threads, NEW where, NEW kids, NEW state,
           Turns(t, where, kids, state), pc[t] # "enter",
           where \notin {"insert", "enter", "sweep", "leave"},
           kids = {} \/ (kids = found[t] /\ where \notin Early \cup {"delete"}),
           where \in Sharing => state.with \in Sharees,
           DOMAIN docs' = DOMAIN docs,
           \A i \in DOMAIN docs : docs'[i].name = docs[i].name \/ i \in moved'
                                  \/ \A u \in Threads : Removing(u) => i \notin found[u],
           \A i \in entries[Owner] \cap DOMAIN docs : i \in entries'[Owner] \cup moved',
           DOMAIN entries' = Users,
           moved \subseteq moved', made' = made, cut' = cut, overwritten' = overwritten
    PROVE  DirectoryInv'
<1>. USE DEF DirectoryInv
<1>1. /\ pc'[t] = where /\ found'[t] = kids /\ call'[t] = state
      /\ \A u \in Threads \ {t} : /\ pc'[u] = pc[u] /\ file'[u] = file[u]
                                  /\ found'[u] = found[u] /\ call'[u] = call[u]
    BY DEF Turns
<1>2. Shapes' /\ Numbered'
    BY <1>1 DEF Shapes, Numbered, Turns
<1>3. ASSUME NEW u \in Threads
      PROVE  Fresh(u)' /\ FoundIsGone(u)' /\ SharesWithSharees(u)'
    <2>1. CASE u = t
        <3>1. Fresh(u)' /\ SharesWithSharees(u)'
            BY <2>1, <1>1 DEF Fresh, SharesWithSharees
        <3>2. FoundIsGone(u)'
            BY <2>1, <1>1 DEF FoundIsGone
        <3>3. QED
            BY <3>1, <3>2
    <2>2. CASE u # t
        <3>1. Fresh(u) /\ FoundIsGone(u) /\ SharesWithSharees(u)
            OBVIOUS
        <3>2. SharesWithSharees(u)'
            BY <3>1, <2>2, <1>1 DEF SharesWithSharees
        <3>3. Fresh(u)'
            BY <3>1, <2>2, <1>1 DEF Fresh
        <3>4. ASSUME pc[u] = "sweep", NEW i \in found[u] \cap DOMAIN docs
              PROVE  Under(call[u].old, docs'[i].name) \/ i \in moved'
            BY <3>1, <3>4 DEF FoundIsGone, Removing
        <3>5. FoundIsGone(u)'
            BY <3>1, <3>4, <2>2, <1>1 DEF FoundIsGone
        <3>6. QED
            BY <3>2, <3>3, <3>5
    <2>3. QED
        BY <2>1, <2>2
<1>4. FilesAreFound'
    <2>1. \A i : Entering(i) => Entering(i)'
        BY <1>1 DEF Entering, Shapes
    <2>2. QED
        BY <2>1 DEF FilesAreFound
<1>5. QED
    BY <1>2, <1>3, <1>4


\* The ways in which the actions say it.
LEMMA GotoTurns ==
    ASSUME Shapes, NEW t \in Threads, NEW where, Goto(t, where)
    PROVE  Turns(t, where, found[t], call[t])
  BY DEF Goto, Turns, Shapes

\* The same with another state.
LEMMA GotoWithTurns ==
    ASSUME Shapes, NEW t \in Threads, NEW where, NEW state, GotoWith(t, where, state)
    PROVE  Turns(t, where, found[t], state)
  BY DEF GotoWith, Turns, Shapes

\* The same for a request that ends.
LEMMA FinishTurns ==
    ASSUME Shapes, NEW t \in Threads, Finish(t)
    PROVE  Turns(t, "idle", {}, Nothing)
  BY DEF Finish, Turns, Shapes

\* The same for a request that begins.
LEMMA BeginTurns ==
    ASSUME Shapes, NEW t \in Threads, NEW where, NEW id, NEW state,
           Begin(t, where, id, state)
    PROVE  Turns(t, where, found[t], state) /\ pc[t] = "idle"
  BY DEF Begin, Turns, Shapes

\* A step that leaves the documents and the directory alone, of a request
\* that keeps the children it found, or has none.
LEMMA QuietStep ==
    ASSUME DirectoryInv, NEW t \in Threads, NEW where, NEW state,
           Turns(t, where, found[t], state), pc[t] # "enter",
           where \notin {"insert", "enter", "sweep", "leave", "delete"} \cup Early,
           where \in Sharing => state.with \in Sharees,
           UNCHANGED <<docs, entries, made, cut, overwritten>>, moved \subseteq moved'
    PROVE  DirectoryInv'
<1>1. DOMAIN entries' = Users
    BY DEF DirectoryInv, Shapes
<1>2. QED
    BY <1>1, StepOfRequest

\* A quiet step to a place before anything is found.
LEMMA QuietReset ==
    ASSUME DirectoryInv, NEW t \in Threads, NEW where, NEW state,
           Turns(t, where, {}, state), pc[t] # "enter",
           where \notin {"insert", "enter", "sweep", "leave"},
           where \in Sharing => state.with \in Sharees,
           UNCHANGED <<docs, entries, made, cut, overwritten>>, moved \subseteq moved'
    PROVE  DirectoryInv'
<1>1. DOMAIN entries' = Users
    BY DEF DirectoryInv, Shapes
<1>2. QED
    BY <1>1, StepOfRequest

\* A request that begins and is neither a creation nor a removal's sweep.
LEMMA QuietBegin ==
    ASSUME DirectoryInv, NEW t \in Threads, NEW where, NEW id, NEW state,
           Begin(t, where, id, state),
           where \notin {"insert", "enter", "sweep", "leave"},
           where \in Sharing => state.with \in Sharees,
           UNCHANGED <<docs, entries, made, cut, overwritten>>, moved \subseteq moved'
    PROVE  DirectoryInv'
<1>1. Turns(t, where, found[t], state) /\ pc[t] = "idle"
    BY BeginTurns DEF DirectoryInv
<1>2. found[t] = {}
    BY <1>1 DEF DirectoryInv, FoundIsGone, Early
<1>3. Turns(t, where, {}, state)
    BY <1>1, <1>2
<1>4. QED
    BY <1>1, <1>3, QuietReset

\* A request that returns.
LEMMA QuietFinish ==
    ASSUME DirectoryInv, NEW t \in Threads, Finish(t), pc[t] # "enter",
           UNCHANGED <<docs, entries, made, cut, overwritten>>, moved \subseteq moved'
    PROVE  DirectoryInv'
<1>1. Turns(t, "idle", {}, Nothing)
    BY FinishTurns DEF DirectoryInv
<1>2. QED
    BY <1>1, QuietReset DEF Sharing

\* A request that goes on to a place that is none of these lemmas' concern.
Elsewhen == {"children", "contents", "list", "read", "replace", "send", "put", "rename", "update"}

\* A quiet step that only goes on.
LEMMA QuietGoto ==
    ASSUME DirectoryInv, NEW t \in Threads, NEW where \in Elsewhen, NEW state,
           GotoWith(t, where, state), pc[t] # "enter",
           UNCHANGED <<docs, entries, made, cut, overwritten>>, moved \subseteq moved'
    PROVE  DirectoryInv'
<1>1. Turns(t, where, found[t], state)
    BY GotoWithTurns DEF DirectoryInv
<1>2. QED
    BY <1>1, QuietStep DEF Sharing, Early, Elsewhen

-----------------------------------------------------------------------------
(***************************************************************************)
(* The actions.                                                            *)
(***************************************************************************)
LEMMA QuietActions ==
    ASSUME DirectoryInv, NEW t \in Threads,
           \/ StartRemove(t) \/ StartPull(t) \/ StartRename(t) \/ StartShare(t)
           \/ StartUnshare(t) \/ RemoveContents(t) \/ ReadDirectory(t) \/ ReadFiles(t)
           \/ ReplaceFiles(t) \/ SendFile(t) \/ PutFile(t) \/ FindRenamed(t) \/ NoteShare(t)
    PROVE  DirectoryInv'
<1>1. CASE StartRemove(t)
    BY <1>1, QuietBegin DEF StartRemove, server, renter, Sharing
<1>2. CASE StartPull(t)
    BY <1>2, QuietBegin DEF StartPull, server, renter, history, Sharing
<1>3. CASE StartRename(t)
    BY <1>3, QuietBegin DEF StartRename, server, history, Sharing
<1>4. CASE StartShare(t)
    <2>1. PICK o \in cache, u \in Sharees : Begin(t, "permit", objs[o].id, [obj |-> o, with |-> u])
        BY <1>4 DEF StartShare
    <2>2. UNCHANGED <<docs, entries, made, cut, overwritten, moved>>
        BY <1>4 DEF StartShare, server, renter, history
    <2>3. QED
        BY <2>1, <2>2, QuietBegin DEF Sharing
<1>5. CASE StartUnshare(t)
    <2>1. PICK id \in DOMAIN docs, u \in Sharees : Begin(t, "forbid", id, [with |-> u])
        BY <1>5 DEF StartUnshare
    <2>2. UNCHANGED <<docs, entries, made, cut, overwritten, moved>>
        BY <1>5 DEF StartUnshare, server, renter
    <2>3. QED
        BY <2>1, <2>2, QuietBegin DEF Sharing
<1>6. CASE RemoveContents(t)
    BY <1>6, QuietGoto, QuietFinish DEF RemoveContents, server, history, Elsewhen
<1>7. CASE ReadDirectory(t)
    BY <1>7, QuietGoto DEF ReadDirectory, server, renter, history, Elsewhen
<1>8. CASE ReadFiles(t)
    BY <1>8, QuietGoto DEF ReadFiles, server, renter, history, Elsewhen
<1>9. CASE ReplaceFiles(t)
    BY <1>9, QuietFinish DEF ReplaceFiles, server, history
<1>10. CASE SendFile(t)
    <2>1. PICK state : GotoWith(t, "put", state)
        BY <1>10 DEF SendFile
    <2>2. QED
        BY <1>10, <2>1, QuietGoto DEF SendFile, server, history, Elsewhen
<1>11. CASE PutFile(t) \/ FindRenamed(t)
    <2>1. \/ \E where \in {"rename", "update"} : \E state : GotoWith(t, where, state)
          \/ Finish(t)
        BY <1>11 DEF PutFile, FindRenamed
    <2>2. pc[t] # "enter" /\ UNCHANGED <<docs, entries, made, cut, overwritten, moved>>
        BY <1>11 DEF PutFile, FindRenamed, server, renter, history
    <2>3. QED
        BY <2>1, <2>2, QuietGoto, QuietFinish DEF Elsewhen
<1>12. CASE NoteShare(t)
    BY <1>12, QuietFinish DEF NoteShare, server
<1>13. QED
    BY <1>1, <1>2, <1>3, <1>4, <1>5, <1>6, <1>7, <1>8, <1>9, <1>10, <1>11, <1>12

\* The folder to remove is found, or gone.
LEMMA FindFileStep ==
    ASSUME DirectoryInv, NEW t \in Threads, FindFile(t)
    PROVE  DirectoryInv'
<1>1. found[t] = {} /\ pc[t] = "find" /\ UNCHANGED <<docs, entries, made, cut, overwritten, moved>>
    BY DEF FindFile, DirectoryInv, FoundIsGone, Early, server, renter, history
<1>2. CASE Finish(t)
    BY <1>1, <1>2, QuietFinish
<1>3. CASE ~Finish(t)
    <2>1. PICK where, state : where \in {"children", "delete"} /\ GotoWith(t, where, state)
        BY <1>3 DEF FindFile
    <2>2. Turns(t, where, {}, state)
        BY <2>1, <1>1, GotoWithTurns DEF DirectoryInv
    <2>3. QED
        BY <1>1, <2>1, <2>2, QuietReset DEF Sharing
<1>4. QED
    BY <1>2, <1>3

\* A POST is undone, or its folder removed.
LEMMA UndoPostStep ==
    ASSUME DirectoryInv, NEW t \in Threads, UndoPost(t)
    PROVE  DirectoryInv'
<1>1. found[t] = {} /\ pc[t] = "undo" /\ UNCHANGED <<docs, entries, made, cut, overwritten, moved>>
    BY DEF UndoPost, DirectoryInv, FoundIsGone, Early, server, history
<1>2. CASE call[t].folder = 0
    BY <1>1, <1>2, QuietFinish DEF UndoPost
<1>3. CASE call[t].folder # 0
    <2>1. Turns(t, "find", {}, [kids |-> {}, undo |-> TRUE])
        BY <1>1, <1>3 DEF UndoPost, Turns, DirectoryInv, Shapes
    <2>2. QED
        BY <1>1, <2>1, QuietReset DEF Sharing
<1>4. QED
    BY <1>2, <1>3

\* A document replaced keeps its name, or the change is noted.
LEMMA ReplaceKeepsNames ==
    ASSUME NEW body, body.id \in DOMAIN docs, Replace(body),
           moved' = moved \cup Overlapping(body)
    PROVE  /\ DOMAIN docs' = DOMAIN docs /\ moved \subseteq moved'
           /\ \A i \in DOMAIN docs : docs'[i].name = docs[i].name \/ i \in moved'
                                     \/ \A u \in Threads : Removing(u) => i \notin found[u]
<1>1. /\ DOMAIN docs' = DOMAIN docs
      /\ \A i \in DOMAIN docs \ {body.id} : docs'[i] = docs[i]
      /\ docs'[body.id] = [name |-> body.name, dir |-> body.dir, acl |-> body.acl]
    BY DEF Replace
<1>2. docs'[body.id].name = body.name
    BY <1>1
<1>3. body.name = docs[body.id].name \/ body.id \in moved'
      \/ \A u \in Threads : Removing(u) => body.id \notin found[u]
    BY DEF Overlapping, Doomed
<1>4. QED
    BY <1>1, <1>2, <1>3

\* The steps of a rename that replace documents, and then go on or return.
LEMMA ReplacingStep ==
    ASSUME DirectoryInv, NEW t \in Threads, pc[t] = "update",
           NEW body, body.id \in DOMAIN docs, Replace(body),
           moved' = moved \cup Overlapping(body),
           \/ Finish(t)
           \/ \E where \in {"update", "send"} : \E state : GotoWith(t, where, state),
           UNCHANGED <<entries, made, cut, overwritten>>
    PROVE  DirectoryInv'
<1>1. /\ DOMAIN docs' = DOMAIN docs /\ moved \subseteq moved'
      /\ \A i \in DOMAIN docs : docs'[i].name = docs[i].name \/ i \in moved'
                                \/ \A u \in Threads : Removing(u) => i \notin found[u]
    BY ReplaceKeepsNames
<1>2. DOMAIN entries' = Users
    BY DEF DirectoryInv, Shapes
<1>3. CASE Finish(t)
    <2>1. Turns(t, "idle", {}, Nothing)
        BY <1>3, FinishTurns DEF DirectoryInv
    <2>2. QED
        BY <1>1, <1>2, <2>1, StepOfRequest DEF Sharing
<1>4. CASE \E where \in {"update", "send"} : \E state : GotoWith(t, where, state)
    <2>1. PICK where, state : where \in {"update", "send"} /\ GotoWith(t, where, state)
        BY <1>4
    <2>2. Turns(t, where, found[t], state)
        BY <2>1, GotoWithTurns DEF DirectoryInv
    <2>3. QED
        BY <1>1, <1>2, <2>1, <2>2, StepOfRequest DEF Sharing, Early
<1>5. QED
    BY <1>3, <1>4

\* Documents replaced while folders are removed.
LEMMA RenameStep ==
    ASSUME DirectoryInv, NEW t \in Threads, RenameChild(t) \/ UpdateFile(t)
    PROVE  DirectoryInv'
<1>1. CASE RenameChild(t)
    <2>1. PICK item \in call[t].items :
            IF Replaceable(item)
            THEN /\ Replace(item)
                 /\ moved' = moved \cup Overlapping(item)
                 /\ GotoWith(t, "update", [call[t] EXCEPT !.items = @ \ {item}])
            ELSE Finish(t) /\ UNCHANGED <<docs, lapsed, moved>>
        BY <1>1 DEF RenameChild
    <2>2. pc[t] = "update" /\ UNCHANGED <<entries, made, cut, overwritten>>
        BY <1>1 DEF RenameChild, renter
    <2>3. CASE Replaceable(item)
        BY <2>1, <2>2, <2>3, ReplacingStep DEF Replaceable
    <2>4. CASE ~Replaceable(item)
        BY <2>1, <2>2, <2>4, QuietFinish
    <2>5. QED
        BY <2>3, <2>4
<1>2. CASE UpdateFile(t)
    <2>1. pc[t] = "update" /\ UNCHANGED <<entries, made, cut, overwritten>>
        BY <1>2 DEF UpdateFile, renter
    <2>2. \/ Finish(t)
          \/ \E where \in {"update", "send"} : \E state : GotoWith(t, where, state)
        BY <1>2 DEF UpdateFile
    <2>3. \/ /\ call[t].body.id \in DOMAIN docs /\ Replace(call[t].body)
             /\ moved' = moved \cup Overlapping(call[t].body)
          \/ UNCHANGED <<docs, moved>>
        BY <1>2 DEF UpdateFile, Replaceable
    <2>4. CASE UNCHANGED <<docs, moved>>
        <3>1. CASE Finish(t)
            BY <2>1, <2>4, <3>1, QuietFinish
        <3>2. CASE ~Finish(t)
            <4>1. PICK where, state : where \in {"update", "send"} /\ GotoWith(t, where, state)
                BY <2>2, <3>2
            <4>2. QED
                BY <2>1, <2>4, <4>1, QuietGoto DEF Elsewhen
        <3>3. QED
            BY <3>1, <3>2
    <2>5. QED
        BY <2>1, <2>2, <2>3, <2>4, ReplacingStep
<1>3. QED
    BY <1>1, <1>2

\* Permissions and sharees' entries leave the owner's directory alone.
LEMMA SharingStep ==
    ASSUME DirectoryInv, NEW t \in Threads,
           \/ AddPermission(t) \/ RemovePermission(t)
           \/ AddToSharedDirectory(t) \/ RemoveFromSharedDirectory(t)
    PROVE  DirectoryInv'
<1>1. /\ UNCHANGED <<made, cut, overwritten, moved>>
      /\ pc[t] \in {"permit", "forbid", "share", "unshare"}
    BY DEF AddPermission, RemovePermission, AddToSharedDirectory,
           RemoveFromSharedDirectory, renter, history
<1>2. call[t].with \in Sharees /\ call[t].with # Owner
    BY <1>1, DirectoryAssumption DEF DirectoryInv, SharesWithSharees, Sharing
<1>3. DOMAIN entries = Users
    BY DEF DirectoryInv, Shapes
<1>4. DOMAIN docs' = DOMAIN docs /\ \A i \in DOMAIN docs : docs'[i].name = docs[i].name
    <2>1. CASE UNCHANGED docs
        BY <2>1
    <2>2. CASE \E id \in DOMAIN docs : \E acl : SetPermissions(id, acl)
        <3>1. PICK id \in DOMAIN docs : \E acl : SetPermissions(id, acl)
            BY <2>2
        <3>2. PICK acl : SetPermissions(id, acl)
            BY <3>1
        <3>3. /\ DOMAIN docs' = DOMAIN docs
              /\ \A i \in DOMAIN docs \ {id} : docs'[i] = docs[i]
              /\ docs'[id] = [name |-> docs[id].name, dir |-> docs[id].dir, acl |-> acl]
            BY <3>2 DEF SetPermissions
        <3>4. docs'[id].name = docs[id].name
            BY <3>3
        <3>5. QED
            BY <3>3, <3>4
    <2>3. QED
        BY <2>1, <2>2 DEF AddPermission, RemovePermission, AddToSharedDirectory,
                          RemoveFromSharedDirectory
<1>5. DOMAIN entries' = Users /\ entries'[Owner] = entries[Owner]
    <2>1. \/ UNCHANGED entries
          \/ \E ids : entries' = [entries EXCEPT ![call[t].with] = ids]
        BY DEF AddPermission, RemovePermission, AddToSharedDirectory,
               RemoveFromSharedDirectory
    <2>2. CASE UNCHANGED entries
        BY <1>3, <2>2
    <2>3. CASE \E ids : entries' = [entries EXCEPT ![call[t].with] = ids]
        <3>1. PICK ids : entries' = [entries EXCEPT ![call[t].with] = ids]
            BY <2>3
        <3>2. QED
            BY <1>2, <1>3, <3>1 DEF Users
    <2>4. QED
        BY <2>1, <2>2, <2>3
<1>6. \/ Finish(t) \/ Goto(t, "share") \/ Goto(t, "note") \/ Goto(t, "unshare")
    BY DEF AddPermission, RemovePermission, AddToSharedDirectory, RemoveFromSharedDirectory
<1>7. CASE Finish(t)
    <2>1. Turns(t, "idle", {}, Nothing)
        BY <1>7, FinishTurns DEF DirectoryInv
    <2>2. QED
        BY <1>1, <1>4, <1>5, <2>1, StepOfRequest DEF Sharing
<1>8. CASE ~Finish(t)
    <2>1. PICK where \in {"share", "note", "unshare"} : Goto(t, where)
        BY <1>6, <1>8
    <2>2. Turns(t, where, found[t], call[t])
        BY <2>1, GotoTurns DEF DirectoryInv
    <2>3. QED
        BY <1>1, <1>2, <1>4, <1>5, <2>2, StepOfRequest DEF Sharing, Early
<1>9. QED
    BY <1>7, <1>8

\* What a removal pulls from the list is gone, or was moved.
LEMMA LeaveStep ==
    ASSUME DirectoryInv, NEW t \in Threads, RemoveFromDirectory(t)
    PROVE  DirectoryInv'
<1>1. pc[t] = "leave" /\ UNCHANGED <<docs, made, cut, overwritten, moved>>
    BY DEF RemoveFromDirectory, renter, history
<1>2. PICK done \in SUBSET (found[t] \cup {file[t]}) :
        entries' = [entries EXCEPT ![Owner] = @ \ done]
    BY DEF RemoveFromDirectory
<1>3. DOMAIN entries = Users /\ Owner \in Users
    BY DEF DirectoryInv, Shapes, Users
<1>4. DOMAIN entries' = Users /\ entries'[Owner] = entries[Owner] \ done
    BY <1>2, <1>3
<1>5. found[t] \cap DOMAIN docs \subseteq moved /\ file[t] \notin DOMAIN docs
    BY <1>1 DEF DirectoryInv, FoundIsGone
<1>6. \A i \in entries[Owner] \cap DOMAIN docs : i \in entries'[Owner] \cup moved'
    BY <1>1, <1>4, <1>5
<1>7. Finish(t) \/ Goto(t, "contents")
    BY DEF RemoveFromDirectory
<1>8. CASE Finish(t)
    <2>1. Turns(t, "idle", {}, Nothing)
        BY <1>8, FinishTurns DEF DirectoryInv
    <2>2. QED
        BY <1>1, <1>4, <1>6, <2>1, StepOfRequest DEF Sharing
<1>9. CASE Goto(t, "contents")
    <2>1. Turns(t, "contents", found[t], call[t])
        BY <1>9, GotoTurns DEF DirectoryInv
    <2>2. QED
        BY <1>1, <1>4, <1>6, <2>1, StepOfRequest DEF Sharing, Early
<1>10. QED
    BY <1>7, <1>8, <1>9

\* A step of no request: lists change, and what the owner's loses is noted.
LEMMA UserStep ==
    ASSUME DirectoryInv,
           \/ \E u \in Sharees : RemoveSharedFile(u)
           \/ \E u \in Users : ReadUser(u)
           \/ \E w \in writer : WriteUser(w)
    PROVE  DirectoryInv'
<1>1. UNCHANGED <<pc, file, found, call, docs, made, cut, moved>>
    BY DEF RemoveSharedFile, ReadUser, WriteUser, renter, server, history, request
<1>2. DOMAIN entries = Users
    BY DEF DirectoryInv, Shapes
<1>3. /\ DOMAIN entries' = Users /\ overwritten \subseteq overwritten'
      /\ \A i \in entries[Owner] : i \in entries'[Owner] \/ <<Owner, i>> \in overwritten'
    <2>1. CASE \E u \in Sharees : RemoveSharedFile(u)
        BY <1>2, <2>1, DirectoryAssumption DEF RemoveSharedFile
    <2>2. CASE \E u \in Users : ReadUser(u)
        BY <1>2, <2>2 DEF ReadUser, server, history
    <2>3. CASE \E w \in writer : WriteUser(w)
        BY <1>2, <2>3 DEF WriteUser
    <2>4. QED
        BY <2>1, <2>2, <2>3
<1>4. Shapes' /\ Numbered'
    BY <1>1, <1>3 DEF DirectoryInv, Shapes, Numbered
<1>5. ASSUME NEW t \in Threads
      PROVE  Fresh(t)' /\ FoundIsGone(t)' /\ SharesWithSharees(t)'
    BY <1>1 DEF DirectoryInv, Fresh, FoundIsGone, SharesWithSharees
<1>6. FilesAreFound'
    BY <1>1, <1>3 DEF DirectoryInv, FilesAreFound, Entering
<1>7. QED
    BY <1>4, <1>5, <1>6 DEF DirectoryInv

-----------------------------------------------------------------------------
(***************************************************************************)
(* The steps that insert, remove and list.                                 *)
(***************************************************************************)
\* An ID is made for a file about to be inserted.
LEMMA NumberingStep ==
    ASSUME DirectoryInv, NEW t \in Threads, NEW state,
           Turns(t, "insert", found[t], state) \/ Turns(t, "insert", {}, state),
           pc[t] \in Early \ {"enter"}, file'[t] = made + 1, made' = made + 1,
           UNCHANGED <<docs, entries, cut, moved, overwritten>>
    PROVE  DirectoryInv'
<1>1. found[t] = {}
    BY DEF DirectoryInv, FoundIsGone
<1>2. Turns(t, "insert", {}, state)
    BY <1>1
<1>3. Shapes'
    BY <1>2 DEF DirectoryInv, Shapes, Turns
<1>4. made \in Nat /\ made + 1 \notin 1..made /\ 1..made \subseteq 1..(made + 1)
      /\ made + 1 \in 1..(made + 1)
    BY DEF DirectoryInv, Shapes
<1>5. Numbered'
    BY <1>2, <1>4 DEF DirectoryInv, Numbered, Turns
<1>6. made + 1 \notin DOMAIN docs /\ \A u \in Threads : made + 1 \notin found[u]
    BY <1>4 DEF DirectoryInv, Numbered
<1>7. \A u \in Threads : pc[u] \in {"insert", "leave"} => file[u] \in 1..made
    BY DEF DirectoryInv, Fresh, FoundIsGone
<1>8. ASSUME NEW u \in Threads
      PROVE  Fresh(u)' /\ FoundIsGone(u)' /\ SharesWithSharees(u)'
    <2>1. CASE u = t
        BY <2>1, <1>2, <1>4, <1>6, <1>7
           DEF Fresh, FoundIsGone, SharesWithSharees, Turns, Sharing
    <2>2. CASE u # t
        <3>1. Fresh(u) /\ FoundIsGone(u) /\ SharesWithSharees(u)
            BY DEF DirectoryInv
        <3>2. Fresh(u)'
            BY <3>1, <2>2, <1>2, <1>4, <1>7 DEF Fresh, Turns
        <3>3. FoundIsGone(u)' /\ SharesWithSharees(u)'
            BY <3>1, <2>2, <1>2, <1>4 DEF FoundIsGone, SharesWithSharees, Turns
        <3>4. QED
            BY <3>2, <3>3
    <2>3. QED
        BY <2>1, <2>2
<1>9. FilesAreFound'
    <2>1. \A i : Entering(i) => Entering(i)'
        BY <1>2 DEF Entering, Turns
    <2>2. QED
        BY <2>1 DEF DirectoryInv, FilesAreFound
<1>10. QED
    BY <1>3, <1>5, <1>8, <1>9 DEF DirectoryInv

\* The actions that make an ID.
LEMMA NumberingActions ==
    ASSUME DirectoryInv, NEW t \in Threads,
           StartCreate(t) \/ StartUploadDir(t) \/ (SaveFile(t) /\ call[t].more)
    PROVE  DirectoryInv'
<1>1. CASE StartCreate(t) \/ StartUploadDir(t)
    <2>1. PICK state : Begin(t, "insert", made + 1, state)
        BY <1>1 DEF StartCreate, StartUploadDir
    <2>2. Turns(t, "insert", found[t], state) /\ pc[t] = "idle"
        BY <2>1, BeginTurns DEF DirectoryInv
    <2>3. file'[t] = made + 1
        BY <2>1 DEF Begin, DirectoryInv, Shapes
    <2>4. made' = made + 1 /\ UNCHANGED <<docs, entries, cut, moved, overwritten>>
        BY <1>1 DEF StartCreate, StartUploadDir, server, history
    <2>5. QED
        BY <2>2, <2>3, <2>4, NumberingStep DEF Early
<1>2. CASE SaveFile(t) /\ call[t].more
    <2>1. PICK state : /\ pc' = [pc EXCEPT ![t] = "insert"]
                       /\ call' = [call EXCEPT ![t] = state]
                       /\ file' = [file EXCEPT ![t] = made + 1]
                       /\ UNCHANGED found
        BY <1>2 DEF SaveFile
    <2>2. Turns(t, "insert", found[t], state) /\ file'[t] = made + 1
        BY <2>1 DEF Turns, DirectoryInv, Shapes
    <2>3. /\ pc[t] = "save" /\ made' = made + 1
          /\ UNCHANGED <<docs, entries, cut, moved, overwritten>>
        BY <1>2 DEF SaveFile, server
    <2>4. QED
        BY <2>2, <2>3, NumberingStep DEF Early
<1>3. QED
    BY <1>1, <1>2

\* A file saved, and the next one posted.
LEMMA SaveStep ==
    ASSUME DirectoryInv, NEW t \in Threads, SaveFile(t)
    PROVE  DirectoryInv'
<1>1. CASE call[t].more
    BY <1>1, NumberingActions
<1>2. CASE ~call[t].more
    BY <1>2, QuietFinish DEF SaveFile, server
<1>3. QED
    BY <1>1, <1>2

\* The document is in, and its directory entry is due.
LEMMA InsertStep ==
    ASSUME DirectoryInv, NEW t \in Threads, InsertFile(t)
    PROVE  DirectoryInv'
<1>1. /\ pc[t] = "insert" /\ found[t] = {}
      /\ UNCHANGED <<entries, made, cut, moved, overwritten>>
    BY DEF InsertFile, renter, history, DirectoryInv, FoundIsGone, Early
<1>2. CASE Goto(t, "undo") /\ UNCHANGED docs
    <2>1. Turns(t, "undo", {}, call[t])
        BY <1>1, <1>2, GotoTurns DEF DirectoryInv
    <2>2. QED
        BY <1>1, <1>2, <2>1, QuietReset DEF Sharing
<1>3. CASE /\ Goto(t, "enter") /\ DOMAIN docs' = DOMAIN docs \cup {file[t]}
           /\ \A i \in DOMAIN docs : docs'[i] = docs[i]
    <2>1. Turns(t, "enter", {}, call[t]) /\ file' = file
        BY <1>1, <1>3, GotoTurns DEF DirectoryInv, Goto
    <2>2. Fresh(t)
        BY DEF DirectoryInv
    <2>3. Shapes' /\ Numbered'
        BY <1>1, <1>3, <2>1, <2>2 DEF DirectoryInv, Shapes, Numbered, Fresh, Turns
    <2>4. ASSUME NEW u \in Threads
          PROVE  Fresh(u)' /\ FoundIsGone(u)' /\ SharesWithSharees(u)'
        <3>1. Fresh(u) /\ FoundIsGone(u) /\ SharesWithSharees(u)
            BY DEF DirectoryInv
        <3>2. CASE u = t
            BY <2>1, <3>2 DEF Fresh, FoundIsGone, SharesWithSharees, Turns, Sharing
        <3>3. CASE u # t
            <4>1. /\ pc'[u] = pc[u] /\ file'[u] = file[u]
                  /\ found'[u] = found[u] /\ call'[u] = call[u]
                BY <2>1, <3>3 DEF Turns
            <4>2. file[t] \notin found[u]
                  /\ (pc[u] \in {"insert", "leave"} => file[u] # file[t])
                BY <1>1, <2>2, <3>3 DEF Fresh
            <4>3. \A v \in Threads \ {u} :
                    pc'[v] \in {"insert", "leave"} => pc[v] = pc'[v] /\ v # t
                BY <2>1 DEF Turns
            <4>4. \A v \in Threads : found'[v] \subseteq found[v]
                BY <2>1, <1>1 DEF Turns
            <4>5. Fresh(u)'
                BY <1>1, <1>3, <2>1, <3>1, <4>1, <4>2, <4>3, <4>4 DEF Fresh
            <4>6. FoundIsGone(u)' /\ SharesWithSharees(u)'
                BY <1>1, <1>3, <3>1, <4>1, <4>2 DEF FoundIsGone, SharesWithSharees
            <4>7. QED
                BY <4>5, <4>6
        <3>4. QED
            BY <3>2, <3>3
    <2>5. FilesAreFound'
        <3>1. \A i : Entering(i) \/ i = file[t] => Entering(i)'
            BY <1>1, <2>1 DEF Entering, Turns
        <3>2. QED
            BY <1>1, <1>3, <3>1 DEF DirectoryInv, FilesAreFound
    <2>6. QED
        BY <2>3, <2>4, <2>5 DEF DirectoryInv
<1>4. PICK stored \in BOOLEAN :
        /\ Goto(t, IF stored THEN "enter" ELSE "undo")
        /\ docs' = IF stored
                   THEN [id \in DOMAIN docs \cup {file[t]} |->
                           IF id = file[t] THEN NewDocument(t) ELSE docs[id]]
                   ELSE docs
        /\ stored => file[t] \notin DOMAIN docs
    BY <1>1 DEF InsertFile, AfterInsert, DirectoryInv, Fresh
<1>5. CASE stored
    <2>1. /\ DOMAIN docs' = DOMAIN docs \cup {file[t]}
          /\ \A i \in DOMAIN docs : docs'[i] = docs[i]
        BY <1>4, <1>5
    <2>2. QED
        BY <1>3, <1>4, <1>5, <2>1
<1>6. CASE ~stored
    BY <1>2, <1>4, <1>6
<1>7. QED
    BY <1>5, <1>6

\* The entry is made, or the POST is noted as cut off.
LEMMA EnterStep ==
    ASSUME DirectoryInv, NEW t \in Threads, AddToDirectory(t)
    PROVE  DirectoryInv'
<1>1. /\ pc[t] = "enter" /\ found[t] = {}
      /\ UNCHANGED <<docs, made, moved, overwritten>>
    BY DEF AddToDirectory, renter, DirectoryInv, FoundIsGone, Early
<1>2. PICK reply \in {"ok", "refused", "lost"} :
        /\ entries' = IF reply = "refused" THEN entries
                      ELSE [entries EXCEPT ![Owner] = @ \cup {file[t]}]
        /\ Goto(t, AfterEntering(reply))
        /\ cut' = IF AfterEntering(reply) = "save" THEN cut ELSE cut \cup {file[t]}
    BY DEF AddToDirectory
<1>3. AfterEntering(reply) \in {"save", "undo"}
      /\ (AfterEntering(reply) = "save" => reply # "refused")
    BY DEF AfterEntering
<1>4. Turns(t, AfterEntering(reply), {}, call[t])
    BY <1>1, <1>2, GotoTurns DEF DirectoryInv
<1>5. /\ DOMAIN entries' = Users /\ entries[Owner] \subseteq entries'[Owner]
      /\ cut \subseteq cut' /\ file[t] \in entries'[Owner] \cup cut'
    BY <1>2, <1>3 DEF DirectoryInv, Shapes, Users
<1>6. Shapes' /\ Numbered'
    BY <1>1, <1>4, <1>5 DEF DirectoryInv, Shapes, Numbered, Turns
<1>7. ASSUME NEW u \in Threads
      PROVE  Fresh(u)' /\ FoundIsGone(u)' /\ SharesWithSharees(u)'
    <2>1. Fresh(u) /\ FoundIsGone(u) /\ SharesWithSharees(u)
        BY DEF DirectoryInv
    <2>2. CASE u = t
        BY <1>3, <1>4, <2>2 DEF Fresh, FoundIsGone, SharesWithSharees, Turns, Sharing
    <2>3. CASE u # t
        BY <1>1, <1>3, <1>4, <2>1, <2>3 DEF Fresh, FoundIsGone, SharesWithSharees, Turns
    <2>4. QED
        BY <2>2, <2>3
<1>8. FilesAreFound'
    <2>1. \A i : Entering(i) /\ i # file[t] => Entering(i)'
        BY <1>4 DEF Entering, Turns
    <2>2. QED
        BY <1>1, <1>5, <2>1 DEF DirectoryInv, FilesAreFound
<1>9. QED
    BY <1>6, <1>7, <1>8 DEF DirectoryInv

\* The children found are under the folder.
LEMMA FindChildrenStep ==
    ASSUME DirectoryInv, NEW t \in Threads, FindChildren(t)
    PROVE  DirectoryInv'
<1>1. /\ pc[t] = "children" /\ UNCHANGED <<docs, entries, made, cut, moved, overwritten>>
      /\ UNCHANGED <<file, call>>
    BY DEF FindChildren, server, renter, history
<1>2. Turns(t, "sweep", Children(call[t].old), call[t])
    BY DEF FindChildren, Turns, DirectoryInv, Shapes
<1>3. Children(call[t].old) \subseteq DOMAIN docs
      /\ \A i \in Children(call[t].old) : Under(call[t].old, docs[i].name)
    BY DEF Children
<1>4. Shapes' /\ Numbered'
    BY <1>1, <1>2, <1>3 DEF DirectoryInv, Shapes, Numbered, Turns
<1>5. ASSUME NEW u \in Threads
      PROVE  Fresh(u)' /\ FoundIsGone(u)' /\ SharesWithSharees(u)'
    <2>1. Fresh(u) /\ FoundIsGone(u) /\ SharesWithSharees(u)
        BY DEF DirectoryInv
    <2>2. CASE u = t
        BY <1>1, <1>2, <1>3, <2>2 DEF Fresh, FoundIsGone, SharesWithSharees, Turns,
                                      Early, Sharing
    <2>3. CASE u # t
        <3>1. Fresh(u)'
            BY <1>1, <1>2, <1>3, <2>1, <2>3 DEF Fresh, Turns
        <3>2. FoundIsGone(u)' /\ SharesWithSharees(u)'
            BY <1>1, <1>2, <2>1, <2>3 DEF FoundIsGone, SharesWithSharees, Turns
        <3>3. QED
            BY <3>1, <3>2
    <2>4. QED
        BY <2>2, <2>3
<1>6. FilesAreFound'
    <2>1. \A i : Entering(i) => Entering(i)'
        BY <1>1, <1>2 DEF Entering, Turns
    <2>2. QED
        BY <1>1, <2>1 DEF DirectoryInv, FilesAreFound
<1>7. QED
    BY <1>4, <1>5, <1>6 DEF DirectoryInv

\* Documents go: what was found under the folder, then the folder itself.
LEMMA DeletingStep ==
    ASSUME DirectoryInv, NEW t \in Threads, NEW where, Goto(t, where), NEW gone,
           docs' = [i \in DOMAIN docs \ gone |-> docs[i]],
           pc[t] \notin {"enter", "insert"},
           found[t] \cap (DOMAIN docs \ gone) \subseteq moved,
           \/ where = "delete"
           \/ where = "leave" /\ file[t] \in DOMAIN docs \cap gone,
           UNCHANGED <<entries, made, cut, moved, overwritten>>
    PROVE  DirectoryInv'
<1>1. Turns(t, where, found[t], call[t]) /\ file' = file /\ found' = found
    BY GotoTurns DEF DirectoryInv, Goto
<1>2. /\ DOMAIN docs' \subseteq DOMAIN docs /\ DOMAIN docs' = DOMAIN docs \ gone
      /\ \A i \in DOMAIN docs' : docs'[i] = docs[i]
    OBVIOUS
<1>3. DOMAIN docs \subseteq 1..made
    BY DEF DirectoryInv, Numbered
<1>4. Shapes' /\ Numbered'
    BY <1>1, <1>2 DEF DirectoryInv, Shapes, Numbered, Turns
<1>5. ASSUME NEW u \in Threads
      PROVE  Fresh(u)' /\ FoundIsGone(u)' /\ SharesWithSharees(u)'
    <2>1. Fresh(u) /\ FoundIsGone(u) /\ SharesWithSharees(u)
        BY DEF DirectoryInv
    <2>2. CASE u = t
        <3>1. Fresh(u)' /\ SharesWithSharees(u)'
            BY <1>1, <2>2 DEF Fresh, SharesWithSharees, Turns, Sharing
        <3>2. FoundIsGone(u)'
            BY <1>1, <1>2, <1>3, <2>2 DEF FoundIsGone, Turns, Early
        <3>3. QED
            BY <3>1, <3>2
    <2>3. CASE u # t
        <3>1. pc'[u] = pc[u] /\ call'[u] = call[u]
            BY <1>1, <2>3 DEF Turns
        <3>2. ASSUME pc[u] = "insert"
              PROVE  \A v \in Threads \ {u} :
                        pc'[v] \in {"insert", "leave"} => file[u] # file[v]
            <4>1. file[u] \notin DOMAIN docs
                BY <2>1, <3>2 DEF Fresh
            <4>2. \A v \in Threads \ {u, t} : pc'[v] = pc[v]
                BY <1>1 DEF Turns
            <4>3. pc'[t] \in {"insert", "leave"} => file[u] # file[t]
                BY <1>1, <4>1 DEF Turns
            <4>4. QED
                BY <2>1, <3>2, <4>2, <4>3 DEF Fresh
        <3>3. Fresh(u)'
            BY <1>1, <1>2, <2>1, <3>1, <3>2 DEF Fresh
        <3>4. FoundIsGone(u)' /\ SharesWithSharees(u)'
            BY <1>1, <1>2, <2>1, <3>1 DEF FoundIsGone, SharesWithSharees
        <3>5. QED
            BY <3>3, <3>4
    <2>4. QED
        BY <2>2, <2>3
<1>6. FilesAreFound'
    <2>1. \A i : Entering(i) => Entering(i)'
        BY <1>1 DEF Entering, Turns
    <2>2. QED
        BY <1>2, <2>1 DEF DirectoryInv, FilesAreFound
<1>7. QED
    BY <1>4, <1>5, <1>6 DEF DirectoryInv

\* The actions that remove documents.
LEMMA DeletingActions ==
    ASSUME DirectoryInv, NEW t \in Threads, RemoveChildren(t) \/ DeleteFile(t)
    PROVE  DirectoryInv'
<1>1. FoundIsGone(t)
    BY DEF DirectoryInv
<1>2. CASE RemoveChildren(t)
    <2>1. /\ pc[t] = "sweep" /\ Goto(t, "delete")
          /\ docs' = [i \in DOMAIN docs \ Children(call[t].old) |-> docs[i]]
          /\ UNCHANGED <<entries, made, cut, moved, overwritten>>
        BY <1>2 DEF RemoveChildren, renter
    <2>2. found[t] \cap (DOMAIN docs \ Children(call[t].old)) \subseteq moved
        BY <1>1, <2>1 DEF FoundIsGone, Children
    <2>3. QED
        BY <2>1, <2>2, DeletingStep
<1>3. CASE DeleteFile(t)
    <2>1. pc[t] = "delete" /\ UNCHANGED <<entries, made, cut, moved, overwritten>>
        BY <1>3 DEF DeleteFile, renter, history
    <2>2. CASE file[t] \in DOMAIN docs
        <3>1. Goto(t, "leave") /\ docs' = [i \in DOMAIN docs \ {file[t]} |-> docs[i]]
            BY <1>3, <2>2 DEF DeleteFile
        <3>2. found[t] \cap (DOMAIN docs \ {file[t]}) \subseteq moved
            BY <1>1, <2>1 DEF FoundIsGone
        <3>3. QED
            BY <2>1, <2>2, <3>1, <3>2, DeletingStep
    <2>3. CASE file[t] \notin DOMAIN docs
        BY <1>3, <2>1, <2>3, QuietFinish DEF DeleteFile
    <2>4. QED
        BY <2>2, <2>3
<1>4. QED
    BY <1>2, <1>3

-----------------------------------------------------------------------------
\* The first two files are listed.
LEMMA DirectoryInit == Init => DirectoryInv
<1>. SUFFICES ASSUME Init PROVE DirectoryInv
    OBVIOUS
<1>2. DOMAIN docs = 1..2 /\ made = 2
    <2>1. made = 2
        BY DEF Init
    <2>2. \E a, b : docs = <<a, b>>
        BY DEF Init
    <2>3. QED
        BY <2>1, <2>2
<1>3. entries[Owner] = {1, 2} /\ DOMAIN entries = Users
    <2>1. entries = [u \in Users |-> IF u = Owner THEN {1, 2} ELSE {}]
        BY DEF Init
    <2>2. QED
        BY <2>1 DEF Users
<1>4. Shapes /\ Numbered
    BY <1>2, <1>3 DEF Init, Shapes, Numbered
<1>5. \A t \in Threads : Fresh(t) /\ FoundIsGone(t) /\ SharesWithSharees(t)
    BY DEF Init, Fresh, FoundIsGone, SharesWithSharees, Sharing
<1>6. FilesAreFound
    BY <1>2, <1>3 DEF FilesAreFound
<1>7. QED
    BY <1>4, <1>5, <1>6 DEF DirectoryInv

\* A step that changes nothing.
LEMMA DirectoryStutter == DirectoryInv /\ UNCHANGED vars => DirectoryInv'
  BY DEF DirectoryInv, vars, server, renter, request, history, Shapes, Numbered, Fresh,
         FoundIsGone, SharesWithSharees, FilesAreFound, Entering

\* The invariant of the directory is inductive.
LEMMA DirectoryStep == DirectoryInv /\ [Next]_vars => DirectoryInv'
<1>1. SUFFICES ASSUME DirectoryInv, Next PROVE DirectoryInv'
    BY DirectoryStutter
<1>2. ASSUME NEW t \in Threads, Serve(t)
      PROVE  DirectoryInv'
    BY <1>1, <1>2, QuietActions, FindFileStep, UndoPostStep, RenameStep, SharingStep,
       LeaveStep, SaveStep, InsertStep, EnterStep, FindChildrenStep, DeletingActions
       DEF Serve
<1>3. ASSUME NEW t \in Threads,
             \/ StartCreate(t) \/ StartUploadDir(t) \/ StartRemove(t) \/ StartPull(t)
             \/ StartRename(t) \/ StartShare(t) \/ StartUnshare(t)
      PROVE  DirectoryInv'
    BY <1>1, <1>3, QuietActions, NumberingActions
<1>4. QED
    BY <1>1, <1>2, <1>3, UserStep DEF Next

\* Whatever the requests, their interleavings and their failures, a document
\* is listed in its owner's directory, unless one of the three mishaps that
\* FilesAreFound names hid it: no other order of the handlers' database calls
\* (files.go:109-123, :187-208; mongoDB.go:496-520) loses a file.
THEOREM FilesFound == Spec => []FilesAreFound
<1>1. DirectoryInv => FilesAreFound
    BY DEF DirectoryInv
<1>2. QED
    BY DirectoryInit, DirectoryStep, <1>1, PTL DEF Spec

-----------------------------------------------------------------------------
(***************************************************************************)
(* Shares: what was answered stays in both places.                         *)
(***************************************************************************)
Pending(id) == \E t \in Threads : pc[t] = "insert" /\ file[t] = id

\* The access list has the sharee, and so has the sharee's directory the file.
Permitted(id, u) ==
    \/ <<id, u>> \in withdrawn \cup lapsed
    \/ id \notin DOMAIN docs \/ u \in docs[id].acl
Listed(id, u) ==
    <<id, u>> \in withdrawn \/ id \in entries[u] \/ <<u, id>> \in overwritten

\* A file that exists or has existed.
Known(id) == id \in 1..made /\ ~Pending(id)

ShareInProgress(t) ==
    /\ pc[t] \in Sharing \cup {"note"} => call[t].with \in Sharees
    /\ pc[t] \in {"share", "note"} => Known(file[t]) /\ Permitted(file[t], call[t].with)
    /\ pc[t] = "note" => Listed(file[t], call[t].with)
    /\ pc[t] \in {"forbid", "unshare"} => <<file[t], call[t].with>> \in withdrawn

SharesInv ==
    /\ \A s \in shares : /\ s[2] \in Sharees /\ s = <<s[1], s[2]>>
                         /\ Known(s[1]) /\ Permitted(s[1], s[2]) /\ Listed(s[1], s[2])
    /\ \A t \in Threads : ShareInProgress(t)

\* A step that ends no share unnoticed.
SharesGoOn ==
    /\ made' \in Nat /\ made <= made'
    /\ withdrawn \subseteq withdrawn' /\ lapsed \subseteq lapsed'
    /\ overwritten \subseteq overwritten'
    /\ \A id : Pending(id)' => Pending(id) \/ id \notin 1..made
    /\ \A id \in DOMAIN docs' : id \in DOMAIN docs \/ Pending(id)
    /\ \A id \in DOMAIN docs \cap DOMAIN docs' : \A u \in docs[id].acl :
            u \in docs'[id].acl \/ <<id, u>> \in withdrawn' \cup lapsed'
    /\ \A u \in Sharees : \A id \in entries[u] :
            id \in entries'[u] \/ <<id, u>> \in withdrawn' \/ <<u, id>> \in overwritten'

\* A file that exists or has existed stays one.
LEMMA KnownStays ==
    ASSUME made \in Nat, SharesGoOn, NEW id, Known(id)
    PROVE  Known(id)'
<1>1. id \in 1..made /\ ~Pending(id)
    BY DEF Known
<1>2. id \in 1..made'
    BY <1>1 DEF SharesGoOn
<1>3. ~Pending(id)'
    BY <1>1 DEF SharesGoOn
<1>4. QED
    BY <1>2, <1>3 DEF Known

\* A permission lasts through such a step, or its end is recorded.
LEMMA PermittedStays ==
    ASSUME SharesGoOn, NEW id, NEW u, Known(id), Permitted(id, u)
    PROVE  Permitted(id, u)'
<1>1. CASE <<id, u>> \in withdrawn \cup lapsed
    BY <1>1 DEF SharesGoOn, Permitted
<1>2. CASE id \notin DOMAIN docs
    BY <1>2 DEF SharesGoOn, Permitted, Known
<1>3. CASE id \in DOMAIN docs /\ u \in docs[id].acl
    BY <1>3 DEF SharesGoOn, Permitted
<1>4. QED
    BY <1>1, <1>2, <1>3 DEF Permitted

\* So does the entry in the sharee's directory.
LEMMA ListedStays ==
    ASSUME SharesGoOn, NEW id, NEW u \in Sharees, Listed(id, u)
    PROVE  Listed(id, u)'
  BY DEF SharesGoOn, Listed

\* What the ways to go on leave of the other requests.
OthersWait(t) ==
    \A u \in Threads \ {t} : /\ pc'[u] = pc[u] /\ file'[u] = file[u]
                             /\ found'[u] = found[u] /\ call'[u] = call[u]

\* What the four ways to go on do to the request and to the others.
LEMMA Going ==
    ASSUME Shapes, NEW t \in Threads
    PROVE  /\ \A where : Goto(t, where) =>
                /\ OthersWait(t) /\ pc'[t] = where
                /\ file'[t] = file[t] /\ call'[t] = call[t] /\ found'[t] = found[t]
           /\ \A where, state : GotoWith(t, where, state) =>
                /\ OthersWait(t) /\ pc'[t] = where
                /\ file'[t] = file[t] /\ call'[t] = state /\ found'[t] = found[t]
           /\ \A where, id, state : Begin(t, where, id, state) =>
                /\ OthersWait(t) /\ pc[t] = "idle" /\ pc'[t] = where
                /\ file'[t] = id /\ call'[t] = state /\ found'[t] = found[t]
           /\ Finish(t) =>
                /\ OthersWait(t) /\ pc'[t] = "idle"
                /\ file'[t] = 0 /\ call'[t] = Nothing /\ found'[t] = {}
  BY DEF OthersWait, Goto, GotoWith, Begin, Finish, Shapes

\* A step of one request, or of none: the others are where they were, and the
\* request comes to its next place with what belongs there.
LEMMA SharesStep ==
    ASSUME SharesInv, made \in Nat, SharesGoOn,
           \A t \in Threads :
              \/ ShareInProgress(t)'
              \/ pc'[t] = pc[t] /\ file'[t] = file[t] /\ call'[t] = call[t],
           \A s \in shares' : \/ s \in shares
                              \/ \E t \in Threads : /\ pc[t] = "note"
                                                    /\ s = <<file[t], call[t].with>>
    PROVE  SharesInv'
<1>1. ASSUME NEW t \in Threads
      PROVE  ShareInProgress(t)'
    <2>1. CASE ShareInProgress(t)'
        BY <2>1
    <2>2. CASE pc'[t] = pc[t] /\ file'[t] = file[t] /\ call'[t] = call[t]
        <3>1. /\ pc'[t] = pc[t] /\ file'[t] = file[t] /\ call'[t] = call[t]
              /\ ShareInProgress(t)
            BY <2>2 DEF SharesInv
        <3>2. pc[t] \in {"share", "note"} =>
                Known(file[t])' /\ Permitted(file[t], call[t].with)'
            BY <3>1, KnownStays, PermittedStays DEF ShareInProgress
        <3>3. pc[t] = "note" => Listed(file[t], call[t].with)'
            BY <3>1, ListedStays DEF ShareInProgress
        <3>4. pc[t] \in {"forbid", "unshare"} => <<file[t], call[t].with>> \in withdrawn'
            BY <3>1 DEF ShareInProgress, SharesGoOn
        <3>5. QED
            BY <3>1, <3>2, <3>3, <3>4 DEF ShareInProgress
    <2>3. QED
        BY <2>1, <2>2
<1>2. ASSUME NEW s \in shares'
      PROVE  /\ s[2] \in Sharees /\ s = <<s[1], s[2]>>
             /\ Known(s[1])' /\ Permitted(s[1], s[2])' /\ Listed(s[1], s[2])'
    <2>1. PICK id, u : id = s[1] /\ u = s[2]
        OBVIOUS
    <2>2. u \in Sharees /\ s = <<id, u>> /\ Known(id) /\ Permitted(id, u) /\ Listed(id, u)
        <3>1. CASE s \in shares
            BY <2>1, <3>1 DEF SharesInv
        <3>2. CASE \E t \in Threads : pc[t] = "note" /\ s = <<file[t], call[t].with>>
            <4>1. PICK t \in Threads : pc[t] = "note" /\ s = <<file[t], call[t].with>>
                BY <3>2
            <4>2. ShareInProgress(t)
                BY DEF SharesInv
            <4>3. id = file[t] /\ u = call[t].with
                BY <2>1, <4>1
            <4>4. QED
                BY <4>1, <4>2, <4>3 DEF ShareInProgress
        <3>3. QED
            BY <3>1, <3>2
    <2>3. Known(id)' /\ Permitted(id, u)' /\ Listed(id, u)'
        BY <2>2, KnownStays, PermittedStays, ListedStays
    <2>4. QED
        BY <2>1, <2>2, <2>3
<1>3. QED
    BY <1>1, <1>2 DEF SharesInv

\* A request that leaves documents, directories and history alone and goes to
\* none of the places above.
LEMMA SharesQuiet ==
    ASSUME SharesInv, Shapes, NEW t \in Threads,
           OthersWait(t), pc'[t] \notin {"insert", "note"} \cup Sharing,
           UNCHANGED <<docs, entries, made, shares, withdrawn, lapsed, overwritten>>
    PROVE  SharesInv'
<1>1. SharesGoOn
    <2>1. \A id : Pending(id)' => Pending(id)
        BY DEF Pending, OthersWait
    <2>2. QED
        BY <2>1 DEF SharesGoOn, Shapes
<1>2. ShareInProgress(t)'
    BY DEF ShareInProgress, Sharing
<1>3. QED
    BY <1>1, <1>2, SharesStep DEF OthersWait, Shapes

\* The actions of that kind.
LEMMA SharesQuietActions ==
    ASSUME SharesInv, Shapes, NEW t \in Threads,
           \/ StartRemove(t) \/ StartPull(t) \/ StartRename(t) \/ UndoPost(t)
           \/ FindFile(t) \/ FindChildren(t) \/ RemoveContents(t)
           \/ ReadDirectory(t) \/ ReadFiles(t) \/ ReplaceFiles(t) \/ SendFile(t)
           \/ PutFile(t) \/ FindRenamed(t)
    PROVE  SharesInv'
<1>1. UNCHANGED <<docs, entries, made, shares, withdrawn, lapsed, overwritten>>
    BY DEF StartRemove, StartPull, StartRename, UndoPost, FindFile, FindChildren,
           RemoveContents, ReadDirectory, ReadFiles, ReplaceFiles, SendFile, PutFile,
           FindRenamed,
           server, renter, history
<1>2. OthersWait(t) /\ pc'[t] \notin {"insert", "note"} \cup Sharing
    <2>1. CASE \E where \in {"find", "list", "send"} : \E id, state : Begin(t, where, id, state)
        BY <2>1, Going DEF Sharing
    <2>2. CASE UndoPost(t)
        BY <2>2, Going DEF UndoPost, Sharing, OthersWait, Shapes
    <2>3. CASE FindFile(t) \/ RemoveContents(t)
        BY <2>3, Going DEF FindFile, RemoveContents, Sharing
    <2>4. CASE FindChildren(t)
        <3>1. /\ pc' = [pc EXCEPT ![t] = "sweep"] /\ UNCHANGED <<file, call>>
              /\ found' = [found EXCEPT ![t] = Children(call[t].old)]
            BY <2>4 DEF FindChildren
        <3>2. QED
            BY <3>1 DEF Sharing, OthersWait, Shapes
    <2>5. CASE Finish(t)
        BY <2>5, Going DEF Sharing
    <2>6. CASE \E where \in {"read", "replace", "put", "rename", "update"} :
                  \E state : GotoWith(t, where, state)
        BY <2>6, Going DEF Sharing
    <2>7. CASE StartRemove(t) \/ StartPull(t) \/ StartRename(t)
        BY <2>1, <2>7 DEF StartRemove, StartPull, StartRename
    <2>8. CASE ReadDirectory(t) \/ ReadFiles(t) \/ ReplaceFiles(t)
        BY <2>5, <2>6, <2>8 DEF ReadDirectory, ReadFiles, ReplaceFiles
    <2>9. CASE SendFile(t) \/ PutFile(t) \/ FindRenamed(t)
        BY <2>5, <2>6, <2>9 DEF SendFile, PutFile, FindRenamed
    <2>10. QED
        BY <2>2, <2>3, <2>4, <2>7, <2>8, <2>9
<1>3. QED
    BY <1>1, <1>2, SharesQuiet

\* Requests that make an ID, which no file had before.
LEMMA SharesNumbering ==
    ASSUME SharesInv, Shapes, NEW t \in Threads,
           StartCreate(t) \/ StartUploadDir(t) \/ SaveFile(t)
    PROVE  SharesInv'
<1>1. UNCHANGED <<docs, entries, shares, withdrawn, lapsed, overwritten>>
    BY DEF StartCreate, StartUploadDir, SaveFile, server, history
<1>2. CASE made' = made /\ Finish(t)
    <2>1. OthersWait(t) /\ pc'[t] = "idle"
        BY <1>2, Going
    <2>2. QED
        BY <1>1, <1>2, <2>1, SharesQuiet DEF Sharing
<1>3. CASE /\ made' = made + 1 /\ OthersWait(t) /\ pc'[t] = "insert"
           /\ file'[t] = made + 1
    <2>1. made \in Nat /\ made + 1 \notin 1..made /\ made' \in Nat /\ made <= made'
        BY <1>3 DEF Shapes
    <2>2. \A id : Pending(id)' => Pending(id) \/ id \notin 1..made
        BY <1>3, <2>1 DEF Pending, OthersWait
    <2>3. SharesGoOn
        BY <1>1, <2>1, <2>2 DEF SharesGoOn
    <2>4. ShareInProgress(t)'
        BY <1>3 DEF ShareInProgress, Sharing
    <2>5. QED
        BY <1>1, <1>3, <2>1, <2>3, <2>4, SharesStep DEF OthersWait
<1>4. CASE StartCreate(t) \/ StartUploadDir(t)
    <2>1. OthersWait(t) /\ pc'[t] = "insert" /\ file'[t] = made + 1 /\ made' = made + 1
        <3>1. (\E state : Begin(t, "insert", made + 1, state)) /\ made' = made + 1
            BY <1>4 DEF StartCreate, StartUploadDir
        <3>2. QED
            BY <3>1, Going
    <2>2. QED
        BY <1>3, <2>1
<1>5. CASE SaveFile(t)
    <2>1. CASE call[t].more
        <3>1. OthersWait(t) /\ pc'[t] = "insert" /\ file'[t] = made + 1 /\ made' = made + 1
            BY <1>5, <2>1 DEF SaveFile, OthersWait, Shapes
        <3>2. QED
            BY <1>3, <3>1
    <2>2. CASE ~call[t].more
        BY <1>2, <1>5, <2>2 DEF SaveFile
    <2>3. QED
        BY <2>1, <2>2
<1>6. QED
    BY <1>4, <1>5

\* A request that changes documents or directories, makes no ID and does not
\* answer a share.
LEMMA SharesChange ==
    ASSUME SharesInv, Shapes, NEW t \in Threads, OthersWait(t), pc'[t] # "insert",
           UNCHANGED <<made, shares>>,
           withdrawn \subseteq withdrawn', lapsed \subseteq lapsed',
           overwritten \subseteq overwritten',
           \A id \in DOMAIN docs' : id \in DOMAIN docs \/ Pending(id),
           \A id \in DOMAIN docs \cap DOMAIN docs' : \A u \in docs[id].acl :
                u \in docs'[id].acl \/ <<id, u>> \in withdrawn' \cup lapsed',
           \A u \in Sharees : \A id \in entries[u] :
                id \in entries'[u] \/ <<id, u>> \in withdrawn' \/ <<u, id>> \in overwritten'
    PROVE  /\ SharesGoOn
           /\ ShareInProgress(t)' => SharesInv'
<1>1. \A id : Pending(id)' => Pending(id)
    BY DEF Pending, OthersWait
<1>2. SharesGoOn
    BY <1>1 DEF SharesGoOn, Shapes
<1>3. QED
    BY <1>2, SharesStep DEF OthersWait, Shapes

\* The same for a request that goes to none of the places above.
LEMMA SharesChangeQuietly ==
    ASSUME SharesInv, Shapes, NEW t \in Threads, OthersWait(t),
           pc'[t] \notin {"insert", "note"} \cup Sharing,
           UNCHANGED <<made, shares, withdrawn, overwritten>>, lapsed \subseteq lapsed',
           \A id \in DOMAIN docs' : id \in DOMAIN docs \/ Pending(id),
           \A id \in DOMAIN docs \cap DOMAIN docs' : \A u \in docs[id].acl :
                u \in docs'[id].acl \/ <<id, u>> \in lapsed',
           \A u \in Sharees : entries[u] \subseteq entries'[u]
    PROVE  SharesInv'
<1>1. ShareInProgress(t)'
    BY DEF ShareInProgress, Sharing
<1>2. QED
    BY <1>1, SharesChange

\* An insertion is of an ID that no share is of; a listing ends no share.
LEMMA SharesOfPosts ==
    ASSUME SharesInv, DirectoryInv, NEW t \in Threads, InsertFile(t) \/ AddToDirectory(t)
    PROVE  SharesInv'
<1>. Shapes
    BY DEF DirectoryInv
<1>1. CASE InsertFile(t)
    <2>1. /\ UNCHANGED <<entries, made, shares, withdrawn, overwritten, lapsed>>
          /\ pc[t] = "insert"
        BY <1>1 DEF InsertFile, renter, history
    <2>2. PICK stored \in BOOLEAN :
            /\ Goto(t, AfterInsert(stored))
            /\ docs' = IF stored
                       THEN [id \in DOMAIN docs \cup {file[t]} |->
                                IF id = file[t] THEN NewDocument(t) ELSE docs[id]]
                       ELSE docs
        BY <1>1 DEF InsertFile
    <2>3. OthersWait(t) /\ pc'[t] \in {"enter", "undo"}
        BY <2>2, Going DEF AfterInsert
    <2>4. \A id \in DOMAIN docs' : id \in DOMAIN docs \/ Pending(id)
        BY <2>1, <2>2 DEF Pending
    <2>5. \A id \in DOMAIN docs \cap DOMAIN docs' : docs'[id] = docs[id]
        <3>1. file[t] \notin DOMAIN docs
            BY <2>1 DEF DirectoryInv, Fresh
        <3>2. QED
            BY <2>2, <3>1
    <2>6. QED
        BY <2>1, <2>3, <2>4, <2>5, SharesChangeQuietly DEF Sharing
<1>2. CASE AddToDirectory(t)
    <2>1. UNCHANGED <<docs, made, shares, withdrawn, overwritten, lapsed>>
        BY <1>2 DEF AddToDirectory, renter
    <2>2. PICK reply : /\ Goto(t, AfterEntering(reply))
                       /\ entries' = IF reply = "refused" THEN entries
                                     ELSE [entries EXCEPT ![Owner] = @ \cup {file[t]}]
        BY <1>2 DEF AddToDirectory
    <2>3. OthersWait(t) /\ pc'[t] \in {"save", "undo"}
        BY <2>2, Going DEF AfterEntering
    <2>4. \A u \in Sharees : entries[u] \subseteq entries'[u]
        BY <2>2 DEF Shapes, Users
    <2>5. QED
        BY <2>1, <2>3, <2>4, SharesChangeQuietly DEF Sharing
<1>3. QED
    BY <1>1, <1>2

\* A file removed takes its permissions along, which ends no share.
LEMMA SharesOfRemovals ==
    ASSUME SharesInv, Shapes, NEW t \in Threads,
           RemoveChildren(t) \/ DeleteFile(t) \/ RemoveFromDirectory(t)
    PROVE  SharesInv'
<1>1. UNCHANGED <<made, shares, withdrawn, overwritten, lapsed>>
    BY DEF RemoveChildren, DeleteFile, RemoveFromDirectory, renter, history
<1>2. OthersWait(t) /\ pc'[t] \notin {"insert", "note"} \cup Sharing
    <2>1. CASE Finish(t)
        BY <2>1, Going DEF Sharing
    <2>2. CASE \E where \in {"delete", "leave", "contents"} : Goto(t, where)
        BY <2>2, Going DEF Sharing
    <2>3. QED
        BY <2>1, <2>2 DEF RemoveChildren, DeleteFile, RemoveFromDirectory
<1>3. /\ DOMAIN docs' \subseteq DOMAIN docs
      /\ \A id \in DOMAIN docs' : docs'[id] = docs[id]
    BY DEF RemoveChildren, DeleteFile, RemoveFromDirectory
<1>4. \A u \in Sharees : entries[u] \subseteq entries'[u]
    <2>1. CASE UNCHANGED entries
        BY <2>1
    <2>2. CASE \E done : entries' = [entries EXCEPT ![Owner] = @ \ done]
        BY <2>2, DirectoryAssumption DEF Shapes, Users
    <2>3. QED
        BY <2>1, <2>2 DEF RemoveChildren, DeleteFile, RemoveFromDirectory
<1>5. QED
    BY <1>1, <1>2, <1>3, <1>4, SharesChangeQuietly

\* PUT of a file records the permissions that it drops.
LEMMA ReplaceNotes ==
    ASSUME NEW body, body.id \in DOMAIN docs, Replace(body)
    PROVE  /\ DOMAIN docs' = DOMAIN docs /\ lapsed \subseteq lapsed'
           /\ \A id \in DOMAIN docs : \A u \in docs[id].acl :
                u \in docs'[id].acl \/ <<id, u>> \in lapsed'
<1>1. /\ DOMAIN docs' = DOMAIN docs /\ lapsed \subseteq lapsed'
      /\ \A id \in DOMAIN docs \ {body.id} : docs'[id] = docs[id]
      /\ docs'[body.id] = [name |-> body.name, dir |-> body.dir, acl |-> body.acl]
      /\ \A u \in docs[body.id].acl \ body.acl : <<body.id, u>> \in lapsed'
    BY DEF Replace
<1>2. docs'[body.id].acl = body.acl
    BY <1>1
<1>3. QED
    BY <1>1, <1>2

\* A PUT records every permission that it drops.
LEMMA SharesOfRenames ==
    ASSUME SharesInv, Shapes, NEW t \in Threads, RenameChild(t) \/ UpdateFile(t)
    PROVE  SharesInv'
<1>1. UNCHANGED <<entries, made, shares, withdrawn, overwritten>>
    BY DEF RenameChild, UpdateFile, renter
<1>2. OthersWait(t) /\ pc'[t] \notin {"insert", "note"} \cup Sharing
    <2>1. CASE Finish(t)
        BY <2>1, Going DEF Sharing
    <2>2. CASE \E where \in {"update", "send"} : \E state : GotoWith(t, where, state)
        BY <2>2, Going DEF Sharing
    <2>3. QED
        BY <2>1, <2>2 DEF RenameChild, UpdateFile
<1>3. \/ UNCHANGED <<docs, lapsed>>
      \/ \E body : body.id \in DOMAIN docs /\ Replace(body)
    BY DEF RenameChild, UpdateFile, Replaceable
<1>4. /\ DOMAIN docs' = DOMAIN docs /\ lapsed \subseteq lapsed'
      /\ \A id \in DOMAIN docs : \A u \in docs[id].acl :
            u \in docs'[id].acl \/ <<id, u>> \in lapsed'
    BY <1>3, ReplaceNotes
<1>5. QED
    BY <1>1, <1>2, <1>4, SharesChangeQuietly

\* Permissions given and taken back.
LEMMA SetPermissionsDoes ==
    ASSUME NEW id \in DOMAIN docs, NEW acl, SetPermissions(id, acl)
    PROVE  /\ DOMAIN docs' = DOMAIN docs /\ docs'[id].acl = acl
           /\ \A i \in DOMAIN docs \ {id} : docs'[i] = docs[i]
<1>1. /\ DOMAIN docs' = DOMAIN docs
      /\ \A i \in DOMAIN docs \ {id} : docs'[i] = docs[i]
      /\ docs'[id] = [name |-> docs[id].name, dir |-> docs[id].dir, acl |-> acl]
    BY DEF SetPermissions
<1>2. docs'[id].acl = acl
    BY <1>1
<1>3. QED
    BY <1>1, <1>2

\* A permission given is there until it is withdrawn; its end was asked for.
LEMMA SharesOfPermissions ==
    ASSUME SharesInv, DirectoryInv, NEW t \in Threads,
           AddPermission(t) \/ RemovePermission(t)
    PROVE  SharesInv'
<1>. DEFINE id == file[t]  u == call[t].with
<1>. Shapes
    BY DEF DirectoryInv
<1>1. /\ UNCHANGED <<entries, made, shares, withdrawn, lapsed, overwritten>>
      /\ pc[t] \in {"permit", "forbid"} /\ ShareInProgress(t)
    BY DEF AddPermission, RemovePermission, renter, history, SharesInv
<1>2. CASE Finish(t) /\ UNCHANGED docs
    <2>1. OthersWait(t) /\ pc'[t] = "idle"
        BY <1>2, Going
    <2>2. QED
        BY <1>1, <1>2, <2>1, SharesQuiet DEF Sharing
<1>3. CASE /\ AddPermission(t) /\ id \in DOMAIN docs /\ Goto(t, "share")
           /\ SetPermissions(id, docs[id].acl \cup {u})
    <2>1. /\ DOMAIN docs' = DOMAIN docs /\ docs'[id].acl = docs[id].acl \cup {u}
          /\ \A i \in DOMAIN docs \ {id} : docs'[i] = docs[i]
        BY <1>3, SetPermissionsDoes
    <2>2. OthersWait(t) /\ pc'[t] = "share" /\ file'[t] = id /\ call'[t] = call[t]
        BY <1>3, Going
    <2>3. \A i \in DOMAIN docs \cap DOMAIN docs' : \A v \in docs[i].acl : v \in docs'[i].acl
        BY <2>1
    <2>4. SharesGoOn /\ (ShareInProgress(t)' => SharesInv')
        BY <1>1, <2>1, <2>2, <2>3, SharesChange
    <2>5. Known(id)
        BY <1>3 DEF Known, DirectoryInv, Numbered, Pending, Fresh
    <2>6. PICK i, v : i = id /\ v = u
        OBVIOUS
    <2>7. Known(i)' /\ Permitted(i, v)'
        BY <1>3, <2>1, <2>4, <2>5, <2>6, KnownStays DEF Permitted, Shapes
    <2>8. ShareInProgress(t)'
        BY <1>1, <2>2, <2>6, <2>7 DEF ShareInProgress, Sharing, Known, Permitted
    <2>9. QED
        BY <2>4, <2>8
<1>4. CASE /\ RemovePermission(t) /\ id \in DOMAIN docs /\ Goto(t, "unshare")
           /\ SetPermissions(id, docs[id].acl \ {u})
    <2>1. /\ DOMAIN docs' = DOMAIN docs /\ docs'[id].acl = docs[id].acl \ {u}
          /\ \A i \in DOMAIN docs \ {id} : docs'[i] = docs[i]
        BY <1>4, SetPermissionsDoes
    <2>2. /\ OthersWait(t) /\ pc'[t] = "unshare" /\ file'[t] = id /\ call'[t] = call[t]
          /\ <<id, u>> \in withdrawn /\ u \in Sharees
        BY <1>1, <1>4, Going DEF RemovePermission, ShareInProgress, Sharing
    <2>3. \A i \in DOMAIN docs \cap DOMAIN docs' : \A v \in docs[i].acl :
            v \in docs'[i].acl \/ <<i, v>> \in withdrawn'
        BY <1>1, <2>1, <2>2
    <2>4. SharesGoOn /\ (ShareInProgress(t)' => SharesInv')
        BY <1>1, <2>1, <2>2, <2>3, SharesChange
    <2>5. ShareInProgress(t)'
        BY <1>1, <2>2 DEF ShareInProgress, Sharing
    <2>6. QED
        BY <2>4, <2>5
<1>5. QED
    BY <1>2, <1>3, <1>4 DEF AddPermission, RemovePermission

\* An entry given is there before the share is answered; its end was asked for.
LEMMA SharesOfDirectories ==
    ASSUME SharesInv, Shapes, NEW t \in Threads,
           AddToSharedDirectory(t) \/ RemoveFromSharedDirectory(t)
    PROVE  SharesInv'
<1>. DEFINE id == file[t]  u == call[t].with
<1>1. UNCHANGED <<docs, made, shares, withdrawn, lapsed, overwritten>> /\ ShareInProgress(t)
    BY DEF AddToSharedDirectory, RemoveFromSharedDirectory, renter, history, SharesInv
<1>2. CASE AddToSharedDirectory(t)
    <2>1. PICK reply \in {"ok", "refused", "lost"} :
            /\ entries' = IF reply = "refused" THEN entries
                          ELSE [entries EXCEPT ![u] = @ \cup {id}]
            /\ IF AfterSharing(reply) = "note" THEN Goto(t, "note") ELSE Finish(t)
        BY <1>2 DEF AddToSharedDirectory
    <2>2. pc[t] = "share" /\ u \in Sharees /\ u \in DOMAIN entries
        BY <1>1, <1>2 DEF AddToSharedDirectory, ShareInProgress, Sharing, Shapes, Users
    <2>3. \A v \in Sharees : entries[v] \subseteq entries'[v]
        BY <2>1, <2>2
    <2>4. CASE reply = "ok"
        <3>1. /\ OthersWait(t) /\ pc'[t] = "note" /\ file'[t] = id /\ call'[t] = call[t]
              /\ id \in entries'[u]
            BY <2>1, <2>2, <2>4, Going DEF AfterSharing
        <3>2. SharesGoOn /\ (ShareInProgress(t)' => SharesInv')
            BY <1>1, <2>3, <3>1, SharesChange
        <3>3. PICK i, v : i = id /\ v = u
            OBVIOUS
        <3>4. Known(i)' /\ Permitted(i, v)' /\ Listed(i, v)'
            BY <1>1, <2>2, <3>1, <3>2, <3>3, KnownStays, PermittedStays
               DEF ShareInProgress, Shapes, Listed
        <3>5. ShareInProgress(t)'
            BY <2>2, <3>1, <3>3, <3>4 DEF ShareInProgress, Sharing, Known, Permitted, Listed
        <3>6. QED
            BY <3>2, <3>5
    <2>5. CASE reply # "ok"
        <3>1. OthersWait(t) /\ pc'[t] = "idle"
            BY <2>1, <2>5, Going DEF AfterSharing
        <3>2. QED
            BY <1>1, <2>3, <3>1, SharesChangeQuietly DEF Sharing
    <2>6. QED
        BY <2>4, <2>5
<1>3. CASE RemoveFromSharedDirectory(t)
    <2>1. /\ OthersWait(t) /\ pc'[t] = "idle" /\ u \in Sharees /\ u \in DOMAIN entries
          /\ <<id, u>> \in withdrawn /\ entries' = [entries EXCEPT ![u] = @ \ {id}]
        BY <1>1, <1>3, Going DEF RemoveFromSharedDirectory, ShareInProgress, Sharing, Shapes,
                                 Users
    <2>2. \A v \in Sharees : \A i \in entries[v] : i \in entries'[v] \/ <<i, v>> \in withdrawn'
        BY <1>1, <2>1
    <2>3. ShareInProgress(t)'
        BY <2>1 DEF ShareInProgress, Sharing
    <2>4. QED
        BY <1>1, <2>1, <2>2, <2>3, SharesChange
<1>4. QED
    BY <1>2, <1>3

\* A share begins, ends, or is answered.
LEMMA SharesOfRequests ==
    ASSUME SharesInv, DirectoryInv, NEW t \in Threads,
           StartShare(t) \/ StartUnshare(t) \/ NoteShare(t)
    PROVE  SharesInv'
<1>. Shapes
    BY DEF DirectoryInv
<1>1. UNCHANGED <<docs, entries, made, lapsed, overwritten>>
    BY DEF StartShare, StartUnshare, NoteShare, server, renter, history
<1>2. CASE StartShare(t)
    <2>1. PICK o \in cache, u \in Sharees : Begin(t, "permit", objs[o].id, [obj |-> o, with |-> u])
        BY <1>2 DEF StartShare
    <2>2. OthersWait(t) /\ pc'[t] = "permit" /\ call'[t].with = u
        BY <2>1, Going
    <2>3. ShareInProgress(t)'
        BY <2>2 DEF ShareInProgress, Sharing
    <2>4. UNCHANGED <<shares, withdrawn>>
        BY <1>2 DEF StartShare, history
    <2>5. QED
        BY <1>1, <2>2, <2>3, <2>4, SharesChange
<1>3. CASE StartUnshare(t)
    <2>1. PICK id \in DOMAIN docs, u \in Sharees :
            /\ Begin(t, "forbid", id, [with |-> u])
            /\ withdrawn' = withdrawn \cup {<<id, u>>}
        BY <1>3 DEF StartUnshare
    <2>2. OthersWait(t) /\ pc'[t] = "forbid" /\ file'[t] = id /\ call'[t].with = u
        BY <2>1, Going
    <2>3. ShareInProgress(t)'
        BY <2>1, <2>2 DEF ShareInProgress, Sharing
    <2>4. UNCHANGED shares
        BY <1>3 DEF StartUnshare
    <2>5. QED
        BY <1>1, <2>1, <2>2, <2>3, <2>4, SharesChange
<1>4. CASE NoteShare(t)
    <2>1. /\ OthersWait(t) /\ pc'[t] = "idle" /\ pc[t] = "note"
          /\ shares' = shares \cup {<<file[t], call[t].with>>} /\ UNCHANGED withdrawn
        BY <1>4, Going DEF NoteShare
    <2>2. SharesGoOn
        <3>1. \A id : Pending(id)' => Pending(id)
            BY <2>1 DEF Pending, OthersWait
        <3>2. QED
            BY <1>1, <2>1, <3>1 DEF SharesGoOn, Shapes
    <2>3. ShareInProgress(t)'
        BY <2>1 DEF ShareInProgress, Sharing
    <2>4. QED
        BY <2>1, <2>2, <2>3, SharesStep DEF OthersWait, Shapes
<1>5. QED
    BY <1>2, <1>3, <1>4

\* A sharee drops its own entry, or a document is written back whole.
LEMMA SharesOfUsers ==
    ASSUME SharesInv, Shapes,
           \/ \E u \in Sharees : RemoveSharedFile(u)
           \/ \E u \in Users : ReadUser(u)
           \/ \E w \in writer : WriteUser(w)
    PROVE  SharesInv'
<1>1. UNCHANGED <<pc, file, call, docs, made, shares, lapsed>>
    BY DEF RemoveSharedFile, ReadUser, WriteUser, renter, server, history, request
<1>2. /\ withdrawn \subseteq withdrawn' /\ overwritten \subseteq overwritten'
      /\ \A u \in Sharees : \A id \in entries[u] :
            id \in entries'[u] \/ <<id, u>> \in withdrawn' \/ <<u, id>> \in overwritten'
    <2>1. CASE \E u \in Sharees : RemoveSharedFile(u)
        BY <2>1 DEF RemoveSharedFile, Shapes, Users
    <2>2. CASE \E u \in Users : ReadUser(u)
        BY <2>2 DEF ReadUser, server, history
    <2>3. CASE \E w \in writer : WriteUser(w)
        BY <2>3 DEF WriteUser, Shapes, Users
    <2>4. QED
        BY <2>1, <2>2, <2>3
<1>3. \A id : Pending(id)' => Pending(id)
    BY <1>1 DEF Pending
<1>4. SharesGoOn
    BY <1>1, <1>2, <1>3 DEF SharesGoOn, Shapes
<1>5. QED
    BY <1>1, <1>4, SharesStep DEF Shapes

\* No share at first.
LEMMA SharesInit == Init => SharesInv
  BY DEF Init, SharesInv, ShareInProgress, Sharing

\* The invariant of the shares is inductive, given the directory's.
LEMMA SharesNext == DirectoryInv /\ SharesInv /\ [Next]_vars => SharesInv'
<1>. SUFFICES ASSUME DirectoryInv, SharesInv, [Next]_vars PROVE SharesInv'
    OBVIOUS
<1>1. Shapes
    BY DEF DirectoryInv
<1>2. CASE UNCHANGED vars
    BY <1>2 DEF vars, server, renter, request, history, SharesInv, ShareInProgress, Known,
                Pending, Permitted, Listed
<1>3. ASSUME NEW t \in Threads, Serve(t)
      PROVE  SharesInv'
    BY <1>1, <1>3, SharesQuietActions, SharesNumbering, SharesOfPosts, SharesOfRemovals,
       SharesOfRenames, SharesOfPermissions, SharesOfDirectories, SharesOfRequests DEF Serve
<1>4. ASSUME NEW t \in Threads,
             \/ StartCreate(t) \/ StartUploadDir(t) \/ StartRemove(t) \/ StartPull(t)
             \/ StartRename(t) \/ StartShare(t) \/ StartUnshare(t)
      PROVE  SharesInv'
    BY <1>1, <1>4, SharesQuietActions, SharesNumbering, SharesOfRequests
<1>5. QED
    BY <1>1, <1>2, <1>3, <1>4, SharesOfUsers DEF Next

\* A share that was answered is in the file's access list and in the sharee's
\* directory, whatever requests, removals and failures there were since, but
\* for those that SharesHold names.
THEOREM SharesAreKept == Spec => []SharesHold
<1>1. SharesInv => SharesHold
    BY DEF SharesInv, SharesHold, Permitted, Listed
<1>2. QED
    BY DirectoryInit, DirectoryStep, SharesInit, SharesNext, <1>1, PTL DEF Spec

-----------------------------------------------------------------------------
(***************************************************************************)
(* Types.                                                                  *)
(***************************************************************************)
Part == UNION {Range(n) : n \in Names}
Name == Seq(Part)
Objects == [id : 1..made, name : Name, dir : BOOLEAN, acl : SUBSET Sharees]

Posting == {"insert", "enter", "save", "undo"}
Found == {"children", "sweep", "delete", "leave", "contents"}

\* What a request holds, where it is.
CallTyped(t) ==
    /\ pc[t] \in Posting =>
         /\ call[t] \in [name : Names, folder : 0..made, more : BOOLEAN]
         /\ call[t].more => call[t].name \in Folders
         /\ file[t] \in 1..made
    /\ pc[t] = "find" => call[t] \in [undo : BOOLEAN, kids : SUBSET DOMAIN objs]
    /\ pc[t] \in Found =>
         call[t] \in [undo : BOOLEAN, kids : SUBSET DOMAIN objs, old : Name]
    /\ pc[t] = "replace" =>
         /\ DOMAIN call[t].body \subseteq 1..made
         /\ \A id \in DOMAIN call[t].body : call[t].body[id] \in Document
    /\ pc[t] = "send" =>
         call[t] \in [obj : DOMAIN objs, name : Names, kids : SUBSET DOMAIN objs]
    /\ pc[t] \in {"put", "rename", "update"} =>
         call[t] \in [obj : DOMAIN objs, name : Names, kids : SUBSET DOMAIN objs,
                      body : Objects, last : BOOLEAN, old : Name, items : SUBSET Objects]

DocsTyped ==
    /\ DOMAIN docs \subseteq 1..made
    /\ \A id \in DOMAIN docs : docs[id] \in Document
    /\ \A i, j \in DOMAIN docs : docs[i].name = docs[j].name => i = j

ListsTyped ==
    /\ entries \in [Users -> SUBSET (1..made)]
    /\ writer \subseteq [user : Users, listed : SUBSET (1..made)]

RenterTyped ==
    /\ objs \in Seq(Objects) /\ cache \subseteq DOMAIN objs
    /\ blocks \subseteq 1..made

TypesInv ==
    /\ made \in Nat /\ DocsTyped /\ ListsTyped /\ RenterTyped
    /\ \A t \in Threads : CallTyped(t)

\* The names are sequences of the parts of names.
LEMMA NamesAreLists == Names \subseteq Name
<1>1. ASSUME NEW f \in Folders
      PROVE  f \in Name /\ Append(f, Inner) \in Name
    <2>1. f \in Seq(Range(f)) /\ f \in Names /\ Append(f, Inner) \in Names
        BY DirectoryAssumption DEF Names
    <2>2. Range(f) \subseteq Part
        BY <2>1 DEF Part
    <2>3. f \in Seq(Part)
        BY <2>1, <2>2, SeqMonotonic
    <2>4. /\ Len(f) + 1 \in DOMAIN Append(f, Inner)
          /\ Append(f, Inner)[Len(f) + 1] = Inner
        BY <2>3
    <2>5. Inner \in Range(Append(f, Inner))
        BY <2>4 DEF Range
    <2>6. Inner \in Part
        BY <2>1, <2>5 DEF Part
    <2>7. QED
        BY <2>3, <2>6 DEF Name
<1>2. QED
    BY <1>1 DEF Names

\* A name whose folder changes is a name again.
LEMMA MovedIsName ==
    ASSUME NEW name \in Name, NEW old \in Name, NEW new \in Name
    PROVE  Moved(name, old, new) \in Name
<1>1. /\ Len(old) + 1 \in Int /\ Len(name) \in Int
      /\ \A i \in Len(old) + 1 .. Len(name) : name[i] \in Part
    BY DEF Name
<1>2. SubSeq(name, Len(old) + 1, Len(name)) \in Seq(Part)
    BY <1>1, SubSeqProperties
<1>3. QED
    BY <1>2, ConcatProperties DEF Moved, Name

\* The type of a document, in the parts of names.
LEMMA DocumentIs == Document = [name : Name, dir : BOOLEAN, acl : SUBSET Sharees]
  BY DEF Document, Name, Part

\* An object of a document, and a document of an object.
LEMMA ObjectTyped ==
    ASSUME NEW id \in 1..made, NEW doc \in Document
    PROVE  Object(id, doc) \in Objects
  BY DocumentIs DEF Object, Objects

\* New IDs only add objects.
LEMMA ObjectsGrow ==
    ASSUME made \in Nat, made' \in Nat, made <= made'
    PROVE  1..made \subseteq 1..made' /\ Objects \subseteq Objects'
  BY DEF Objects

\* What a request holds stays well typed while files and objects are added.
LEMMA CallStaysTyped ==
    ASSUME made \in Nat, made' \in Nat, made <= made', DOMAIN objs \subseteq DOMAIN objs',
           NEW u, CallTyped(u), pc'[u] = pc[u], file'[u] = file[u], call'[u] = call[u]
    PROVE  CallTyped(u)'
<1>1. 1..made \subseteq 1..made' /\ Objects \subseteq Objects' /\ 0..made \subseteq 0..made'
    BY ObjectsGrow
<1>. HIDE DEF Objects
<1>2. pc[u] \in Posting =>
         /\ call'[u] \in [name : Names, folder : 0..made', more : BOOLEAN]
         /\ call'[u].more => call'[u].name \in Folders
         /\ file'[u] \in 1..made'
    BY <1>1 DEF CallTyped
<1>3. /\ pc[u] = "find" => call'[u] \in [undo : BOOLEAN, kids : SUBSET DOMAIN objs']
      /\ pc[u] \in Found =>
           call'[u] \in [undo : BOOLEAN, kids : SUBSET DOMAIN objs', old : Name]
      /\ pc[u] = "send" =>
           call'[u] \in [obj : DOMAIN objs', name : Names, kids : SUBSET DOMAIN objs']
    BY DEF CallTyped
<1>4. pc[u] = "replace" =>
         /\ DOMAIN call'[u].body \subseteq 1..made'
         /\ \A id \in DOMAIN call'[u].body : call'[u].body[id] \in Document
    BY <1>1 DEF CallTyped
<1>5. pc[u] \in {"put", "rename", "update"} =>
         call'[u] \in [obj : DOMAIN objs', name : Names, kids : SUBSET DOMAIN objs',
                       body : Objects', last : BOOLEAN, old : Name,
                       items : SUBSET Objects']
    BY <1>1 DEF CallTyped
<1>6. QED
    BY <1>2, <1>3, <1>4, <1>5 DEF CallTyped

\* Who changes what.
LEMMA MadeGrows ==
    ASSUME made \in Nat, [Next]_vars
    PROVE  made' \in Nat /\ made <= made'
<1>1. made' = made \/ made' = made + 1
    <2>1. ASSUME NEW t \in Threads, StartCreate(t) \/ StartUploadDir(t) \/ SaveFile(t)
          PROVE  made' = made \/ made' = made + 1
        BY <2>1 DEF StartCreate, StartUploadDir, SaveFile
    <2>2. ASSUME NEW t \in Threads,
                 \/ StartRemove(t) \/ StartPull(t) \/ StartRename(t) \/ StartShare(t)
                 \/ StartUnshare(t) \/ InsertFile(t) \/ AddToDirectory(t) \/ UndoPost(t)
                 \/ FindFile(t) \/ FindChildren(t) \/ RemoveChildren(t) \/ DeleteFile(t)
                 \/ RemoveFromDirectory(t) \/ RemoveContents(t)
          PROVE  made' = made
        BY <2>2 DEF StartRemove, StartPull, StartRename, StartShare, StartUnshare,
                    InsertFile,
                    AddToDirectory, UndoPost, FindFile, FindChildren, RemoveChildren,
                    DeleteFile, RemoveFromDirectory, RemoveContents, renter
    <2>3. ASSUME NEW t \in Threads,
                 \/ ReadDirectory(t) \/ ReadFiles(t) \/ ReplaceFiles(t)
                 \/ SendFile(t)
                 \/ PutFile(t) \/ FindRenamed(t) \/ RenameChild(t) \/ UpdateFile(t)
                 \/ AddPermission(t) \/ AddToSharedDirectory(t) \/ NoteShare(t)
                 \/ RemovePermission(t) \/ RemoveFromSharedDirectory(t)
          PROVE  made' = made
        BY <2>3 DEF ReadDirectory, ReadFiles, ReplaceFiles, SendFile, PutFile,
                    FindRenamed, RenameChild,
                    UpdateFile, AddPermission, AddToSharedDirectory, NoteShare,
                    RemovePermission, RemoveFromSharedDirectory, renter
    <2>4. ASSUME \/ \E u \in Sharees : RemoveSharedFile(u)
                 \/ \E u \in Users : ReadUser(u)
                 \/ \E w \in writer : WriteUser(w)
                 \/ UNCHANGED vars
          PROVE  made' = made
        BY <2>4 DEF RemoveSharedFile, ReadUser, WriteUser, vars, renter
    <2>5. QED
        BY <2>1, <2>2, <2>3, <2>4 DEF Next, Serve
<1>2. QED
    BY <1>1

\* The seven actions that write documents.
LEMMA WhoChangesDocs ==
    ASSUME [Next]_vars
    PROVE  \/ UNCHANGED docs
           \/ \E t \in Threads :
                \/ InsertFile(t) \/ RemoveChildren(t) \/ DeleteFile(t) \/ RenameChild(t)
                \/ UpdateFile(t) \/ AddPermission(t) \/ RemovePermission(t)
<1>1. ASSUME NEW t \in Threads,
             \/ StartCreate(t) \/ StartUploadDir(t) \/ StartRemove(t) \/ StartPull(t)
             \/ StartRename(t) \/ StartShare(t) \/ StartUnshare(t)
             \/ AddToDirectory(t) \/ SaveFile(t) \/ UndoPost(t)
             \/ FindFile(t) \/ FindChildren(t) \/ RemoveFromDirectory(t)
      PROVE  UNCHANGED docs
    BY <1>1 DEF StartCreate, StartUploadDir, StartRemove, StartPull, StartRename, StartShare,
                StartUnshare, AddToDirectory, SaveFile, UndoPost, FindFile, FindChildren,
                RemoveFromDirectory, server
<1>2. ASSUME NEW t \in Threads,
             \/ RemoveContents(t) \/ ReadDirectory(t) \/ ReadFiles(t) \/ ReplaceFiles(t)
             \/ SendFile(t)
             \/ PutFile(t) \/ FindRenamed(t) \/ AddToSharedDirectory(t) \/ NoteShare(t)
             \/ RemoveFromSharedDirectory(t)
      PROVE  UNCHANGED docs
    BY <1>2 DEF RemoveContents, ReadDirectory, ReadFiles, ReplaceFiles, SendFile,
                PutFile, FindRenamed,
                AddToSharedDirectory, NoteShare, RemoveFromSharedDirectory, server
<1>3. ASSUME \/ \E u \in Sharees : RemoveSharedFile(u)
             \/ \E u \in Users : ReadUser(u)
             \/ \E w \in writer : WriteUser(w)
             \/ UNCHANGED vars
      PROVE  UNCHANGED docs
    BY <1>3 DEF RemoveSharedFile, ReadUser, WriteUser, vars, server
<1>4. QED
    BY <1>1, <1>2, <1>3 DEF Next, Serve

\* Documents keep their types, and their names apart.
LEMMA DocsStayTyped ==
    ASSUME TypesInv, DirectoryInv, [Next]_vars
    PROVE  DocsTyped'
<1>. USE DEF TypesInv
<1>1. made \in Nat /\ made' \in Nat /\ made <= made' /\ 1..made \subseteq 1..made'
    BY MadeGrows
<1>2. CASE UNCHANGED docs
    BY <1>1, <1>2 DEF DocsTyped
<1>3. ASSUME NEW t \in Threads, InsertFile(t)
      PROVE  DocsTyped'
    <2>1. pc[t] = "insert" /\ CallTyped(t)
        BY <1>3 DEF InsertFile
    <2>2. file[t] \in 1..made /\ call[t].name \in Names
        BY <2>1 DEF CallTyped, Posting
    <2>3. PICK stored \in BOOLEAN :
            /\ stored => ~Taken(file[t], call[t].name)
            /\ docs' = IF stored
                       THEN [id \in DOMAIN docs \cup {file[t]} |->
                                IF id = file[t] THEN NewDocument(t) ELSE docs[id]]
                       ELSE docs
        BY <1>3 DEF InsertFile
    <2>4. CASE ~stored
        BY <1>2, <2>3, <2>4
    <2>5. CASE stored
        <3>1. NewDocument(t) \in Document /\ NewDocument(t).name = call[t].name
            BY <2>2, NamesAreLists, DocumentIs DEF NewDocument
        <3>2. /\ DOMAIN docs' = DOMAIN docs \cup {file[t]} /\ docs'[file[t]] = NewDocument(t)
              /\ \A id \in DOMAIN docs \ {file[t]} : docs'[id] = docs[id]
            BY <2>3, <2>5
        <3>3. \A id \in DOMAIN docs \ {file[t]} : docs[id].name # call[t].name
            BY <2>3, <2>5 DEF Taken
        <3>4. DOMAIN docs' \subseteq 1..made'
            BY <1>1, <2>2, <3>2 DEF DocsTyped
        <3>5. \A id \in DOMAIN docs' : docs'[id] \in Document
            BY <3>1, <3>2 DEF DocsTyped
        <3>6. \A i, j \in DOMAIN docs' : docs'[i].name = docs'[j].name => i = j
            BY <3>1, <3>2, <3>3 DEF DocsTyped
        <3>7. QED
            BY <3>4, <3>5, <3>6 DEF DocsTyped
    <2>6. QED
        BY <2>4, <2>5
<1>4. ASSUME NEW t \in Threads, RemoveChildren(t) \/ DeleteFile(t)
      PROVE  DocsTyped'
    <2>1. DOMAIN docs' \subseteq DOMAIN docs /\ \A id \in DOMAIN docs' : docs'[id] = docs[id]
        BY <1>4 DEF RemoveChildren, DeleteFile
    <2>2. QED
        BY <1>1, <2>1 DEF DocsTyped
<1>5. ASSUME NEW body \in Objects, Replaceable(body), Replace(body)
      PROVE  DocsTyped'
    <2>1. /\ body.id \in DOMAIN docs /\ DOMAIN docs' = DOMAIN docs
          /\ \A id \in DOMAIN docs \ {body.id} : docs'[id] = docs[id] /\ docs[id].name # body.name
          /\ docs'[body.id] = [name |-> body.name, dir |-> body.dir, acl |-> body.acl]
        BY <1>5 DEF Replaceable, Replace, Taken
    <2>2. docs'[body.id] \in Document /\ docs'[body.id].name = body.name
        BY <2>1, DocumentIs DEF Objects
    <2>3. DOMAIN docs' \subseteq 1..made'
        BY <1>1, <2>1 DEF DocsTyped
    <2>4. \A id \in DOMAIN docs' : docs'[id] \in Document
        BY <2>1, <2>2 DEF DocsTyped
    <2>5. \A i, j \in DOMAIN docs' : docs'[i].name = docs'[j].name => i = j
        BY <2>1, <2>2 DEF DocsTyped
    <2>6. QED
        BY <2>3, <2>4, <2>5 DEF DocsTyped
<1>6. ASSUME NEW t \in Threads, RenameChild(t) \/ UpdateFile(t)
      PROVE  DocsTyped'
    <2>1. pc[t] = "update" /\ CallTyped(t)
        BY <1>6 DEF RenameChild, UpdateFile
    <2>2. call[t].body \in Objects /\ call[t].items \subseteq Objects
        BY <2>1 DEF CallTyped
    <2>3. \/ UNCHANGED docs
          \/ \E body \in call[t].items \cup {call[t].body} : Replaceable(body) /\ Replace(body)
        BY <1>6 DEF RenameChild, UpdateFile
    <2>4. QED
        BY <1>2, <1>5, <2>2, <2>3
<1>7. ASSUME NEW id \in DOMAIN docs, NEW acl \in SUBSET Sharees, SetPermissions(id, acl)
      PROVE  DocsTyped'
    <2>1. /\ DOMAIN docs' = DOMAIN docs
          /\ \A i \in DOMAIN docs \ {id} : docs'[i] = docs[i]
          /\ docs'[id] = [name |-> docs[id].name, dir |-> docs[id].dir, acl |-> acl]
        BY <1>7 DEF SetPermissions
    <2>2. docs'[id] \in Document /\ docs'[id].name = docs[id].name
        BY <2>1, DocumentIs DEF DocsTyped
    <2>3. QED
        BY <1>1, <2>1, <2>2 DEF DocsTyped
<1>8. ASSUME NEW t \in Threads, AddPermission(t) \/ RemovePermission(t)
      PROVE  DocsTyped'
    <2>1. call[t].with \in Sharees
        BY <1>8 DEF AddPermission, RemovePermission, DirectoryInv, SharesWithSharees, Sharing
    <2>2. \A id \in DOMAIN docs : docs[id].acl \subseteq Sharees
        BY DocumentIs DEF DocsTyped
    <2>3. \/ UNCHANGED docs
          \/ \E id \in DOMAIN docs : \E acl \in SUBSET Sharees : SetPermissions(id, acl)
        <3>1. CASE AddPermission(t)
            <4>1. CASE UNCHANGED docs
                BY <4>1
            <4>2. CASE /\ file[t] \in DOMAIN docs
                       /\ SetPermissions(file[t], docs[file[t]].acl \cup {call[t].with})
                BY <2>1, <2>2, <4>2
            <4>3. QED
                BY <3>1, <4>1, <4>2 DEF AddPermission
        <3>2. CASE RemovePermission(t)
            <4>1. CASE UNCHANGED docs
                BY <4>1
            <4>2. CASE /\ file[t] \in DOMAIN docs
                       /\ SetPermissions(file[t], docs[file[t]].acl \ {call[t].with})
                BY <2>1, <2>2, <4>2
            <4>3. QED
                BY <3>2, <4>1, <4>2 DEF RemovePermission
        <3>3. QED
            BY <1>8, <3>1, <3>2
    <2>4. QED
        BY <1>2, <1>7, <2>3
<1>9. QED
    BY <1>2, <1>3, <1>4, <1>6, <1>8, WhoChangesDocs

\* The actions that write lists of IDs.
LEMMA WhoChangesLists ==
    ASSUME [Next]_vars
    PROVE  \/ UNCHANGED <<entries, writer>>
           \/ \E t \in Threads :
                \/ AddToDirectory(t) \/ RemoveFromDirectory(t)
                \/ AddToSharedDirectory(t) \/ RemoveFromSharedDirectory(t)
           \/ \E u \in Sharees : RemoveSharedFile(u)
           \/ \E u \in Users : ReadUser(u)
           \/ \E w \in writer : WriteUser(w)
<1>1. ASSUME NEW t \in Threads,
             \/ StartCreate(t) \/ StartUploadDir(t) \/ StartRemove(t) \/ StartPull(t)
             \/ StartRename(t) \/ StartShare(t) \/ StartUnshare(t)
             \/ InsertFile(t) \/ SaveFile(t) \/ UndoPost(t)
             \/ FindFile(t) \/ FindChildren(t) \/ RemoveChildren(t) \/ DeleteFile(t)
      PROVE  UNCHANGED <<entries, writer>>
    BY <1>1 DEF StartCreate, StartUploadDir, StartRemove, StartPull, StartRename, StartShare,
                StartUnshare, InsertFile, SaveFile, UndoPost, FindFile, FindChildren,
                RemoveChildren, DeleteFile, server
<1>2. ASSUME NEW t \in Threads,
             \/ RemoveContents(t) \/ ReadDirectory(t) \/ ReadFiles(t) \/ ReplaceFiles(t)
             \/ SendFile(t)
             \/ PutFile(t) \/ FindRenamed(t) \/ RenameChild(t) \/ UpdateFile(t) \/ NoteShare(t)
             \/ AddPermission(t) \/ RemovePermission(t)
      PROVE  UNCHANGED <<entries, writer>>
    BY <1>2 DEF RemoveContents, ReadDirectory, ReadFiles, ReplaceFiles, SendFile,
                PutFile, FindRenamed,
                RenameChild, UpdateFile, NoteShare, AddPermission, RemovePermission, server
<1>3. QED
    BY <1>1, <1>2 DEF Next, Serve, vars, server

\* The lists hold IDs that were made.
LEMMA ListsStayTyped ==
    ASSUME TypesInv, SharesInv, [Next]_vars
    PROVE  ListsTyped'
<1>. USE DEF TypesInv
<1>1. made \in Nat /\ made' \in Nat /\ made <= made' /\ 1..made \subseteq 1..made'
    BY MadeGrows
<1>2. CASE UNCHANGED <<entries, writer>>
    BY <1>1, <1>2 DEF ListsTyped
<1>3. ASSUME NEW u \in Users, NEW ids \in SUBSET (1..made),
             entries' = [entries EXCEPT ![u] = ids], writer' \subseteq writer
      PROVE  ListsTyped'
    <2>1. entries' \in [Users -> SUBSET (1..made)]
        BY <1>3 DEF ListsTyped
    <2>2. QED
        BY <1>1, <1>3, <2>1 DEF ListsTyped
<1>4. \A u \in Users : entries[u] \subseteq 1..made
    BY DEF ListsTyped
<1>5. ASSUME NEW t \in Threads, AddToDirectory(t) \/ RemoveFromDirectory(t)
      PROVE  ListsTyped'
    <2>1. \/ UNCHANGED entries
          \/ \E ids \in SUBSET (1..made) : entries' = [entries EXCEPT ![Owner] = ids]
        <3>1. CASE AddToDirectory(t)
            <4>1. file[t] \in 1..made
                BY <3>1 DEF AddToDirectory, CallTyped, Posting
            <4>2. entries[Owner] \cup {file[t]} \in SUBSET (1..made)
                BY <1>4, <4>1 DEF Users
            <4>3. QED
                BY <3>1, <4>2 DEF AddToDirectory
        <3>2. CASE RemoveFromDirectory(t)
            <4>1. \A done : entries[Owner] \ done \in SUBSET (1..made)
                BY <1>4 DEF Users
            <4>2. QED
                BY <3>2, <4>1 DEF RemoveFromDirectory
        <3>3. QED
            BY <1>5, <3>1, <3>2
    <2>2. UNCHANGED writer
        BY <1>5 DEF AddToDirectory, RemoveFromDirectory
    <2>3. QED
        BY <1>2, <1>3, <2>1, <2>2 DEF Users
<1>6. ASSUME NEW t \in Threads, AddToSharedDirectory(t) \/ RemoveFromSharedDirectory(t)
      PROVE  ListsTyped'
    <2>1. pc[t] \in {"share", "unshare"} /\ ShareInProgress(t)
        BY <1>6 DEF AddToSharedDirectory, RemoveFromSharedDirectory, SharesInv
    <2>2. /\ call[t].with \in Users
          /\ pc[t] = "share" => file[t] \in 1..made
        BY <2>1 DEF ShareInProgress, Known, Sharing, Users
    <2>3. \/ UNCHANGED entries
          \/ \E ids \in SUBSET (1..made) : entries' = [entries EXCEPT ![call[t].with] = ids]
        <3>1. CASE AddToSharedDirectory(t)
            <4>1. entries[call[t].with] \cup {file[t]} \in SUBSET (1..made)
                BY <1>4, <2>2, <3>1 DEF AddToSharedDirectory
            <4>2. QED
                BY <3>1, <4>1 DEF AddToSharedDirectory
        <3>2. CASE RemoveFromSharedDirectory(t)
            <4>1. entries[call[t].with] \ {file[t]} \in SUBSET (1..made)
                BY <1>4, <2>2
            <4>2. QED
                BY <3>2, <4>1 DEF RemoveFromSharedDirectory
        <3>3. QED
            BY <1>6, <3>1, <3>2
    <2>4. UNCHANGED writer
        BY <1>6 DEF AddToSharedDirectory, RemoveFromSharedDirectory
    <2>5. QED
        BY <1>2, <1>3, <2>2, <2>3, <2>4
<1>7. ASSUME NEW u \in Sharees, RemoveSharedFile(u)
      PROVE  ListsTyped'
    <2>1. u \in Users /\ \A id : entries[u] \ {id} \in SUBSET (1..made)
        BY <1>4 DEF Users
    <2>2. UNCHANGED writer /\ \E id : entries' = [entries EXCEPT ![u] = @ \ {id}]
        BY <1>7 DEF RemoveSharedFile
    <2>3. QED
        BY <1>3, <2>1, <2>2
<1>8. ASSUME NEW u \in Users, ReadUser(u)
      PROVE  ListsTyped'
    BY <1>1, <1>4, <1>8 DEF ReadUser, server, ListsTyped
<1>9. ASSUME NEW w \in writer, WriteUser(w)
      PROVE  ListsTyped'
    <2>1. w.user \in Users /\ w.listed \in SUBSET (1..made)
        BY DEF ListsTyped
    <2>2. entries' = [entries EXCEPT ![w.user] = w.listed] /\ writer' \subseteq writer
        BY <1>9 DEF WriteUser
    <2>3. QED
        BY <1>3, <2>1, <2>2
<1>10. QED
    BY <1>2, <1>5, <1>6, <1>7, <1>8, <1>9, WhoChangesLists

\* The actions that change the renter's objects, its cache and the blocks.
LEMMA WhoChangesRenter ==
    ASSUME [Next]_vars
    PROVE  \/ UNCHANGED <<objs, cache, blocks>>
           \/ \E t \in Threads :
                \/ StartCreate(t) \/ SaveFile(t) \/ UndoPost(t) \/ RemoveContents(t)
                \/ ReplaceFiles(t) \/ StartRename(t) \/ SendFile(t) \/ NoteShare(t)
<1>1. ASSUME NEW t \in Threads,
             \/ StartUploadDir(t) \/ StartRemove(t) \/ StartPull(t) \/ StartShare(t)
             \/ StartUnshare(t) \/ InsertFile(t) \/ AddToDirectory(t)
             \/ FindFile(t) \/ FindChildren(t) \/ RemoveChildren(t) \/ DeleteFile(t)
             \/ RemoveFromDirectory(t)
      PROVE  UNCHANGED <<objs, cache, blocks>>
    BY <1>1 DEF StartUploadDir, StartRemove, StartPull, StartShare, StartUnshare, InsertFile,
                AddToDirectory, FindFile, FindChildren, RemoveChildren, DeleteFile,
                RemoveFromDirectory, renter
<1>2. ASSUME NEW t \in Threads,
             \/ ReadDirectory(t) \/ ReadFiles(t)
             \/ PutFile(t) \/ FindRenamed(t) \/ RenameChild(t)
             \/ UpdateFile(t) \/ AddPermission(t) \/ AddToSharedDirectory(t)
             \/ RemovePermission(t) \/ RemoveFromSharedDirectory(t)
      PROVE  UNCHANGED <<objs, cache, blocks>>
    BY <1>2 DEF ReadDirectory, ReadFiles, PutFile, FindRenamed, RenameChild, UpdateFile,
                AddPermission,
                AddToSharedDirectory, RemovePermission, RemoveFromSharedDirectory, renter
<1>3. ASSUME \/ \E u \in Sharees : RemoveSharedFile(u)
             \/ \E u \in Users : ReadUser(u)
             \/ \E w \in writer : WriteUser(w)
             \/ UNCHANGED vars
      PROVE  UNCHANGED <<objs, cache, blocks>>
    BY <1>3 DEF RemoveSharedFile, ReadUser, WriteUser, vars, renter
<1>4. QED
    BY <1>1, <1>2, <1>3 DEF Next, Serve

\* The renter's objects keep their file; new ones are of the file that was
\* saved, or of those that were read.
SameFiles ==
    /\ DOMAIN objs \subseteq DOMAIN objs'
    /\ \A o \in DOMAIN objs : objs'[o].id = objs[o].id /\ objs'[o].dir = objs[o].dir

\* A rename and a share change names and access lists of objects.
LEMMA ObjectsOfRename ==
    ASSUME TypesInv, made' \in Nat, made <= made',
           NEW t \in Threads, StartRename(t) \/ SendFile(t) \/ NoteShare(t), SharesInv
    PROVE  objs' \in Seq(Objects') /\ DOMAIN objs' = DOMAIN objs /\ SameFiles
<1>. USE DEF TypesInv
<1>1. /\ objs \in Seq(Objects) /\ Len(objs) \in Nat /\ DOMAIN objs = 1..Len(objs)
      /\ Objects \subseteq Objects' /\ \A o \in DOMAIN objs : objs[o] \in Objects
    BY ObjectsGrow, LenProperties, ElementOfSeq DEF RenterTyped
<1>2. ASSUME NEW new \in [DOMAIN objs -> Objects], objs' = new,
             \A o \in DOMAIN objs : new[o].id = objs[o].id /\ new[o].dir = objs[o].dir
      PROVE  objs' \in Seq(Objects') /\ DOMAIN objs' = DOMAIN objs /\ SameFiles
    <2>1. new \in [1..Len(objs) -> Objects']
        BY <1>1
    <2>2. new \in Seq(Objects')
        BY <1>1, <2>1
    <2>3. QED
        BY <1>2, <2>2 DEF SameFiles
<1>3. ASSUME NEW o \in DOMAIN objs, NEW name \in Name
      PROVE  /\ [objs[o] EXCEPT !.name = name] \in Objects
             /\ [objs[o] EXCEPT !.name = name].id = objs[o].id
             /\ [objs[o] EXCEPT !.name = name].dir = objs[o].dir
    BY <1>1 DEF Objects
<1>4. CASE StartRename(t)
    <2>0. PICK o \in cache, name \in Names :
            objs' = [i \in DOMAIN objs |->
                        IF i \in (IF objs[o].dir THEN CachedChildren(o) ELSE {})
                        THEN [objs[i] EXCEPT !.name = Moved(@, objs[o].name, name)]
                        ELSE objs[i]]
        BY <1>4 DEF StartRename
    <2>1. PICK kids :
            objs' = [i \in DOMAIN objs |->
                        IF i \in kids
                        THEN [objs[i] EXCEPT !.name = Moved(@, objs[o].name, name)]
                        ELSE objs[i]]
        BY <2>0
    <2>2. objs[o].name \in Name /\ name \in Name /\ \A i \in DOMAIN objs : objs[i].name \in Name
        BY <1>1, NamesAreLists DEF RenterTyped, Objects
    <2>3. \A i \in DOMAIN objs : Moved(objs[i].name, objs[o].name, name) \in Name
        BY <2>2, MovedIsName
    <2>4. ASSUME NEW i \in DOMAIN objs
          PROVE  /\ objs'[i] \in Objects
                 /\ objs'[i].id = objs[i].id /\ objs'[i].dir = objs[i].dir
        <3>1. CASE i \in kids
            <4>1. objs'[i] = [objs[i] EXCEPT !.name = Moved(objs[i].name, objs[o].name, name)]
                BY <2>1, <3>1
            <4>2. QED
                BY <1>3, <2>3, <4>1
        <3>2. CASE i \notin kids
            BY <1>1, <2>1, <3>2
        <3>3. QED
            BY <3>1, <3>2
    <2>5. PICK new : new = objs'
        OBVIOUS
    <2>6. new \in [DOMAIN objs -> Objects]
        BY <2>1, <2>4, <2>5
    <2>7. QED
        BY <1>2, <2>4, <2>5, <2>6
<1>5. ASSUME NEW o \in DOMAIN objs, NEW new \in Objects,
             new.id = objs[o].id, new.dir = objs[o].dir, objs' = [objs EXCEPT ![o] = new]
      PROVE  objs' \in Seq(Objects') /\ DOMAIN objs' = DOMAIN objs /\ SameFiles
    <2>1. PICK f : f = objs'
        OBVIOUS
    <2>2. f = [objs EXCEPT ![o] = new] /\ f \in [DOMAIN objs -> Objects]
        BY <1>1, <1>5, <2>1
    <2>3. \A i \in DOMAIN objs : f[i].id = objs[i].id /\ f[i].dir = objs[i].dir
        BY <1>1, <1>5, <2>2
    <2>4. QED
        BY <1>2, <2>1, <2>2, <2>3
<1>6. ASSUME UNCHANGED objs
      PROVE  objs' \in Seq(Objects') /\ DOMAIN objs' = DOMAIN objs /\ SameFiles
    <2>1. objs \in [DOMAIN objs -> Objects]
        BY <1>1
    <2>2. QED
        BY <1>2, <1>6, <2>1
<1>7. CASE SendFile(t)
    <2>1. CASE UNCHANGED objs
        BY <1>6, <2>1
    <2>2. CASE objs' = [objs EXCEPT ![call[t].obj].name = call[t].name]
        <3>1. call[t].obj \in DOMAIN objs /\ call[t].name \in Name
            BY <1>7, NamesAreLists DEF SendFile, CallTyped
        <3>2. PICK o \in DOMAIN objs, name \in Name : o = call[t].obj /\ name = call[t].name
            BY <3>1
        <3>3. objs' = [objs EXCEPT ![o] = [objs[o] EXCEPT !.name = name]]
            BY <2>2, <3>2
        <3>4. PICK new : new = [objs[o] EXCEPT !.name = name]
            OBVIOUS
        <3>5. new \in Objects /\ new.id = objs[o].id /\ new.dir = objs[o].dir
            BY <1>3, <3>4
        <3>6. QED
            BY <1>5, <3>3, <3>4, <3>5
    <2>3. QED
        BY <1>7, <2>1, <2>2 DEF SendFile
<1>8. CASE NoteShare(t)
    <2>1. PICK o, u : o = call[t].obj /\ u = call[t].with
        OBVIOUS
    <2>2. u \in Sharees /\ objs' = [objs EXCEPT ![o].acl = @ \cup {u}]
        BY <1>8, <2>1 DEF NoteShare, SharesInv, ShareInProgress
    <2>3. CASE o \notin DOMAIN objs
        <3>1. objs' = objs
            BY <1>1, <2>2, <2>3
        <3>2. QED
            BY <1>6, <3>1
    <2>4. CASE o \in DOMAIN objs
        <3>1. objs' = [objs EXCEPT ![o] = [objs[o] EXCEPT !.acl = objs[o].acl \cup {u}]]
            BY <2>2, <2>4
        <3>2. PICK new : new = [objs[o] EXCEPT !.acl = objs[o].acl \cup {u}]
            OBVIOUS
        <3>3. objs[o] \in Objects
            BY <1>1, <2>4
        <3>4. new \in Objects /\ new.id = objs[o].id /\ new.dir = objs[o].dir
            BY <2>2, <3>2, <3>3 DEF Objects
        <3>5. QED
            BY <1>5, <2>4, <3>1, <3>2, <3>4
    <2>5. QED
        BY <2>3, <2>4
<1>9. QED
    BY <1>4, <1>7, <1>8

\* A file saved is one object more.
LEMMA ObjectsOfSave ==
    ASSUME TypesInv, made' \in Nat, made <= made', NEW t \in Threads, SaveFile(t)
    PROVE  /\ objs' \in Seq(Objects') /\ SameFiles
           /\ DOMAIN objs' = DOMAIN objs \cup {Len(objs) + 1}
           /\ Len(objs) + 1 \notin DOMAIN objs
           /\ objs'[Len(objs) + 1] = Object(file[t], NewDocument(t))
<1>. USE DEF TypesInv
<1>1. /\ objs \in Seq(Objects') /\ Len(objs) \in Nat /\ DOMAIN objs = 1..Len(objs)
      /\ Objects \subseteq Objects' /\ 1..made \subseteq 1..made'
    BY ObjectsGrow, LenProperties, SeqMonotonic DEF RenterTyped
<1>2. file[t] \in 1..made /\ NewDocument(t) \in Document
    BY NamesAreLists, DocumentIs DEF SaveFile, CallTyped, Posting, NewDocument
<1>3. Object(file[t], NewDocument(t)) \in Objects
    BY <1>2, ObjectTyped
<1>4. PICK new \in Objects' : new = Object(file[t], NewDocument(t))
    BY <1>1, <1>3
<1>5. objs' = Append(objs, new)
    BY <1>4 DEF SaveFile
<1>. HIDE DEF Objects
<1>6. /\ Append(objs, new) \in Seq(Objects')
      /\ DOMAIN Append(objs, new) = 1..(Len(objs) + 1)
      /\ Append(objs, new)[Len(objs) + 1] = new
      /\ \A o \in 1..Len(objs) : Append(objs, new)[o] = objs[o]
    BY <1>1
<1>7. 1..(Len(objs) + 1) = 1..Len(objs) \cup {Len(objs) + 1} /\ Len(objs) + 1 \notin 1..Len(objs)
    BY <1>1
<1>8. QED
    BY <1>1, <1>4, <1>5, <1>6, <1>7 DEF SameFiles

\* A pull adds an object for every document it read.
LEMMA ObjectsOfPull ==
    ASSUME TypesInv, made' = made, NEW t \in Threads, ReplaceFiles(t)
    PROVE  /\ objs' \in Seq(Objects') /\ SameFiles /\ cache' \subseteq DOMAIN objs'
           /\ \A o \in DOMAIN objs' \ DOMAIN objs :
                \E id \in DOMAIN call[t].body : objs'[o] = Object(id, call[t].body[id])
<1>. USE DEF TypesInv
<1>. DEFINE body == call[t].body  ids == SetToSeq(DOMAIN body)
            new == [k \in DOMAIN ids |-> Object(ids[k], body[ids[k]])]
<1>1. /\ objs \in Seq(Objects) /\ Len(objs) \in Nat /\ DOMAIN objs = 1..Len(objs)
      /\ Objects' = Objects
    BY LenProperties DEF RenterTyped, Objects
<1>2. /\ DOMAIN body \subseteq 1..made
      /\ \A id \in DOMAIN body : Object(id, body[id]) \in Objects
    BY ObjectTyped DEF ReplaceFiles, CallTyped
<1>3. IsFiniteSet(DOMAIN body)
    <2>1. 1 \in Int /\ made \in Int /\ IsFiniteSet(1..made)
        BY FS_Interval
    <2>2. QED
        BY <1>2, <2>1, FS_Subset
<1>4. /\ ids \in Seq(DOMAIN body) /\ Len(ids) \in Nat /\ DOMAIN ids = 1..Len(ids)
      /\ \A k \in DOMAIN ids : ids[k] \in DOMAIN body
    BY <1>3, ListOfSet, LenProperties, ElementOfSeq
<1>. HIDE DEF ids
<1>5. new \in [1..Len(ids) -> Objects]
    BY <1>2, <1>4
<1>6. new \in Seq(Objects) /\ DOMAIN new = 1..Len(ids) /\ Len(new) = Len(ids)
    BY <1>4, <1>5
<1>7. \A k \in 1..Len(ids) : \E id \in DOMAIN body : new[k] = Object(id, body[id])
    BY <1>4
<1>8. objs' = objs \o new /\ cache' = Len(objs) + 1..Len(objs')
    BY DEF ReplaceFiles, ids
<1>. HIDE DEF new, body, Objects
<1>9. /\ objs' \in Seq(Objects) /\ Len(objs') = Len(objs) + Len(new)
      /\ \A i \in 1..Len(objs) + Len(new) :
            objs'[i] = IF i <= Len(objs) THEN objs[i] ELSE new[i - Len(objs)]
      /\ DOMAIN objs' = 1..Len(objs')
    BY <1>1, <1>6, <1>8, ConcatProperties, LenProperties
<1>10. SameFiles
    <2>1. \A o \in 1..Len(objs) : o \in 1..Len(objs') /\ objs'[o] = objs[o]
        BY <1>1, <1>4, <1>6, <1>9
    <2>2. QED
        BY <1>1, <1>9, <2>1 DEF SameFiles
<1>11. cache' \subseteq DOMAIN objs'
    BY <1>1, <1>4, <1>6, <1>8, <1>9
<1>12. ASSUME NEW o \in DOMAIN objs' \ DOMAIN objs
       PROVE  \E id \in DOMAIN body : objs'[o] = Object(id, body[id])
    <2>1. o - Len(objs) \in 1..Len(ids) /\ objs'[o] = new[o - Len(objs)]
        BY <1>1, <1>4, <1>6, <1>9
    <2>2. QED
        BY <1>7, <2>1
<1>13. QED
    BY <1>1, <1>9, <1>10, <1>11, <1>12 DEF body

\* The renter's objects stay typed, and stay of the same files.
LEMMA RenterStaysTyped ==
    ASSUME TypesInv, SharesInv, [Next]_vars
    PROVE  RenterTyped' /\ SameFiles
<1>. USE DEF TypesInv
<1>1. made \in Nat /\ made' \in Nat /\ made <= made'
    BY MadeGrows
<1>2. 1..made \subseteq 1..made' /\ objs \in Seq(Objects')
    BY <1>1, ObjectsGrow, SeqMonotonic DEF RenterTyped
<1>. HIDE DEF Objects
<1>3. ASSUME UNCHANGED objs, cache' \subseteq cache, blocks' \subseteq 1..made'
      PROVE  RenterTyped' /\ SameFiles
    BY <1>2, <1>3 DEF RenterTyped, SameFiles
<1>4. CASE UNCHANGED <<objs, cache, blocks>>
    BY <1>2, <1>3, <1>4 DEF RenterTyped
<1>5. ASSUME NEW t \in Threads, StartCreate(t)
      PROVE  RenterTyped' /\ SameFiles
    <2>1. made' = made + 1 /\ blocks' \subseteq blocks \cup {made + 1} /\ UNCHANGED <<objs, cache>>
        BY <1>5 DEF StartCreate
    <2>2. made + 1 \in 1..made'
        BY <1>1, <2>1
    <2>3. QED
        BY <1>2, <1>3, <2>1, <2>2 DEF RenterTyped
<1>6. ASSUME NEW t \in Threads, SaveFile(t)
      PROVE  RenterTyped' /\ SameFiles
    <2>1. /\ objs' \in Seq(Objects') /\ SameFiles
          /\ DOMAIN objs' = DOMAIN objs \cup {Len(objs) + 1}
        BY <1>1, <1>6, ObjectsOfSave
    <2>2. cache' = cache \cup {Len(objs) + 1}
        BY <1>6 DEF SaveFile
    <2>3. blocks' = blocks \/ (made' = made + 1 /\ blocks' = blocks \cup {made + 1})
        BY <1>6 DEF SaveFile
    <2>4. blocks' \subseteq 1..made'
        <3>1. made' = made + 1 => made + 1 \in 1..made'
            BY <1>1
        <3>2. QED
            BY <1>2, <2>3, <3>1 DEF RenterTyped
    <2>5. QED
        BY <2>1, <2>2, <2>4 DEF RenterTyped
<1>7. ASSUME NEW t \in Threads, UndoPost(t) \/ RemoveContents(t)
      PROVE  RenterTyped' /\ SameFiles
    <2>1. UNCHANGED objs /\ cache' \subseteq cache /\ blocks' \subseteq blocks
        BY <1>7 DEF UndoPost, RemoveContents
    <2>2. QED
        BY <1>2, <1>3, <2>1 DEF RenterTyped
<1>8. ASSUME NEW t \in Threads, ReplaceFiles(t)
      PROVE  RenterTyped' /\ SameFiles
    <2>1. UNCHANGED <<blocks, made>>
        BY <1>8 DEF ReplaceFiles
    <2>2. QED
        BY <1>2, <1>8, <2>1, ObjectsOfPull DEF RenterTyped
<1>9. ASSUME NEW t \in Threads, StartRename(t) \/ SendFile(t) \/ NoteShare(t)
      PROVE  RenterTyped' /\ SameFiles
    <2>1. UNCHANGED <<cache, blocks>>
        BY <1>9 DEF StartRename, SendFile, NoteShare
    <2>2. objs' \in Seq(Objects') /\ DOMAIN objs' = DOMAIN objs /\ SameFiles
        BY <1>1, <1>9, ObjectsOfRename
    <2>3. QED
        BY <1>2, <2>1, <2>2 DEF RenterTyped
<1>10. QED
    BY <1>4, <1>5, <1>6, <1>7, <1>8, <1>9, WhoChangesRenter

\* A request that begins holds what its place needs.
LEMMA CallsOfBeginnings ==
    ASSUME TypesInv, Shapes, NEW t \in Threads, made' \in Nat,
           \/ StartCreate(t) \/ StartUploadDir(t) \/ StartRemove(t) \/ StartPull(t)
           \/ StartRename(t) \/ StartShare(t) \/ StartUnshare(t)
    PROVE  CallTyped(t)' /\ OthersWait(t)
<1>. USE DEF TypesInv
<1>1. CASE StartCreate(t) \/ StartUploadDir(t)
    <2>1. PICK name \in Names, more \in BOOLEAN :
            /\ Begin(t, "insert", made + 1, [name |-> name, folder |-> 0, more |-> more])
            /\ more => name \in Folders
            /\ made' = made + 1
        BY <1>1 DEF StartCreate, StartUploadDir, Names
    <2>2. /\ pc'[t] = "insert" /\ file'[t] = made + 1 /\ OthersWait(t)
          /\ call'[t] = [name |-> name, folder |-> 0, more |-> more]
        BY <2>1, Going
    <2>3. made + 1 \in 1..made' /\ 0 \in 0..made'
        BY <2>1
    <2>4. /\ call'[t] \in [name : Names, folder : 0..made', more : BOOLEAN]
          /\ call'[t].more => call'[t].name \in Folders
        BY <2>1, <2>2, <2>3
    <2>5. QED
        BY <2>2, <2>3, <2>4 DEF CallTyped, Found
<1>2. CASE StartRemove(t)
    <2>1. PICK o \in cache, kids \in SUBSET cache :
            Begin(t, "find", objs[o].id, [undo |-> FALSE, kids |-> kids])
        BY <1>2 DEF StartRemove, CachedChildren
    <2>2. pc'[t] = "find" /\ OthersWait(t) /\ call'[t] = [undo |-> FALSE, kids |-> kids]
        BY <2>1, Going
    <2>3. kids \subseteq DOMAIN objs' /\ UNCHANGED objs
        BY <1>2 DEF StartRemove, renter, RenterTyped
    <2>4. QED
        BY <2>2, <2>3 DEF CallTyped, Posting, Found
<1>3. CASE StartRename(t)
    <2>1. PICK o \in cache, name \in Names, kids \in SUBSET cache :
            Begin(t, "send", 0, [obj |-> o, name |-> name, kids |-> kids])
        BY <1>3 DEF StartRename, CachedChildren
    <2>2. /\ pc'[t] = "send" /\ OthersWait(t)
          /\ call'[t] = [obj |-> o, name |-> name, kids |-> kids]
        BY <2>1, Going
    <2>3. DOMAIN objs' = DOMAIN objs
        BY <1>3 DEF StartRename
    <2>4. o \in DOMAIN objs' /\ kids \subseteq DOMAIN objs'
        BY <2>3 DEF RenterTyped
    <2>5. call'[t] \in [obj : DOMAIN objs', name : Names, kids : SUBSET DOMAIN objs']
        BY <2>2, <2>4
    <2>6. QED
        BY <2>2, <2>5 DEF CallTyped, Posting, Found
<1>4. CASE \E where \in {"list", "permit", "forbid"} : \E id, state : Begin(t, where, id, state)
    <2>1. pc'[t] \in {"list", "permit", "forbid"} /\ OthersWait(t)
        BY <1>4, Going
    <2>2. QED
        BY <2>1 DEF CallTyped, Posting, Found
<1>5. CASE StartPull(t)
    BY <1>4, <1>5 DEF StartPull
<1>6. CASE StartShare(t) \/ StartUnshare(t)
    BY <1>4, <1>6 DEF StartShare, StartUnshare
<1>7. QED
    BY <1>1, <1>2, <1>3, <1>5, <1>6

\* A place that holds nothing.
LEMMA CallsElsewhere ==
    ASSUME NEW t, pc'[t] \in {"idle", "list", "read", "share", "note", "unshare"}
    PROVE  CallTyped(t)'
  BY DEF CallTyped, Posting, Found

\* A request that keeps what it holds.
LEMMA CallsKept ==
    ASSUME TypesInv, NEW t \in Threads, UNCHANGED <<made, objs>>,
           file'[t] = file[t], call'[t] = call[t],
           \/ pc[t] \in Posting /\ pc'[t] \in Posting
           \/ pc[t] \in Found /\ pc'[t] \in Found
    PROVE  CallTyped(t)'
<1>1. CallTyped(t)
    BY DEF TypesInv
<1>2. CASE pc[t] \in Posting /\ pc'[t] \in Posting
    BY <1>1, <1>2 DEF CallTyped, Posting, Found
<1>3. CASE pc[t] \in Found /\ pc'[t] \in Found
    BY <1>1, <1>3 DEF CallTyped, Posting, Found
<1>4. QED
    BY <1>2, <1>3

\* What a POST holds stays typed.
LEMMA CallsOfPosts ==
    ASSUME TypesInv, Shapes, NEW t \in Threads, made' \in Nat, made <= made',
           InsertFile(t) \/ AddToDirectory(t) \/ SaveFile(t) \/ UndoPost(t)
    PROVE  CallTyped(t)' /\ OthersWait(t)
<1>. USE DEF TypesInv
<1>1. CASE InsertFile(t) \/ AddToDirectory(t)
    <2>1. pc[t] \in Posting /\ UNCHANGED <<made, objs>>
          /\ \E where \in Posting : Goto(t, where)
        BY <1>1 DEF InsertFile, AddToDirectory, AfterInsert, AfterEntering, Posting, renter
    <2>2. /\ OthersWait(t) /\ pc'[t] \in Posting /\ file'[t] = file[t] /\ call'[t] = call[t]
        BY <2>1, Going
    <2>3. QED
        BY <2>1, <2>2, CallsKept
<1>2. CASE SaveFile(t)
    <2>1. CASE call[t].more
        <3>1. /\ call[t].name \in Folders /\ file[t] \in 1..made
            BY <1>2, <2>1 DEF SaveFile, CallTyped, Posting
        <3>2. /\ OthersWait(t) /\ pc'[t] = "insert" /\ file'[t] = made + 1 /\ made' = made + 1
              /\ call'[t] = [name |-> Append(call[t].name, Inner), folder |-> file[t],
                             more |-> FALSE]
            BY <1>2, <2>1 DEF SaveFile, OthersWait, Shapes
        <3>3. /\ Append(call[t].name, Inner) \in Names
              /\ file[t] \in 0..made' /\ made + 1 \in 1..made'
            BY <3>1, <3>2 DEF Names
        <3>4. call'[t] \in [name : Names, folder : 0..made', more : BOOLEAN] /\ ~call'[t].more
            BY <3>2, <3>3
        <3>5. QED
            BY <3>2, <3>3, <3>4 DEF CallTyped, Found
    <2>2. CASE ~call[t].more
        <3>1. OthersWait(t) /\ pc'[t] = "idle"
            BY <1>2, <2>2, Going DEF SaveFile
        <3>2. QED
            BY <3>1, CallsElsewhere
    <2>3. QED
        BY <2>1, <2>2
<1>3. CASE UndoPost(t)
    <2>1. CASE call[t].folder = 0
        <3>1. OthersWait(t) /\ pc'[t] = "idle"
            BY <1>3, <2>1, Going DEF UndoPost
        <3>2. QED
            BY <3>1, CallsElsewhere
    <2>2. CASE call[t].folder # 0
        <3>1. /\ OthersWait(t) /\ pc'[t] = "find"
              /\ call'[t] = [kids |-> {}, undo |-> TRUE]
            BY <1>3, <2>2 DEF UndoPost, OthersWait, Shapes
        <3>2. QED
            BY <3>1 DEF CallTyped, Posting, Found
    <2>3. QED
        BY <2>1, <2>2
<1>4. QED
    BY <1>1, <1>2, <1>3

\* What a removal holds stays typed.
LEMMA CallsOfRemovals ==
    ASSUME TypesInv, Shapes, NEW t \in Threads,
           \/ FindFile(t) \/ FindChildren(t) \/ RemoveChildren(t) \/ DeleteFile(t)
           \/ RemoveFromDirectory(t) \/ RemoveContents(t)
    PROVE  CallTyped(t)' /\ OthersWait(t)
<1>. USE DEF TypesInv
<1>1. UNCHANGED <<made, objs>>
    BY DEF FindFile, FindChildren, RemoveChildren, DeleteFile, RemoveFromDirectory,
           RemoveContents, renter
<1>2. CASE Finish(t)
    <2>1. OthersWait(t) /\ pc'[t] = "idle"
        BY <1>2, Going
    <2>2. QED
        BY <2>1, CallsElsewhere
<1>3. CASE FindFile(t) /\ ~Finish(t)
    <2>1. PICK where \in Found :
            /\ GotoWith(t, where, [undo |-> call[t].undo, kids |-> call[t].kids,
                                   old |-> docs[file[t]].name])
            /\ pc[t] = "find" /\ file[t] \in DOMAIN docs
        BY <1>3 DEF FindFile, Found
    <2>2. /\ OthersWait(t) /\ pc'[t] \in Found
          /\ call'[t] = [undo |-> call[t].undo, kids |-> call[t].kids,
                         old |-> docs[file[t]].name]
        BY <2>1, Going
    <2>3. /\ call[t] \in [undo : BOOLEAN, kids : SUBSET DOMAIN objs]
          /\ docs[file[t]].name \in Name
        BY <2>1, DocumentIs DEF CallTyped, DocsTyped
    <2>4. call'[t] \in [undo : BOOLEAN, kids : SUBSET DOMAIN objs, old : Name]
        BY <2>2, <2>3
    <2>5. QED
        BY <1>1, <2>2, <2>4 DEF CallTyped, Posting, Found
<1>4. CASE FindChildren(t)
    <2>1. OthersWait(t) /\ pc'[t] = "sweep" /\ file'[t] = file[t] /\ call'[t] = call[t]
        BY <1>4 DEF FindChildren, OthersWait, Shapes
    <2>2. QED
        BY <1>1, <1>4, <2>1, CallsKept DEF FindChildren, Found
<1>5. CASE /\ ~Finish(t)
           /\ RemoveChildren(t) \/ DeleteFile(t) \/ RemoveFromDirectory(t)
    <2>1. pc[t] \in Found /\ \E where \in Found : Goto(t, where)
        BY <1>5 DEF RemoveChildren, DeleteFile, RemoveFromDirectory, Found
    <2>2. OthersWait(t) /\ pc'[t] \in Found /\ file'[t] = file[t] /\ call'[t] = call[t]
        BY <2>1, Going
    <2>3. QED
        BY <1>1, <2>1, <2>2, CallsKept
<1>6. CASE RemoveContents(t) /\ ~Finish(t)
    <2>1. GotoWith(t, "list", Nothing)
        BY <1>6 DEF RemoveContents
    <2>2. OthersWait(t) /\ pc'[t] = "list"
        BY <2>1, Going
    <2>3. QED
        BY <2>2, CallsElsewhere
<1>7. QED
    BY <1>2, <1>3, <1>4, <1>5, <1>6

\* What a pull holds stays typed.
LEMMA CallsOfPulls ==
    ASSUME TypesInv, Shapes, NEW t \in Threads,
           ReadDirectory(t) \/ ReadFiles(t) \/ ReplaceFiles(t)
    PROVE  CallTyped(t)' /\ OthersWait(t)
<1>. USE DEF TypesInv
<1>1. CASE ReadDirectory(t) \/ ReplaceFiles(t)
    <2>1. OthersWait(t) /\ pc'[t] \in {"read", "idle"}
        BY <1>1, Going DEF ReadDirectory, ReplaceFiles
    <2>2. QED
        BY <2>1, CallsElsewhere
<1>2. CASE ReadFiles(t)
    <2>1. PICK body : /\ body = Restrict(docs, call[t].listed \cap DOMAIN docs)
                      /\ GotoWith(t, "replace", [body |-> body])
        BY <1>2 DEF ReadFiles
    <2>2. /\ OthersWait(t) /\ pc'[t] = "replace" /\ call'[t] = [body |-> body]
          /\ UNCHANGED made
        BY <1>2, <2>1, Going DEF ReadFiles, renter
    <2>3. /\ DOMAIN body \subseteq DOMAIN docs
          /\ \A id \in DOMAIN body : body[id] = docs[id]
        BY <2>1 DEF Restrict
    <2>4. call'[t].body = body
        BY <2>2
    <2>5. /\ DOMAIN call'[t].body \subseteq 1..made'
          /\ \A id \in DOMAIN call'[t].body : call'[t].body[id] \in Document
        BY <2>2, <2>3, <2>4 DEF DocsTyped
    <2>6. QED
        BY <2>2, <2>5 DEF CallTyped, Posting, Found
<1>3. QED
    BY <1>1, <1>2

\* A share holds nothing that matters to the types.
LEMMA CallsOfShares ==
    ASSUME TypesInv, Shapes, NEW t \in Threads,
           \/ AddPermission(t) \/ AddToSharedDirectory(t) \/ NoteShare(t)
           \/ RemovePermission(t) \/ RemoveFromSharedDirectory(t)
    PROVE  CallTyped(t)' /\ OthersWait(t)
<1>1. OthersWait(t) /\ pc'[t] \in {"idle", "share", "note", "unshare"}
    <2>1. CASE Finish(t)
        BY <2>1, Going
    <2>2. CASE \E where \in {"share", "note", "unshare"} : Goto(t, where)
        BY <2>2, Going
    <2>3. QED
        BY <2>1, <2>2 DEF AddPermission, AddToSharedDirectory, NoteShare, RemovePermission,
                          RemoveFromSharedDirectory
<1>2. QED
    BY <1>1, CallsElsewhere

\* A PUT under way.
PutCalls == [obj : DOMAIN objs, name : Names, kids : SUBSET DOMAIN objs,
             body : Objects, last : BOOLEAN, old : Name, items : SUBSET Objects]

\* The place after the children of a folder were computed.
LEMMA CallsOfPut ==
    ASSUME NEW t, pc'[t] \in {"put", "rename", "update"}, call'[t] \in PutCalls'
    PROVE  CallTyped(t)'
  BY DEF CallTyped, Posting, Found, PutCalls

\* The children of a renamed folder are sent as objects.
LEMMA RenamedTyped ==
    ASSUME TypesInv, NEW old \in Name, NEW new \in Name
    PROVE  Renamed(old, new) \subseteq Objects
<1>1. ASSUME NEW i \in Children(old)
      PROVE  Object(i, [docs[i] EXCEPT !.name = Moved(@, old, new)]) \in Objects
    <2>1. /\ i \in 1..made /\ docs[i] \in Document /\ docs[i].name \in Name
        BY DocumentIs DEF TypesInv, DocsTyped, Children
    <2>2. PICK name \in Name : name = Moved(docs[i].name, old, new)
        BY <2>1, MovedIsName
    <2>3. [docs[i] EXCEPT !.name = name] \in Document
        BY <2>1, <2>2, DocumentIs
    <2>4. Object(i, [docs[i] EXCEPT !.name = name]) \in Objects
        BY <2>1, <2>3, ObjectTyped
    <2>5. QED
        BY <2>2, <2>4
<1>2. QED
    BY <1>1 DEF Renamed

\* What a rename holds stays typed.
LEMMA CallsOfRenames ==
    ASSUME TypesInv, SharesInv, Shapes, NEW t \in Threads, made' \in Nat, made <= made',
           SendFile(t) \/ PutFile(t) \/ FindRenamed(t) \/ RenameChild(t) \/ UpdateFile(t)
    PROVE  CallTyped(t)' /\ OthersWait(t)
<1>. USE DEF TypesInv
<1>1. UNCHANGED made /\ Objects' = Objects
    BY DEF SendFile, PutFile, FindRenamed, RenameChild, UpdateFile, renter, Objects
<1>2. CASE Finish(t)
    <2>1. OthersWait(t) /\ pc'[t] = "idle"
        BY <1>2, Going
    <2>2. QED
        BY <2>1, CallsElsewhere
<1>3. CASE SendFile(t)
    <2>1. call[t] \in [obj : DOMAIN objs, name : Names, kids : SUBSET DOMAIN objs]
        BY <1>3 DEF SendFile, CallTyped
    <2>2. objs' \in Seq(Objects) /\ DOMAIN objs' = DOMAIN objs
        BY <1>1, <1>3, ObjectsOfRename
    <2>3. \A o \in DOMAIN objs : objs[o] \in Objects /\ objs'[o] \in Objects
        BY <2>2, ElementOfSeq, LenProperties DEF RenterTyped
    <2>4. \/ \E k \in call[t].kids :
                GotoWith(t, "put", Sent(t, call[t].kids \ {k}, objs[k], FALSE))
          \/ GotoWith(t, "put", Sent(t, {}, objs'[call[t].obj], TRUE))
        BY <1>3 DEF SendFile
    <2>5. ASSUME NEW k \in call[t].kids
          PROVE  call[t].kids \ {k} \subseteq DOMAIN objs /\ objs[k] \in Objects
        BY <2>1, <2>3
    <2>6. objs'[call[t].obj] \in Objects
        BY <2>1, <2>3
    <2>7. ASSUME NEW kids \in SUBSET DOMAIN objs, NEW body \in Objects, NEW last \in BOOLEAN,
                 GotoWith(t, "put", Sent(t, kids, body, last))
          PROVE  CallTyped(t)' /\ OthersWait(t)
        <3>1. OthersWait(t) /\ pc'[t] = "put" /\ call'[t] = Sent(t, kids, body, last)
            BY <2>7, Going
        <3>2. Sent(t, kids, body, last) \in
                [obj : DOMAIN objs, name : Names, kids : SUBSET DOMAIN objs,
                 body : Objects, last : BOOLEAN, old : Name, items : SUBSET Objects]
            BY <2>1 DEF Sent, Name
        <3>3. call'[t] \in PutCalls'
            BY <1>1, <2>2, <3>1, <3>2 DEF PutCalls
        <3>4. QED
            BY <3>1, <3>3, CallsOfPut
    <2>8. CASE \E k \in call[t].kids :
                    GotoWith(t, "put", Sent(t, call[t].kids \ {k}, objs[k], FALSE))
        BY <2>5, <2>7, <2>8
    <2>9. CASE GotoWith(t, "put", Sent(t, {}, objs'[call[t].obj], TRUE))
        <3>1. PICK x \in Objects : x = objs'[call[t].obj]
            BY <2>6
        <3>2. GotoWith(t, "put", Sent(t, {}, x, TRUE)) /\ {} \in SUBSET DOMAIN objs
            BY <2>9, <3>1
        <3>3. QED
            BY <2>7, <3>2
    <2>10. QED
        BY <2>4, <2>8, <2>9
<1>4. CASE PutFile(t) \/ FindRenamed(t) \/ RenameChild(t) \/ UpdateFile(t)
    <2>1. UNCHANGED objs /\ call[t] \in PutCalls
        BY <1>4 DEF PutFile, FindRenamed, RenameChild, UpdateFile, renter, CallTyped,
                    PutCalls
    <2>2. CASE \E items \in SUBSET Objects :
                    GotoWith(t, "update", [call[t] EXCEPT !.items = items])
        <3>1. PICK items \in SUBSET Objects :
                    GotoWith(t, "update", [call[t] EXCEPT !.items = items])
            BY <2>2
        <3>2. /\ OthersWait(t) /\ pc'[t] = "update"
              /\ call'[t] = [call[t] EXCEPT !.items = items]
            BY <3>1, Going
        <3>3. call'[t] \in PutCalls
            BY <2>1, <3>2 DEF PutCalls
        <3>4. PutCalls' = PutCalls
            BY <1>1, <2>1 DEF PutCalls
        <3>5. QED
            BY <3>2, <3>3, <3>4, CallsOfPut
    <2>7. CASE PutFile(t) /\ ~Finish(t)
        <3>1. call[t].body.id \in DOMAIN docs
            BY <2>7 DEF PutFile
        <3>2. PICK old \in Name : old = docs[call[t].body.id].name
            BY <3>1, DocumentIs DEF DocsTyped
        <3>3. PICK where \in {"rename", "update"} :
                GotoWith(t, where, [call[t] EXCEPT !.old = old])
            BY <2>7, <3>1, <3>2 DEF PutFile
        <3>4. /\ OthersWait(t) /\ pc'[t] = where
              /\ call'[t] = [call[t] EXCEPT !.old = old]
            BY <3>3, Going
        <3>5. call'[t] \in PutCalls
            BY <2>1, <3>4 DEF PutCalls
        <3>6. PutCalls' = PutCalls
            BY <1>1, <2>1 DEF PutCalls
        <3>7. QED
            BY <3>4, <3>5, <3>6, CallsOfPut
    <2>3. CASE FindRenamed(t)
        <3>1. call[t].body \in Objects /\ call[t].old \in Name
            BY <2>1 DEF PutCalls
        <3>2. call[t].body.name \in Name
            BY <3>1 DEF Objects
        <3>3. Renamed(call[t].old, call[t].body.name) \subseteq Objects
            BY <3>1, <3>2, RenamedTyped
        <3>4. QED
            BY <2>2, <2>3, <3>3 DEF FindRenamed
    <2>4. CASE RenameChild(t) /\ ~Finish(t)
        <3>1. call[t].items \subseteq Objects
            BY <2>1 DEF PutCalls
        <3>2. \A item : call[t].items \ {item} \in SUBSET Objects
            BY <3>1
        <3>3. QED
            BY <2>2, <2>4, <3>2 DEF RenameChild
    <2>5. CASE UpdateFile(t) /\ ~Finish(t)
        <3>1. GotoWith(t, "send", [obj |-> call[t].obj, name |-> call[t].name,
                                   kids |-> call[t].kids])
            BY <2>5 DEF UpdateFile
        <3>2. /\ OthersWait(t) /\ pc'[t] = "send"
              /\ call'[t] = [obj |-> call[t].obj, name |-> call[t].name,
                             kids |-> call[t].kids]
            BY <3>1, Going
        <3>3. call'[t] \in [obj : DOMAIN objs', name : Names, kids : SUBSET DOMAIN objs']
            BY <2>1, <3>2 DEF PutCalls
        <3>4. QED
            BY <3>2, <3>3 DEF CallTyped, Posting, Found
    <2>6. QED
        BY <1>2, <1>4, <2>3, <2>4, <2>5, <2>7
<1>5. QED
    BY <1>3, <1>4

\* What the requests hold stays typed.
LEMMA CallsStayTyped ==
    ASSUME TypesInv, DirectoryInv, SharesInv, [Next]_vars, NEW u \in Threads
    PROVE  CallTyped(u)'
<1>1. /\ made \in Nat /\ made' \in Nat /\ made <= made' /\ Shapes
      /\ DOMAIN objs \subseteq DOMAIN objs' /\ CallTyped(u)
    BY MadeGrows, RenterStaysTyped DEF TypesInv, DirectoryInv, SameFiles
<1>2. ASSUME NEW t \in Threads, CallTyped(t)' /\ OthersWait(t)
      PROVE  CallTyped(u)'
    <2>1. CASE u = t
        BY <1>2, <2>1
    <2>2. CASE u # t
        BY <1>1, <1>2, <2>2, CallStaysTyped DEF OthersWait
    <2>3. QED
        BY <2>1, <2>2
<1>3. ASSUME UNCHANGED request
      PROVE  CallTyped(u)'
    BY <1>1, <1>3, CallStaysTyped DEF request
<1>4. ASSUME NEW t \in Threads, Serve(t)
      PROVE  CallTyped(t)' /\ OthersWait(t)
    BY <1>1, <1>4, CallsOfPosts, CallsOfRemovals, CallsOfPulls, CallsOfRenames, CallsOfShares
       DEF Serve
<1>5. ASSUME NEW t \in Threads,
             \/ StartCreate(t) \/ StartUploadDir(t) \/ StartRemove(t) \/ StartPull(t)
             \/ StartRename(t) \/ StartShare(t) \/ StartUnshare(t)
      PROVE  CallTyped(t)' /\ OthersWait(t)
    BY <1>1, <1>5, CallsOfBeginnings
<1>6. ASSUME \/ \E v \in Sharees : RemoveSharedFile(v)
             \/ \E v \in Users : ReadUser(v)
             \/ \E w \in writer : WriteUser(w)
             \/ UNCHANGED vars
      PROVE  UNCHANGED request
    BY <1>6 DEF RemoveSharedFile, ReadUser, WriteUser, vars
<1>7. QED
    BY <1>2, <1>3, <1>4, <1>5, <1>6 DEF Next

\* The invariant of the types is inductive, given the other two.
LEMMA TypesNext == TypesInv /\ DirectoryInv /\ SharesInv /\ [Next]_vars => TypesInv'
<1>. SUFFICES ASSUME TypesInv, DirectoryInv, SharesInv, [Next]_vars PROVE TypesInv'
    OBVIOUS
<1>1. made' \in Nat
    BY MadeGrows DEF TypesInv
<1>2. \A u \in Threads : CallTyped(u)'
    BY CallsStayTyped
<1>3. QED
    BY <1>1, <1>2, DocsStayTyped, ListsStayTyped, RenterStaysTyped DEF TypesInv

\* The initial state has its types.
LEMMA TypesInit == Init => TypesInv
<1>. SUFFICES ASSUME Init PROVE TypesInv
    OBVIOUS
<1>. DEFINE doc(name) == [name |-> name, dir |-> name \in Folders, acl |-> {}]
<1>1. PICK folder \in Folders :
        /\ docs = <<doc(folder), doc(Append(folder, Inner))>>
        /\ objs = [i \in 1..2 |-> Object(i, <<doc(folder), doc(Append(folder, Inner))>>[i])]
    BY DirectoryAssumption DEF Init
<1>. DEFINE child == Append(folder, Inner)
<1>2. folder \in Name /\ child \in Name
    BY NamesAreLists DEF Names
<1>3. folder # child
    <2>1. folder \in Seq(Part)
        BY <1>2 DEF Name
    <2>2. Len(child) = Len(folder) + 1 /\ Len(folder) \in Nat
        BY <2>1
    <2>3. QED
        BY <2>2
<1>4. PICK a \in Document, b \in Document :
        docs = <<a, b>> /\ a.name # b.name /\ objs = [i \in 1..2 |-> Object(i, <<a, b>>[i])]
    <2>1. doc(folder) \in Document /\ doc(child) \in Document
        BY <1>2, DocumentIs
    <2>2. doc(folder).name = folder /\ doc(child).name = child
        OBVIOUS
    <2>3. PICK a \in Document, b \in Document : a = doc(folder) /\ b = doc(child)
        BY <2>1
    <2>4. a.name # b.name
        BY <1>3, <2>2, <2>3
    <2>. HIDE DEF doc
    <2>5. docs = <<a, b>> /\ objs = [i \in 1..2 |-> Object(i, <<a, b>>[i])]
        BY <1>1, <2>3
    <2>6. QED
        BY <2>4, <2>5
<1>. HIDE DEF doc
<1>5. made = 2 /\ made \in Nat
    BY DEF Init
<1>6. DocsTyped
    BY <1>4, <1>5 DEF DocsTyped
<1>7. ListsTyped
    BY <1>5 DEF Init, ListsTyped
<1>8. RenterTyped
    <2>1. Object(1, a) \in Objects /\ Object(2, b) \in Objects
        BY <1>5, ObjectTyped
    <2>2. objs \in [1..2 -> Objects]
        <3>1. \A i \in 1..2 : Object(i, <<a, b>>[i]) \in Objects
            BY <2>1
        <3>2. QED
            BY <1>4, <3>1
    <2>3. objs \in Seq(Objects) /\ DOMAIN objs = 1..2
        <3>1. PICK n \in Nat : n = 2
            OBVIOUS
        <3>. HIDE DEF Objects
        <3>2. objs \in [1..n -> Objects]
            BY <2>2, <3>1
        <3>3. objs \in Seq(Objects)
            BY <3>2
        <3>4. QED
            BY <2>2, <3>3
    <2>4. cache = {1, 2} /\ blocks = {2}
        BY DEF Init
    <2>5. QED
        BY <1>5, <2>3, <2>4 DEF RenterTyped
<1>9. \A t \in Threads : CallTyped(t)
    BY DEF Init, CallTyped, Posting, Found
<1>10. QED
    BY <1>5, <1>6, <1>7, <1>8, <1>9 DEF TypesInv

\* The three invariants together, for the proofs that rest on them.
LEMMA AllInvariants == Spec => [](DirectoryInv /\ SharesInv /\ TypesInv)
<1>1. Init => DirectoryInv /\ SharesInv /\ TypesInv
    BY DirectoryInit, SharesInit, TypesInit
<1>2. DirectoryInv /\ SharesInv /\ TypesInv /\ [Next]_vars
        => (DirectoryInv /\ SharesInv /\ TypesInv)'
    BY DirectoryStep, SharesNext, TypesNext
<1>3. QED
    BY <1>1, <1>2, PTL DEF Spec

\* The state has its types; among others, no two documents of an owner have
\* one name, in spite of renames of folders and of their children in steps.
THEOREM TypeCorrect == Spec => []TypeOK
<1>1. TypesInv => TypeOK
    BY DEF TypesInv, DocsTyped, ListsTyped, RenterTyped, TypeOK
<1>2. QED
    BY AllInvariants, <1>1, PTL

-----------------------------------------------------------------------------
(***************************************************************************)
(* A file saved is kept.                                                   *)
(***************************************************************************)
\* Asked to be removed, or hit by one of the mishaps.
Settled(id) == id \in asked \cup moved \cup misnamed \cup swept

Here(id) == Settled(id) \/ (id \in DOMAIN docs /\ (docs[id].dir \/ id \in blocks))

\* Whether a file is a folder never changes: what requests know of it is true.
Faithful(id, dir) == Known(id) /\ (id \in DOMAIN docs => docs[id].dir = dir)

\* The files that a request made and nobody was told of yet.
Saving == {"insert", "enter", "save"}
RemovingAt == {"find"} \cup Found

Own(t) ==
    IF pc[t] \in Posting THEN {file[t], call[t].folder} \ {0}
    ELSE IF pc[t] \in RemovingAt /\ call[t].undo THEN {file[t]}
    ELSE {}

PostIsGood(t) ==
    /\ pc[t] \in Posting => call[t].folder # file[t]
    /\ pc[t] \in {"enter", "save"} =>
         /\ Here(file[t])
         /\ file[t] \in DOMAIN docs => (docs[file[t]].dir <=> call[t].name \in Folders)
    /\ pc[t] \in Saving => call[t].folder = 0 \/ Here(call[t].folder)
    /\ pc[t] = "insert" =>
         call[t].name \in Folders \/ file[t] \in blocks \/ Settled(file[t])

BodiesAreFaithful(t) ==
    /\ pc[t] = "replace" =>
         \A id \in DOMAIN call[t].body : Faithful(id, call[t].body[id].dir)
    /\ pc[t] \in {"put", "rename", "update"} =>
         \A body \in {call[t].body} \cup call[t].items : Faithful(body.id, body.dir)

\* A child that the renter has cached is under the folder, or gone, or was
\* moved away or misnamed; it is gone when its blocks are removed.
KidsGo(t) ==
    /\ pc[t] \in RemovingAt =>
         IF call[t].undo THEN call[t].kids = {} ELSE file[t] \in asked /\ Known(file[t])
    /\ pc[t] \in RemovingAt => \A k \in call[t].kids :
         \/ Settled(objs[k].id) \/ objs[k].id \notin DOMAIN docs
         \/ /\ pc[t] = "find"
            /\ file[t] \in DOMAIN docs =>
                 docs[file[t]].dir /\ Under(docs[file[t]].name, docs[objs[k].id].name)
         \/ pc[t] \in {"children", "sweep"} /\ Under(call[t].old, docs[objs[k].id].name)

Busy(t) == PostIsGood(t) /\ BodiesAreFaithful(t) /\ KidsGo(t)

OwnersApart ==
    /\ acked \subseteq 1..made
    /\ \A t \in Threads : Own(t) \subseteq 1..made /\ Own(t) \cap acked = {}
    /\ \A t, u \in Threads : t # u => Own(t) \cap Own(u) = {}

SavedInv ==
    /\ OwnersApart
    /\ \A id \in acked : Here(id)
    /\ \A o \in DOMAIN objs : Faithful(objs[o].id, objs[o].dir)
    /\ \A t \in Threads : Busy(t)

\* A file of somebody's that a request undoes.
Undone(id) == \E t \in Threads : id \in Own(t) /\ pc[t] \notin Saving

\* Who removes f, or the folder f that has f's new name, is no worse off for
\* the rename of f, or it is recorded.
Noted(f) ==
    \A u \in Threads : Removing(u) =>
        /\ f \in Doomed(u) => f \in moved'
        /\ pc[u] = "find" /\ file[u] = f =>
             \A id \in Doomed(u) \cap DOMAIN docs :
                Under(docs[f].name, docs[id].name) => id \in moved'

\* A step that takes away no file or blocks unnoticed, makes no old file new
\* again, and moves no file out of a folder that is being removed unnoticed.
SavedGoesOn ==
    /\ made' \in Nat /\ made <= made'
    /\ asked \subseteq asked' /\ moved \subseteq moved'
    /\ misnamed \subseteq misnamed' /\ swept \subseteq swept'
    /\ \A id : Pending(id)' => Pending(id) \/ id \notin 1..made
    /\ \A id \in DOMAIN docs' : id \in DOMAIN docs \/ Pending(id)
    /\ \A id \in DOMAIN docs \cap DOMAIN docs' : docs'[id].dir = docs[id].dir
    /\ \A id \in DOMAIN docs \ DOMAIN docs' : Settled(id)' \/ Undone(id)
    /\ \A id \in blocks \ blocks' :
         Settled(id)' \/ Undone(id) \/ (id \notin DOMAIN docs /\ Known(id))
    /\ \A f \in DOMAIN docs \cap DOMAIN docs' : docs'[f].name = docs[f].name \/ Noted(f)

\* Asked for or hit once, a file counts as such for good.
LEMMA SettledStays ==
    ASSUME SavedGoesOn, NEW id, Settled(id)
    PROVE  Settled(id)'
  BY DEF SavedGoesOn, Settled

\* A file that is here stays, unless it is undone.
LEMMA HereStays ==
    ASSUME SavedGoesOn, NEW id, Here(id), ~Undone(id)
    PROVE  Here(id)'
<1>1. CASE Settled(id)
    BY <1>1, SettledStays DEF Here
<1>2. CASE ~Settled(id)
    <2>1. id \in DOMAIN docs /\ (docs[id].dir \/ id \in blocks)
        BY <1>2 DEF Here
    <2>2. Settled(id)' \/ id \in DOMAIN docs'
        BY <2>1 DEF SavedGoesOn
    <2>3. docs[id].dir /\ id \in DOMAIN docs' => docs'[id].dir
        BY <2>1 DEF SavedGoesOn
    <2>4. id \in blocks => Settled(id)' \/ id \in blocks'
        BY <2>1 DEF SavedGoesOn
    <2>5. QED
        BY <2>1, <2>2, <2>3, <2>4 DEF Here
<1>3. QED
    BY <1>1, <1>2

\* A file that exists or has existed stays one.
LEMMA KnownRemains ==
    ASSUME made \in Nat, SavedGoesOn, NEW id, Known(id)
    PROVE  Known(id)'
<1>1. id \in 1..made /\ ~Pending(id)
    BY DEF Known
<1>2. id \in 1..made' /\ ~Pending(id)'
    BY <1>1 DEF SavedGoesOn
<1>3. QED
    BY <1>2 DEF Known

\* What is known of a file, that it is a folder or not, stays true.
LEMMA FaithfulStays ==
    ASSUME made \in Nat, SavedGoesOn, NEW id, NEW dir, Faithful(id, dir)
    PROVE  Faithful(id, dir)'
<1>1. Known(id) /\ Known(id)' /\ (id \in DOMAIN docs => docs[id].dir = dir)
    BY KnownRemains DEF Faithful
<1>2. id \in DOMAIN docs' => id \in DOMAIN docs
    BY <1>1 DEF SavedGoesOn, Known
<1>3. id \in DOMAIN docs' => docs'[id].dir = dir
    BY <1>1, <1>2 DEF SavedGoesOn
<1>4. QED
    BY <1>1, <1>3 DEF Faithful

\* What a request makes is undone by nobody else, and by itself only later.
LEMMA SavingIsNotUndone ==
    ASSUME OwnersApart, NEW t \in Threads, pc[t] \in Saving, NEW id \in Own(t)
    PROVE  ~Undone(id) /\ id \in 1..made
  BY DEF OwnersApart, Undone

\* A file that its user was told of is undone by nobody.
LEMMA AckedIsNotUndone ==
    ASSUME OwnersApart, NEW id \in acked
    PROVE  ~Undone(id)
  BY DEF OwnersApart, Undone

\* What a POST owns: the file, and the folder made before it.
LEMMA OwnWhileSaving ==
    ASSUME NEW t, pc[t] \in Posting, file[t] # 0
    PROVE  file[t] \in Own(t) /\ (call[t].folder # 0 => call[t].folder \in Own(t))
  BY DEF Own

\* What a POST has stored so far outlasts the steps of the others.
LEMMA PostStaysGood ==
    ASSUME TypesInv, SavedInv, SavedGoesOn, NEW u \in Threads,
           pc'[u] = pc[u], file'[u] = file[u], call'[u] = call[u]
    PROVE  PostIsGood(u)'
<1>1. CASE pc[u] \in Posting
    <2>1. PostIsGood(u) /\ OwnersApart
        BY DEF SavedInv, Busy
    <2>2. file[u] \in 1..made /\ file[u] # 0
        BY <1>1 DEF TypesInv, CallTyped
    <2>3. PICK id, folder, name : id = file[u] /\ folder = call[u].folder /\ name = call[u].name
        OBVIOUS
    <2>4. id \in Own(u) /\ (folder # 0 => folder \in Own(u))
        BY <1>1, <2>2, <2>3, OwnWhileSaving
    <2>5. pc[u] \in Saving => ~Undone(id) /\ (folder # 0 => ~Undone(folder))
        BY <2>1, <2>4, SavingIsNotUndone
    <2>6. pc[u] \in {"enter", "save"} => Here(id)'
        BY <2>1, <2>3, <2>5, HereStays DEF PostIsGood, Saving
    <2>7. pc[u] \in Saving => folder = 0 \/ Here(folder)'
        BY <2>1, <2>3, <2>5, HereStays DEF PostIsGood
    <2>8. pc[u] \in {"enter", "save"} =>
            (id \in DOMAIN docs' => (docs'[id].dir <=> name \in Folders))
        <3>1. SUFFICES ASSUME pc[u] \in {"enter", "save"}, id \in DOMAIN docs'
                       PROVE  docs'[id].dir <=> name \in Folders
            OBVIOUS
        <3>2. ~Pending(id)
            <4>1. ASSUME NEW v \in Threads, pc[v] = "insert", file[v] = id
                  PROVE  FALSE
                <5>1. file[v] \in 1..made /\ file[v] # 0 /\ pc[v] \in Posting
                    BY <4>1 DEF TypesInv, CallTyped, Posting
                <5>2. id \in Own(v) /\ v # u
                    BY <3>1, <4>1, <5>1, OwnWhileSaving
                <5>3. QED
                    BY <2>1, <2>4, <5>2 DEF OwnersApart
            <4>2. QED
                BY <4>1 DEF Pending
        <3>3. id \in DOMAIN docs /\ docs'[id].dir = docs[id].dir
            BY <3>1, <3>2 DEF SavedGoesOn
        <3>4. QED
            BY <2>1, <2>3, <3>1, <3>3 DEF PostIsGood
    <2>9. pc[u] = "insert" => name \in Folders \/ id \in blocks' \/ Settled(id)'
        <3>1. SUFFICES ASSUME pc[u] = "insert", name \notin Folders, ~Settled(id)'
                       PROVE  id \in blocks'
            OBVIOUS
        <3>2. id \in blocks /\ Pending(id)
            BY <2>1, <2>3, <3>1, SettledStays DEF PostIsGood, Pending
        <3>3. ~Undone(id) /\ ~Known(id)
            BY <2>5, <3>1, <3>2 DEF Known, Saving
        <3>4. QED
            BY <3>1, <3>2, <3>3 DEF SavedGoesOn
    <2>10. QED
        BY <2>1, <2>3, <2>6, <2>7, <2>8, <2>9 DEF PostIsGood, Here, Settled
<1>2. CASE pc[u] \notin Posting
    BY <1>2 DEF PostIsGood, Posting, Saving
<1>3. QED
    BY <1>1, <1>2

\* So does what a request knows of the files it writes.
LEMMA BodiesStayFaithful ==
    ASSUME made \in Nat, SavedGoesOn, NEW u, BodiesAreFaithful(u),
           pc'[u] = pc[u], call'[u] = call[u]
    PROVE  BodiesAreFaithful(u)'
<1>1. ASSUME pc[u] = "replace", NEW id \in DOMAIN call[u].body
      PROVE  Faithful(id, call[u].body[id].dir)'
    <2>1. PICK dir : dir = call[u].body[id].dir
        OBVIOUS
    <2>2. Faithful(id, dir)'
        BY <1>1, <2>1, FaithfulStays DEF BodiesAreFaithful
    <2>3. call'[u].body[id].dir = dir
        BY <2>1
    <2>4. QED
        BY <2>2, <2>3 DEF Faithful
<1>2. ASSUME pc[u] \in {"put", "rename", "update"}, NEW body \in {call[u].body} \cup call[u].items
      PROVE  Faithful(body.id, body.dir)'
    BY <1>2, FaithfulStays DEF BodiesAreFaithful
<1>3. QED
    BY <1>1, <1>2 DEF BodiesAreFaithful

\* Under a folder before, under it afterwards, or moved.
LEMMA UnderStays ==
    ASSUME SavedGoesOn, NEW u \in Threads, Removing(u),
           NEW id \in DOMAIN docs \cap DOMAIN docs', id \in Doomed(u)
    PROVE  /\ \A old : Under(old, docs[id].name) => Under(old, docs'[id].name) \/ id \in moved'
           /\ \A f \in DOMAIN docs \cap DOMAIN docs' :
                pc[u] = "find" /\ file[u] = f /\ Under(docs[f].name, docs[id].name) =>
                    Under(docs'[f].name, docs'[id].name) \/ id \in moved'
  BY DEF SavedGoesOn, Noted

\* So does what a removal knows of the children it will empty.
LEMMA KidsStayGone ==
    ASSUME TypesInv, SavedInv, SavedGoesOn, SameFiles, NEW u \in Threads,
           pc'[u] = pc[u], file'[u] = file[u], call'[u] = call[u]
    PROVE  KidsGo(u)'
<1>1. CASE pc[u] \in RemovingAt
    <2>1. KidsGo(u) /\ Removing(u) /\ made \in Nat
        BY <1>1 DEF SavedInv, Busy, Removing, RemovingAt, Found, TypesInv
    <2>2. call[u].kids \subseteq DOMAIN objs /\ call[u].undo \in BOOLEAN
        BY <1>1 DEF RemovingAt, TypesInv, CallTyped
    <2>3. PICK g : g = file[u]
        OBVIOUS
    <2>4. IF call[u].undo THEN call[u].kids = {} ELSE g \in asked' /\ Known(g)'
        BY <1>1, <2>1, <2>3, KnownRemains DEF KidsGo, SavedGoesOn
    <2>5. ASSUME NEW k \in call[u].kids
          PROVE  \/ Settled(objs[k].id)' \/ objs'[k].id \notin DOMAIN docs'
                 \/ /\ pc[u] = "find"
                    /\ g \in DOMAIN docs' =>
                         docs'[g].dir /\ Under(docs'[g].name, docs'[objs'[k].id].name)
                 \/ pc[u] \in {"children", "sweep"}
                    /\ Under(call[u].old, docs'[objs'[k].id].name)
        <3>1. PICK id : id = objs[k].id
            OBVIOUS
        <3>2. objs'[k].id = id /\ Known(id) /\ ~call[u].undo
            BY <2>1, <2>2, <3>1, <1>1 DEF SameFiles, SavedInv, Faithful, KidsGo
        <3>3. CASE Settled(id)
            <4>1. Settled(id)'
                BY <3>3, SettledStays
            <4>2. QED
                BY <3>1, <3>2, <4>1 DEF Settled
        <3>4. CASE id \notin DOMAIN docs'
            BY <3>2, <3>4
        <3>5. CASE ~Settled(id) /\ id \in DOMAIN docs'
            <4>1. id \in DOMAIN docs
                BY <3>2, <3>5 DEF SavedGoesOn, Known
            <4>2. Settled(id)' <=> Settled(objs[k].id)'
                BY <3>1, <3>2 DEF Settled
            <4>3. id \in moved' => Settled(id)'
                BY DEF Settled
            <4>8. id \in Doomed(u)
                BY <3>1 DEF Doomed
            <4>4. CASE pc[u] = "find"
                <5>1. Known(g) /\ (g \in DOMAIN docs' => g \in DOMAIN docs)
                    BY <1>1, <2>1, <2>3, <3>2 DEF KidsGo, SavedGoesOn, Known
                <5>2. g \in DOMAIN docs => docs[g].dir /\ Under(docs[g].name, docs[id].name)
                    BY <1>1, <2>1, <2>3, <3>1, <3>5, <4>1, <4>4 DEF KidsGo
                <5>3. g \in DOMAIN docs' =>
                        docs'[g].dir /\ (Under(docs'[g].name, docs'[id].name) \/ id \in moved')
                    BY <2>1, <2>3, <3>5, <4>1, <4>4, <4>8, <5>1, <5>2, UnderStays DEF SavedGoesOn
                <5>4. QED
                    BY <3>2, <4>2, <4>3, <4>4, <5>3
            <4>5. CASE pc[u] \in {"children", "sweep"}
                <5>1. Under(call[u].old, docs[id].name)
                    BY <1>1, <2>1, <3>1, <3>5, <4>1, <4>5 DEF KidsGo
                <5>2. Under(call[u].old, docs'[id].name) \/ id \in moved'
                    BY <2>1, <3>5, <4>1, <4>8, <5>1, UnderStays
                <5>3. QED
                    BY <3>2, <4>2, <4>3, <4>5, <5>2
            <4>6. CASE pc[u] \notin {"find", "children", "sweep"}
                BY <1>1, <2>1, <3>1, <3>5, <4>1, <4>6 DEF KidsGo
            <4>7. QED
                BY <4>4, <4>5, <4>6
        <3>6. QED
            BY <3>3, <3>4, <3>5
    <2>6. QED
        BY <2>3, <2>4, <2>5 DEF KidsGo, Settled, Known
<1>2. CASE pc[u] \notin RemovingAt
    BY <1>2 DEF KidsGo
<1>3. QED
    BY <1>1, <1>2

\* A request that waits keeps its part of the invariant.
LEMMA BusyStays ==
    ASSUME TypesInv, SavedInv, SavedGoesOn, SameFiles, NEW u \in Threads,
           pc'[u] = pc[u], file'[u] = file[u], call'[u] = call[u]
    PROVE  Busy(u)' /\ Own(u)' = Own(u)
<1>1. BodiesAreFaithful(u) /\ made \in Nat
    BY DEF SavedInv, Busy, TypesInv
<1>2. Own(u)' = Own(u)
    BY DEF Own
<1>3. QED
    BY <1>1, <1>2, PostStaysGood, BodiesStayFaithful, KidsStayGone DEF Busy

\* A step of one request: what it makes is new, what it tells of was its own.
LEMMA SavedStep ==
    ASSUME TypesInv, SavedInv, SavedGoesOn, SameFiles, NEW t \in Threads, OthersWait(t),
           Busy(t)',
           \A id \in Own(t)' : id \in 1..made' /\ (id \in Own(t) \/ id \notin 1..made),
           acked \subseteq acked',
           \A id \in acked' \ acked : id \in Own(t) /\ id \notin Own(t)' /\ Here(id)',
           \A o \in DOMAIN objs' \ DOMAIN objs : Faithful(objs[o].id, objs[o].dir)'
    PROVE  SavedInv'
<1>. OwnersApart /\ made \in Nat
    BY DEF SavedInv, TypesInv
<1>1. \A u \in Threads \ {t} : Busy(u)' /\ Own(u)' = Own(u)
    BY BusyStays DEF OthersWait
<1>2. 1..made \subseteq 1..made'
    BY DEF SavedGoesOn
<1>3. acked' \subseteq 1..made'
    BY <1>2 DEF OwnersApart
<1>4. ASSUME NEW u \in Threads
      PROVE  Own(u)' \subseteq 1..made' /\ Own(u)' \cap acked' = {}
    <2>1. CASE u = t
        BY <2>1, <1>2 DEF OwnersApart
    <2>2. CASE u # t
        BY <2>2, <1>1, <1>2 DEF OwnersApart
    <2>3. QED
        BY <2>1, <2>2
<1>5. ASSUME NEW u \in Threads \ {t}
      PROVE  Own(t)' \cap Own(u)' = {}
    BY <1>1 DEF OwnersApart
<1>6. ASSUME NEW u \in Threads, NEW v \in Threads, u # v
      PROVE  Own(u)' \cap Own(v)' = {}
    <2>1. CASE u # t /\ v # t
        BY <1>1, <1>6, <2>1 DEF OwnersApart
    <2>2. CASE u = t
        BY <1>5, <1>6, <2>2
    <2>3. CASE v = t
        BY <1>5, <1>6, <2>3
    <2>4. QED
        BY <2>1, <2>2, <2>3
<1>7. OwnersApart'
    BY <1>3, <1>4, <1>6 DEF OwnersApart
<1>8. ASSUME NEW id \in acked'
      PROVE  Here(id)'
    <2>1. CASE id \in acked
        <3>1. Here(id) /\ ~Undone(id)
            BY <2>1, AckedIsNotUndone DEF SavedInv
        <3>2. QED
            BY <3>1, HereStays
    <2>2. QED
        BY <2>1
<1>9. ASSUME NEW o \in DOMAIN objs'
      PROVE  Faithful(objs[o].id, objs[o].dir)'
    <2>1. CASE o \in DOMAIN objs
        <3>1. PICK id, dir : id = objs[o].id /\ dir = objs[o].dir
            OBVIOUS
        <3>2. Faithful(id, dir)'
            BY <2>1, <3>1, FaithfulStays DEF SavedInv
        <3>3. objs'[o].id = id /\ objs'[o].dir = dir
            BY <2>1, <3>1 DEF SameFiles
        <3>4. QED
            BY <3>2, <3>3 DEF Faithful, Known
    <2>2. QED
        BY <2>1
<1>10. \A u \in Threads : Busy(u)'
    BY <1>1
<1>11. QED
    BY <1>7, <1>8, <1>9, <1>10 DEF SavedInv

\* A place where nothing is held of a file that matters here.
LEMMA FreePlace ==
    ASSUME NEW t, pc'[t] \in {"idle", "list", "read", "send"} \cup Sharing \cup {"note"}
    PROVE  Busy(t)' /\ Own(t)' = {}
  BY DEF Busy, PostIsGood, BodiesAreFaithful, KidsGo, Own, Posting, Saving, RemovingAt,
         Found,
         Sharing

-----------------------------------------------------------------------------
\* A step that a request takes.
Moves(t) ==
    \/ StartCreate(t) \/ StartUploadDir(t) \/ StartRemove(t) \/ StartPull(t)
    \/ StartRename(t) \/ StartShare(t) \/ StartUnshare(t)
    \/ Serve(t)

\* The other requests wait; an ID about to be inserted is new.
LEMMA RequestMoves ==
    ASSUME Shapes, NEW t \in Threads, Moves(t)
    PROVE  OthersWait(t) /\ (pc'[t] = "insert" => file'[t] = made + 1)
<1>1. CASE StartCreate(t) \/ StartUploadDir(t)
    <2>1. \E state : Begin(t, "insert", made + 1, state)
        BY <1>1 DEF StartCreate, StartUploadDir
    <2>2. QED
        BY <2>1, Going
<1>2. CASE \E where, id, state : Begin(t, where, id, state) /\ where # "insert"
    BY <1>2, Going
<1>3. CASE \E where : Goto(t, where) /\ where # "insert"
    BY <1>3, Going
<1>4. CASE \E where, state : GotoWith(t, where, state) /\ where # "insert"
    BY <1>4, Going
<1>5. CASE Finish(t)
    BY <1>5, Going
<1>6. CASE StartRemove(t) \/ StartPull(t) \/ StartRename(t) \/ StartShare(t) \/ StartUnshare(t)
    <2>1. CASE StartRemove(t) \/ StartPull(t)
        <3>1. \E where \in {"find", "list"} : \E id, state : Begin(t, where, id, state)
            BY <2>1 DEF StartRemove, StartPull
        <3>2. QED
            BY <1>2, <3>1
    <2>2. CASE StartRename(t)
        <3>1. \E id, state : Begin(t, "send", id, state)
            BY <2>2 DEF StartRename
        <3>2. QED
            BY <1>2, <3>1
    <2>3. CASE StartShare(t) \/ StartUnshare(t)
        <3>1. \E where \in {"permit", "forbid"} : \E id, state : Begin(t, where, id, state)
            BY <2>3 DEF StartShare, StartUnshare
        <3>2. QED
            BY <1>2, <3>1
    <2>4. QED
        BY <1>6, <2>1, <2>2, <2>3
<1>7. CASE InsertFile(t) \/ AddToDirectory(t) \/ RemoveChildren(t) \/ DeleteFile(t)
           \/ RemoveFromDirectory(t)
    BY <1>3, <1>5, <1>7 DEF InsertFile, AddToDirectory, RemoveChildren, DeleteFile,
                            RemoveFromDirectory, AfterInsert, AfterEntering
<1>8. CASE SaveFile(t) \/ UndoPost(t)
    BY <1>5, <1>8 DEF SaveFile, UndoPost, OthersWait, Shapes
<1>9. CASE FindFile(t) \/ FindChildren(t) \/ RemoveContents(t)
    BY <1>4, <1>5, <1>9 DEF FindFile, FindChildren, RemoveContents, OthersWait, Shapes
<1>10. CASE ReadDirectory(t) \/ ReadFiles(t) \/ ReplaceFiles(t) \/ SendFile(t)
            \/ PutFile(t) \/ FindRenamed(t)
    <2>1. \/ \E where \in {"read", "replace", "put", "rename", "update"} :
                \E state : GotoWith(t, where, state)
          \/ Finish(t)
        <3>1. CASE ReadDirectory(t) \/ ReadFiles(t) \/ ReplaceFiles(t)
            BY <3>1 DEF ReadDirectory, ReadFiles, ReplaceFiles
        <3>2. CASE SendFile(t) \/ PutFile(t) \/ FindRenamed(t)
            BY <3>2 DEF SendFile, PutFile, FindRenamed
        <3>3. QED
            BY <1>10, <3>1, <3>2
    <2>2. QED
        BY <1>4, <1>5, <2>1
<1>11. CASE RenameChild(t) \/ UpdateFile(t)
    <2>1. \/ \E where \in {"update", "send"} : \E state : GotoWith(t, where, state)
          \/ Finish(t)
        <3>1. CASE RenameChild(t)
            BY <3>1 DEF RenameChild
        <3>2. CASE UpdateFile(t)
            BY <3>2 DEF UpdateFile
        <3>3. QED
            BY <1>11, <3>1, <3>2
    <2>2. QED
        BY <1>4, <1>5, <2>1
<1>12. CASE AddPermission(t) \/ AddToSharedDirectory(t) \/ NoteShare(t)
            \/ RemovePermission(t) \/ RemoveFromSharedDirectory(t)
    BY <1>3, <1>5, <1>12 DEF AddPermission, AddToSharedDirectory, NoteShare,
                             RemovePermission,
                             RemoveFromSharedDirectory
<1>13. QED
    BY <1>1, <1>6, <1>7, <1>8, <1>9, <1>10, <1>11, <1>12 DEF Moves, Serve

\* Only those kinds of histories matter here, and they grow.
LEMMA HistoryGrows ==
    ASSUME [Next]_vars
    PROVE  asked \subseteq asked' /\ moved \subseteq moved'
    /\ misnamed \subseteq misnamed' /\ swept \subseteq swept'
<1>1. ASSUME NEW t \in Threads,
             \/ StartCreate(t) \/ StartUploadDir(t) \/ StartRemove(t) \/ StartPull(t)
             \/ StartRename(t) \/ StartShare(t) \/ StartUnshare(t)
             \/ InsertFile(t) \/ AddToDirectory(t) \/ SaveFile(t) \/ UndoPost(t)
             \/ FindFile(t) \/ FindChildren(t) \/ RemoveChildren(t) \/ DeleteFile(t)
      PROVE  asked \subseteq asked' /\ moved \subseteq moved'
    /\ misnamed \subseteq misnamed' /\ swept \subseteq swept'
    BY <1>1 DEF StartCreate, StartUploadDir, StartRemove, StartPull, StartRename, StartShare,
                StartUnshare, InsertFile, AddToDirectory, SaveFile, UndoPost, FindFile,
                FindChildren, RemoveChildren, DeleteFile, history
<1>2. ASSUME NEW t \in Threads,
             \/ RemoveFromDirectory(t) \/ RemoveContents(t)
             \/ ReadDirectory(t) \/ ReadFiles(t) \/ ReplaceFiles(t) \/ SendFile(t)
             \/ PutFile(t) \/ FindRenamed(t)
             \/ RenameChild(t) \/ UpdateFile(t) \/ AddPermission(t) \/ AddToSharedDirectory(t)
             \/ NoteShare(t) \/ RemovePermission(t) \/ RemoveFromSharedDirectory(t)
      PROVE  asked \subseteq asked' /\ moved \subseteq moved'
    /\ misnamed \subseteq misnamed' /\ swept \subseteq swept'
    BY <1>2 DEF RemoveFromDirectory, RemoveContents, ReadDirectory, ReadFiles, ReplaceFiles,
                SendFile, PutFile, FindRenamed, RenameChild, UpdateFile, AddPermission,
                AddToSharedDirectory, NoteShare, RemovePermission,
                RemoveFromSharedDirectory, history
<1>3. ASSUME \/ \E u \in Sharees : RemoveSharedFile(u)
             \/ \E u \in Users : ReadUser(u)
             \/ \E w \in writer : WriteUser(w)
             \/ UNCHANGED vars
      PROVE  asked \subseteq asked' /\ moved \subseteq moved'
    /\ misnamed \subseteq misnamed' /\ swept \subseteq swept'
    BY <1>3 DEF RemoveSharedFile, ReadUser, WriteUser, vars, history
<1>4. QED
    BY <1>1, <1>2, <1>3 DEF Next, Serve

\* A step is a request's, or leaves all requests alone.
LEMMA WhoMoves ==
    ASSUME [Next]_vars
    PROVE  \/ \E t \in Threads : Moves(t)
           \/ UNCHANGED request /\ UNCHANGED <<docs, blocks, objs, made, acked>>
<1>1. ASSUME \/ \E u \in Sharees : RemoveSharedFile(u)
             \/ \E u \in Users : ReadUser(u)
             \/ \E w \in writer : WriteUser(w)
             \/ UNCHANGED vars
      PROVE  UNCHANGED request /\ UNCHANGED <<docs, blocks, objs, made, acked>>
    BY <1>1 DEF RemoveSharedFile, ReadUser, WriteUser, vars, history, server, renter
<1>2. QED
    BY <1>1 DEF Next, Moves

\* An ID that comes to be pending has just been made.
LEMMA NewIsNew ==
    ASSUME Shapes, [Next]_vars, NEW id, Pending(id)'
    PROVE  Pending(id) \/ id \notin 1..made
<1>1. CASE UNCHANGED request
    BY <1>1 DEF request, Pending
<1>2. CASE \E t \in Threads : Moves(t)
    <2>1. PICK t \in Threads : Moves(t)
        BY <1>2
    <2>2. OthersWait(t) /\ (pc'[t] = "insert" => file'[t] = made + 1) /\ made \in Nat
        BY <2>1, RequestMoves DEF Shapes
    <2>3. PICK u \in Threads : pc'[u] = "insert" /\ file'[u] = id
        BY DEF Pending
    <2>4. CASE u = t
        BY <2>2, <2>3, <2>4
    <2>5. CASE u # t
        BY <2>2, <2>3, <2>5 DEF OthersWait, Pending
    <2>6. QED
        BY <2>4, <2>5
<1>3. QED
    BY <1>1, <1>2, WhoMoves

\* What a request replaces a document with.
LEMMA BodiesOf ==
    ASSUME SavedInv, NEW t \in Threads, RenameChild(t) \/ UpdateFile(t)
    PROVE  \/ UNCHANGED <<docs, moved>>
           \/ \E body : /\ Replaceable(body) /\ Replace(body) /\ Faithful(body.id, body.dir)
                        /\ moved' = moved \cup Overlapping(body)
<1>1. \A body \in {call[t].body} \cup call[t].items : Faithful(body.id, body.dir)
    BY DEF SavedInv, Busy, BodiesAreFaithful, RenameChild, UpdateFile
<1>2. CASE RenameChild(t)
    BY <1>1, <1>2 DEF RenameChild
<1>3. CASE UpdateFile(t)
    BY <1>1, <1>3 DEF UpdateFile
<1>4. QED
    BY <1>2, <1>3

\* A document is replaced by one of its kind; a change of name is recorded.
LEMMA ReplacingKeeps ==
    ASSUME NEW body, Replaceable(body), Replace(body), Faithful(body.id, body.dir),
           moved' = moved \cup Overlapping(body)
    PROVE  /\ DOMAIN docs' = DOMAIN docs
           /\ \A id \in DOMAIN docs : docs'[id].dir = docs[id].dir
           /\ \A f \in DOMAIN docs : docs'[f].name = docs[f].name \/ Noted(f)
<1>1. /\ body.id \in DOMAIN docs /\ DOMAIN docs' = DOMAIN docs
      /\ \A id \in DOMAIN docs \ {body.id} : docs'[id] = docs[id]
      /\ docs'[body.id] = [name |-> body.name, dir |-> body.dir, acl |-> body.acl]
    BY DEF Replaceable, Replace
<1>2. docs'[body.id].dir = docs[body.id].dir /\ docs[body.id].dir = body.dir
      /\ docs'[body.id].name = body.name
    BY <1>1 DEF Faithful
<1>3. ASSUME body.name # docs[body.id].name
      PROVE  Noted(body.id)
    <2>1. ASSUME NEW u \in Threads, Removing(u), NEW id \in Doomed(u) \cap DOMAIN docs,
                 \/ id = body.id
                 \/ /\ pc[u] = "find" /\ file[u] = body.id
                    /\ Under(docs[body.id].name, docs[id].name)
          PROVE  id \in moved'
        BY <1>3, <2>1 DEF Overlapping
    <2>2. QED
        BY <1>1, <2>1 DEF Noted
<1>4. QED
    BY <1>1, <1>2, <1>3

\* What an insertion, a removal and a change of permissions do to documents.
LEMMA OthersKeep ==
    ASSUME SavedInv, DirectoryInv, NEW t \in Threads,
           \/ InsertFile(t) \/ RemoveChildren(t) \/ DeleteFile(t)
           \/ AddPermission(t) \/ RemovePermission(t)
    PROVE  /\ \A id \in DOMAIN docs' : id \in DOMAIN docs \/ Pending(id)
           /\ \A id \in DOMAIN docs \cap DOMAIN docs' :
                docs'[id].dir = docs[id].dir /\ docs'[id].name = docs[id].name
           /\ \A id \in DOMAIN docs \ DOMAIN docs' : Settled(id)' \/ Undone(id)
<1>1. CASE InsertFile(t)
    <2>1. pc[t] = "insert" /\ file[t] \notin DOMAIN docs /\ Pending(file[t])
        BY <1>1 DEF InsertFile, DirectoryInv, Fresh, Pending
    <2>2. \/ docs' = docs
          \/ docs' = [id \in DOMAIN docs \cup {file[t]} |->
                         IF id = file[t] THEN NewDocument(t) ELSE docs[id]]
        BY <1>1 DEF InsertFile
    <2>3. QED
        BY <2>1, <2>2
<1>2. CASE RemoveChildren(t)
    <2>1. docs' = [id \in DOMAIN docs \ Children(call[t].old) |-> docs[id]]
        BY <1>2 DEF RemoveChildren
    <2>2. Children(call[t].old) \subseteq asked' \cup swept'
        BY <1>2 DEF RemoveChildren
    <2>3. QED
        BY <2>1, <2>2 DEF Settled
<1>3. CASE DeleteFile(t)
    <2>1. \/ docs' = docs
          \/ docs' = [id \in DOMAIN docs \ {file[t]} |-> docs[id]]
        BY <1>3 DEF DeleteFile
    <2>2. pc[t] = "delete" /\ pc[t] \in RemovingAt /\ pc[t] \notin Saving \cup Posting
        BY <1>3 DEF DeleteFile, RemovingAt, Found, Saving, Posting
    <2>3. KidsGo(t) /\ asked' = asked
        BY <1>3 DEF DeleteFile, history, SavedInv, Busy
    <2>4. CASE call[t].undo
        BY <2>1, <2>2, <2>4 DEF Undone, Own
    <2>5. CASE ~call[t].undo
        BY <2>1, <2>2, <2>3, <2>5 DEF KidsGo, Settled
    <2>6. QED
        BY <2>4, <2>5
<1>4. ASSUME NEW id \in DOMAIN docs, NEW acl, SetPermissions(id, acl)
      PROVE  /\ DOMAIN docs' = DOMAIN docs
             /\ \A i \in DOMAIN docs : docs'[i].dir = docs[i].dir /\ docs'[i].name = docs[i].name
    <2>1. /\ DOMAIN docs' = DOMAIN docs
          /\ \A i \in DOMAIN docs \ {id} : docs'[i] = docs[i]
          /\ docs'[id] = [name |-> docs[id].name, dir |-> docs[id].dir, acl |-> acl]
        BY <1>4 DEF SetPermissions
    <2>2. QED
        BY <2>1
<1>5. CASE AddPermission(t)
    <2>1. \/ docs' = docs
          \/ file[t] \in DOMAIN docs /\ SetPermissions(file[t], docs[file[t]].acl \cup {call[t].with})
        BY <1>5 DEF AddPermission
    <2>2. QED
        BY <1>4, <2>1
<1>6. CASE RemovePermission(t)
    <2>1. \/ docs' = docs
          \/ file[t] \in DOMAIN docs /\ SetPermissions(file[t], docs[file[t]].acl \ {call[t].with})
        BY <1>6 DEF RemovePermission
    <2>2. QED
        BY <1>4, <2>1
<1>7. QED
    BY <1>1, <1>2, <1>3, <1>5, <1>6

\* Blocks go with a file removed, undone, or gone already.
LEMMA BlocksStay ==
    ASSUME SavedInv, TypesInv, [Next]_vars, NEW id \in blocks \ blocks'
    PROVE  Settled(id)' \/ Undone(id) \/ (id \notin DOMAIN docs /\ Known(id))
<1>1. \E t \in Threads : UndoPost(t) \/ RemoveContents(t)
    BY WhoChangesRenter DEF StartCreate, SaveFile, ReplaceFiles, StartRename, SendFile,
                            NoteShare
<1>2. PICK t \in Threads : UndoPost(t) \/ RemoveContents(t)
    BY <1>1
<1>3. asked \subseteq asked' /\ moved \subseteq moved'
    /\ misnamed \subseteq misnamed' /\ swept \subseteq swept'
    BY HistoryGrows
<1>4. CASE UndoPost(t)
    <2>1. pc[t] = "undo" /\ id = file[t] /\ file[t] \in 1..made
        BY <1>4 DEF UndoPost, TypesInv, CallTyped, Posting
    <2>2. file[t] # 0 /\ pc[t] \in Posting /\ pc[t] \notin Saving
        BY <2>1 DEF Posting, Saving
    <2>3. QED
        BY <2>1, <2>2, OwnWhileSaving DEF Undone
<1>5. CASE RemoveContents(t)
    <2>1. /\ pc[t] = "contents" /\ id \in Emptied(t)
          /\ pc[t] \in RemovingAt /\ pc[t] \notin Saving \cup Posting
        BY <1>5 DEF RemoveContents, RemovingAt, Found, Saving, Posting
    <2>2. KidsGo(t) /\ call[t].kids \subseteq DOMAIN objs
        BY <2>1 DEF SavedInv, Busy, TypesInv, CallTyped, Found
    <2>3. CASE id = file[t] /\ call[t].undo
        BY <2>1, <2>3 DEF Undone, Own
    <2>4. CASE id = file[t] /\ ~call[t].undo
        BY <1>3, <2>1, <2>2, <2>4 DEF KidsGo, Settled
    <2>5. CASE id # file[t]
        <3>1. PICK k \in call[t].kids : id = objs[k].id
            BY <2>1, <2>5 DEF Emptied
        <3>2. Settled(id) \/ id \notin DOMAIN docs
            BY <2>1, <2>2, <3>1 DEF KidsGo
        <3>3. Known(id)
            BY <2>2, <3>1 DEF SavedInv, Faithful
        <3>4. QED
            BY <1>3, <3>2, <3>3 DEF Settled
    <2>6. QED
        BY <2>3, <2>4, <2>5
<1>6. QED
    BY <1>2, <1>4, <1>5

\* Every step is of the kind that SavedStep asks for.
LEMMA SavedContinues ==
    ASSUME SavedInv, TypesInv, DirectoryInv, [Next]_vars
    PROVE  SavedGoesOn
<1>1. /\ made' \in Nat /\ made <= made'
      /\ asked \subseteq asked' /\ moved \subseteq moved'
    /\ misnamed \subseteq misnamed' /\ swept \subseteq swept'
    BY MadeGrows, HistoryGrows DEF TypesInv
<1>2. \A id : Pending(id)' => Pending(id) \/ id \notin 1..made
    BY NewIsNew DEF DirectoryInv
<1>3. \A id \in blocks \ blocks' :
         Settled(id)' \/ Undone(id) \/ (id \notin DOMAIN docs /\ Known(id))
    BY BlocksStay
<1>4. CASE UNCHANGED docs
    BY <1>1, <1>2, <1>3, <1>4 DEF SavedGoesOn
<1>5. ASSUME NEW t \in Threads, RenameChild(t) \/ UpdateFile(t)
      PROVE  SavedGoesOn
    <2>1. CASE UNCHANGED docs
        BY <1>4, <2>1
    <2>2. CASE \E body : /\ Replaceable(body) /\ Replace(body) /\ Faithful(body.id, body.dir)
                         /\ moved' = moved \cup Overlapping(body)
        <3>1. /\ DOMAIN docs' = DOMAIN docs
              /\ \A id \in DOMAIN docs : docs'[id].dir = docs[id].dir
              /\ \A f \in DOMAIN docs : docs'[f].name = docs[f].name \/ Noted(f)
            BY <2>2, ReplacingKeeps
        <3>2. QED
            BY <1>1, <1>2, <1>3, <3>1 DEF SavedGoesOn
    <2>3. QED
        BY <1>5, <2>1, <2>2, BodiesOf
<1>6. ASSUME NEW t \in Threads,
             \/ InsertFile(t) \/ RemoveChildren(t) \/ DeleteFile(t)
             \/ AddPermission(t) \/ RemovePermission(t)
      PROVE  SavedGoesOn
    <2>1. /\ \A id \in DOMAIN docs' : id \in DOMAIN docs \/ Pending(id)
          /\ \A id \in DOMAIN docs \cap DOMAIN docs' :
                docs'[id].dir = docs[id].dir /\ docs'[id].name = docs[id].name
          /\ \A id \in DOMAIN docs \ DOMAIN docs' : Settled(id)' \/ Undone(id)
        BY <1>6, OthersKeep
    <2>2. QED
        BY <1>1, <1>2, <1>3, <2>1 DEF SavedGoesOn
<1>7. QED
    BY <1>4, <1>5, <1>6, WhoChangesDocs

-----------------------------------------------------------------------------
\* What SavedStep asks of the request that moves.
Responsible(t) ==
    /\ Busy(t)'
    /\ \A id \in Own(t)' : id \in 1..made' /\ (id \in Own(t) \/ id \notin 1..made)
    /\ acked \subseteq acked'
    /\ \A id \in acked' \ acked : id \in Own(t) /\ id \notin Own(t)' /\ Here(id)'
    /\ \A o \in DOMAIN objs' \ DOMAIN objs : Faithful(objs[o].id, objs[o].dir)'

\* Only a file saved is new to the renter, and the files it reads.
LEMMA NothingNew ==
    ASSUME TypesInv, SharesInv, [Next]_vars, NEW t \in Threads, Moves(t),
           ~SaveFile(t), ~ReplaceFiles(t)
    PROVE  acked' = acked /\ DOMAIN objs' = DOMAIN objs
<1>0. made \in Nat /\ made' \in Nat /\ made <= made'
    BY MadeGrows DEF TypesInv
<1>1. CASE StartRename(t) \/ SendFile(t) \/ NoteShare(t)
    <2>1. DOMAIN objs' = DOMAIN objs
        BY <1>0, <1>1, ObjectsOfRename
    <2>2. acked' = acked
        BY <1>1 DEF StartRename, SendFile, NoteShare, history
    <2>3. QED
        BY <2>1, <2>2
<1>2. CASE \/ StartCreate(t) \/ StartUploadDir(t) \/ StartRemove(t) \/ StartPull(t)
           \/ StartShare(t) \/ StartUnshare(t)
           \/ InsertFile(t) \/ AddToDirectory(t) \/ UndoPost(t)
           \/ FindFile(t) \/ FindChildren(t) \/ RemoveChildren(t) \/ DeleteFile(t)
    BY <1>2 DEF StartCreate, StartUploadDir, StartRemove, StartPull, StartShare,
                StartUnshare,
                InsertFile, AddToDirectory, UndoPost, FindFile, FindChildren, RemoveChildren,
                DeleteFile, history, renter
<1>3. CASE \/ RemoveFromDirectory(t) \/ RemoveContents(t) \/ ReadDirectory(t) \/ ReadFiles(t)

           \/ PutFile(t) \/ FindRenamed(t) \/ RenameChild(t) \/ UpdateFile(t) \/ AddPermission(t)
           \/ AddToSharedDirectory(t) \/ RemovePermission(t) \/ RemoveFromSharedDirectory(t)
    BY <1>3 DEF RemoveFromDirectory, RemoveContents, ReadDirectory, ReadFiles, PutFile,
                FindRenamed,
                RenameChild, UpdateFile, AddPermission, AddToSharedDirectory,
                RemovePermission, RemoveFromSharedDirectory, history, renter
<1>4. QED
    BY <1>1, <1>2, <1>3 DEF Moves, Serve

\* A request that goes where nothing is held.
LEMMA FreeMove ==
    ASSUME TypesInv, SharesInv, [Next]_vars, NEW t \in Threads, Moves(t),
           ~SaveFile(t), ~ReplaceFiles(t),
           pc'[t] \in {"idle", "list", "read", "send"} \cup Sharing \cup {"note"}
    PROVE  Responsible(t)
<1>1. acked' = acked /\ DOMAIN objs' = DOMAIN objs
    BY NothingNew
<1>2. Busy(t)' /\ Own(t)' = {}
    BY FreePlace
<1>3. QED
    BY <1>1, <1>2 DEF Responsible

\* A POST up to its answer.
LEMMA PostsAreGood ==
    ASSUME SavedInv, TypesInv, DirectoryInv, SharesInv, SavedGoesOn, [Next]_vars,
           NEW t \in Threads,
           StartCreate(t) \/ StartUploadDir(t) \/ InsertFile(t) \/ AddToDirectory(t)
    PROVE  Responsible(t)
<1>. Moves(t) /\ Shapes /\ made \in Nat
    BY DEF Moves, Serve, DirectoryInv, TypesInv
<1>0. OwnersApart /\ PostIsGood(t)
    BY DEF SavedInv, Busy
<1>1. CASE StartCreate(t) \/ StartUploadDir(t)
    <2>1. PICK name \in Names, more \in BOOLEAN :
            /\ Begin(t, "insert", made + 1, [name |-> name, folder |-> 0, more |-> more])
            /\ made' = made + 1
            /\ name \in Folders \/ made + 1 \in blocks'
        BY <1>1 DEF StartCreate, StartUploadDir, Names
    <2>2. /\ pc'[t] = "insert" /\ file'[t] = made + 1
          /\ call'[t] = [name |-> name, folder |-> 0, more |-> more]
        BY <2>1, Going
    <2>3. ~SaveFile(t) /\ ~ReplaceFiles(t)
        BY <2>1 DEF Begin, SaveFile, ReplaceFiles
    <2>4. acked' = acked /\ DOMAIN objs' = DOMAIN objs
        BY <2>3, NothingNew
    <2>5. PostIsGood(t)'
        BY <2>1, <2>2 DEF PostIsGood, Posting, Saving
    <2>6. BodiesAreFaithful(t)' /\ KidsGo(t)'
        BY <2>2 DEF BodiesAreFaithful, KidsGo, RemovingAt, Found
    <2>7. Own(t)' = {made + 1}
        BY <2>2 DEF Own, Posting
    <2>8. \A id \in Own(t)' : id \in 1..made' /\ id \notin 1..made
        BY <2>1, <2>7
    <2>9. QED
        BY <2>4, <2>5, <2>6, <2>8 DEF Responsible, Busy
<1>2. ASSUME pc[t] \in {"insert", "enter"}, pc'[t] \in {"enter", "save", "undo"},
             file'[t] = file[t], call'[t] = call[t],
             ~SaveFile(t), ~ReplaceFiles(t),
             pc'[t] # "undo" =>
                /\ Here(file[t])'
                /\ file[t] \in DOMAIN docs' => (docs'[file[t]].dir <=> call[t].name \in Folders)
      PROVE  Responsible(t)
    <2>1. acked' = acked /\ DOMAIN objs' = DOMAIN objs
        BY <1>2, NothingNew
    <2>2. pc[t] \in Posting /\ pc'[t] \in Posting /\ pc[t] \in Saving
        BY <1>2 DEF Posting, Saving
    <2>3. file[t] \in 1..made /\ file[t] # 0
        BY <2>2 DEF TypesInv, CallTyped
    <2>4. PICK folder : folder = call[t].folder
        OBVIOUS
    <2>5. folder = 0 \/ Here(folder)'
        <3>1. folder = 0 \/ (folder \in Own(t) /\ Here(folder))
            BY <1>0, <2>2, <2>3, <2>4, OwnWhileSaving DEF PostIsGood
        <3>2. folder = 0 \/ ~Undone(folder)
            BY <1>0, <2>2, <3>1, SavingIsNotUndone
        <3>3. QED
            BY <3>1, <3>2, HereStays
    <2>6. call[t].folder # file[t]
        BY <1>0, <2>2 DEF PostIsGood
    <2>7. PostIsGood(t)'
        BY <1>2, <2>4, <2>5, <2>6 DEF PostIsGood, Here, Settled
    <2>8. BodiesAreFaithful(t)' /\ KidsGo(t)'
        BY <1>2 DEF BodiesAreFaithful, KidsGo, RemovingAt, Found
    <2>9. Own(t)' = Own(t)
        BY <1>2, <2>2 DEF Own
    <2>10. \A id \in Own(t)' : id \in 1..made' /\ id \in Own(t)
        BY <1>0, <2>9 DEF OwnersApart, SavedGoesOn
    <2>11. QED
        BY <2>1, <2>7, <2>8, <2>10 DEF Responsible, Busy
<1>3. CASE InsertFile(t)
    <2>1. /\ pc[t] = "insert" /\ blocks' = blocks
          /\ pc'[t] \in {"enter", "undo"} /\ file'[t] = file[t] /\ call'[t] = call[t]
        BY <1>3, Going DEF InsertFile, AfterInsert, renter
    <2>2. pc'[t] = "enter" => /\ file[t] \in DOMAIN docs'
                              /\ docs'[file[t]] = NewDocument(t)
        BY <1>3, Going DEF InsertFile, AfterInsert
    <2>3. ~SaveFile(t) /\ ~ReplaceFiles(t)
        BY <2>1 DEF SaveFile, ReplaceFiles
    <2>4. NewDocument(t).dir <=> call[t].name \in Folders
        BY DEF NewDocument
    <2>5. PICK id : id = file[t]
        OBVIOUS
    <2>6. call[t].name \in Folders \/ id \in blocks' \/ Settled(id)'
        BY <1>0, <2>1, <2>5, SettledStays DEF PostIsGood
    <2>7. pc'[t] = "enter" => Here(id)'
        BY <2>2, <2>4, <2>5, <2>6 DEF Here
    <2>8. Here(id)' => Here(file[t])'
        BY <2>1, <2>5 DEF Here, Settled
    <2>9. QED
        BY <1>2, <2>1, <2>2, <2>3, <2>4, <2>7, <2>8
<1>4. CASE AddToDirectory(t)
    <2>1. /\ pc[t] = "enter" /\ docs' = docs
          /\ pc'[t] \in {"save", "undo"} /\ file'[t] = file[t] /\ call'[t] = call[t]
        BY <1>4, Going DEF AddToDirectory, AfterEntering
    <2>2. ~SaveFile(t) /\ ~ReplaceFiles(t)
        BY <2>1 DEF SaveFile, ReplaceFiles
    <2>3. PICK id : id = file[t]
        OBVIOUS
    <2>4. pc[t] \in Posting /\ pc[t] \in Saving
        BY <2>1 DEF Posting, Saving
    <2>5. file[t] \in 1..made /\ file[t] # 0
        BY <2>4 DEF TypesInv, CallTyped
    <2>6. Here(id) /\ ~Undone(id)
        BY <1>0, <2>1, <2>3, <2>4, <2>5, OwnWhileSaving, SavingIsNotUndone DEF PostIsGood
    <2>7. Here(id)'
        BY <2>6, HereStays
    <2>8. Here(file[t])'
        BY <2>1, <2>3, <2>7 DEF Here, Settled
    <2>9. QED
        BY <1>0, <1>2, <2>1, <2>2, <2>8 DEF PostIsGood
<1>5. QED
    BY <1>1, <1>3, <1>4

\* The answer of a POST: what it stored is there.
LEMMA SavesAreGood ==
    ASSUME SavedInv, TypesInv, DirectoryInv, SharesInv, SavedGoesOn, [Next]_vars,
           NEW t \in Threads, SaveFile(t)
    PROVE  Responsible(t)
<1>. Moves(t) /\ Shapes /\ made \in Nat
    BY DEF Moves, Serve, DirectoryInv, TypesInv
<1>. OthersWait(t)
    BY RequestMoves
<1>1. OwnersApart /\ PostIsGood(t) /\ pc[t] = "save" /\ pc[t] \in Posting /\ pc[t] \in Saving
    BY DEF SavedInv, Busy, SaveFile, Posting, Saving
<1>2. PICK id, folder : id = file[t] /\ folder = call[t].folder
    OBVIOUS
<1>3. id \in 1..made /\ id # 0 /\ id \in Own(t) /\ (folder # 0 => folder \in Own(t))
    BY <1>1, <1>2, OwnWhileSaving DEF TypesInv, CallTyped
<1>4. ~Undone(id) /\ (folder # 0 => ~Undone(folder))
    BY <1>1, <1>3, SavingIsNotUndone
<1>5. Here(id)' /\ (folder # 0 => Here(folder)')
    BY <1>1, <1>2, <1>4, HereStays DEF PostIsGood
<1>6. pc'[t] = "insert" => file'[t] = made + 1
    BY RequestMoves
<1>7. id \in 1..made' /\ docs' = docs
    BY <1>3 DEF SavedGoesOn, SaveFile, server
<1>8. Known(id)'
    <2>1. ASSUME NEW u \in Threads, pc'[u] = "insert", file'[u] = id
          PROVE  FALSE
        <3>1. u # t
            BY <1>3, <1>6, <2>1
        <3>2. pc[u] = "insert" /\ file[u] = id
            BY <2>1, <3>1 DEF OthersWait
        <3>3. pc[u] \in Posting /\ file[u] # 0
            BY <1>3, <3>2 DEF Posting
        <3>4. id \in Own(u)
            BY <3>2, <3>3, OwnWhileSaving
        <3>5. QED
            BY <1>1, <1>3, <3>1, <3>4 DEF OwnersApart
    <2>2. ~Pending(id)'
        BY <2>1 DEF Pending
    <2>3. QED
        BY <1>7, <2>2 DEF Known
<1>9. ASSUME NEW o \in DOMAIN objs' \ DOMAIN objs
      PROVE  Faithful(objs[o].id, objs[o].dir)'
    <2>1. made' \in Nat /\ made <= made'
        BY DEF SavedGoesOn
    <2>2. objs'[o] = Object(file[t], NewDocument(t))
        BY <2>1, ObjectsOfSave
    <2>3. objs'[o].id = id /\ objs'[o].dir = (call[t].name \in Folders)
        BY <1>2, <2>2 DEF Object, NewDocument
    <2>4. id \in DOMAIN docs' => docs'[id].dir = (call[t].name \in Folders)
        <3>1. id \in DOMAIN docs => docs[id].dir \in BOOLEAN
            BY DocumentIs DEF TypesInv, DocsTyped
        <3>2. id \in DOMAIN docs => (docs[id].dir <=> call[t].name \in Folders)
            BY <1>1, <1>2 DEF PostIsGood
        <3>3. QED
            BY <1>7, <3>1, <3>2
    <2>5. QED
        BY <1>8, <2>3, <2>4 DEF Faithful, Known
<1>10. CASE call[t].more
    <2>1. /\ pc'[t] = "insert" /\ file'[t] = made + 1 /\ acked' = acked
          /\ made' = made + 1 /\ made + 1 \in blocks' /\ call'[t].folder = id
        BY <1>2, <1>10 DEF SaveFile, Shapes
    <2>2. call'[t].folder # file'[t]
        BY <1>3, <2>1
    <2>3. PostIsGood(t)'
        BY <1>5, <2>1, <2>2 DEF PostIsGood, Posting, Saving, Here, Settled
    <2>4. BodiesAreFaithful(t)' /\ KidsGo(t)'
        BY <2>1 DEF BodiesAreFaithful, KidsGo, RemovingAt, Found
    <2>5. Own(t)' = {made + 1, id}
        BY <1>3, <2>1 DEF Own, Posting
    <2>6. \A i \in Own(t)' : i \in 1..made' /\ (i \in Own(t) \/ i \notin 1..made)
        BY <1>3, <1>7, <2>1, <2>5
    <2>7. QED
        BY <1>9, <2>1, <2>3, <2>4, <2>6 DEF Responsible, Busy
<1>11. CASE ~call[t].more
    <2>1. pc'[t] = "idle" /\ acked' = acked \cup ({id, folder} \ {0})
        BY <1>2, <1>11, Going DEF SaveFile
    <2>2. Busy(t)' /\ Own(t)' = {}
        BY <2>1, FreePlace
    <2>3. \A i \in acked' \ acked : i \in Own(t) /\ Here(i)'
        BY <1>3, <1>5, <2>1
    <2>4. QED
        BY <1>9, <2>1, <2>2, <2>3 DEF Responsible
<1>12. QED
    BY <1>10, <1>11

\* A pull reads documents and makes objects of them.
LEMMA PullsAreGood ==
    ASSUME SavedInv, TypesInv, DirectoryInv, SharesInv, SavedGoesOn, [Next]_vars,
           NEW t \in Threads, ReadFiles(t) \/ ReplaceFiles(t)
    PROVE  Responsible(t)
<1>. Moves(t) /\ Shapes /\ made \in Nat
    BY DEF Moves, Serve, DirectoryInv, TypesInv
<1>1. CASE ReadFiles(t)
    <2>1. /\ pc[t] = "read" /\ docs' = docs /\ pc'[t] = "replace"
          /\ call'[t] = [body |-> Restrict(docs, call[t].listed \cap DOMAIN docs)]
        BY <1>1, Going DEF ReadFiles, server
    <2>2. ~SaveFile(t) /\ ~ReplaceFiles(t)
        BY <2>1 DEF SaveFile, ReplaceFiles
    <2>3. acked' = acked /\ DOMAIN objs' = DOMAIN objs
        BY <2>2, NothingNew
    <2>4. PICK body : body = call'[t].body
        OBVIOUS
    <2>5. DOMAIN body \subseteq DOMAIN docs /\ \A id \in DOMAIN body : body[id] = docs[id]
        BY <2>1, <2>4 DEF Restrict
    <2>6. ASSUME NEW id \in DOMAIN body
          PROVE  Faithful(id, body[id].dir)'
        <3>1. id \in DOMAIN docs /\ body[id] = docs[id]
            BY <2>5
        <3>2. Known(id)
            BY <3>1 DEF DirectoryInv, Numbered, Fresh, Known, Pending
        <3>3. PICK dir : dir = body[id].dir
            OBVIOUS
        <3>4. Faithful(id, dir)
            BY <3>1, <3>2, <3>3 DEF Faithful
        <3>5. Faithful(id, dir)'
            BY <3>4, FaithfulStays
        <3>6. QED
            BY <2>4, <3>3, <3>5 DEF Faithful
    <2>7. BodiesAreFaithful(t)'
        BY <2>1, <2>4, <2>6 DEF BodiesAreFaithful, Faithful
    <2>8. PostIsGood(t)' /\ KidsGo(t)' /\ Own(t)' = {}
        BY <2>1 DEF PostIsGood, KidsGo, Own, Posting, Saving, RemovingAt, Found
    <2>9. QED
        BY <2>3, <2>7, <2>8 DEF Responsible, Busy
<1>2. CASE ReplaceFiles(t)
    <2>1. pc[t] = "replace" /\ pc'[t] = "idle" /\ acked' = acked /\ made' = made
        BY <1>2, Going DEF ReplaceFiles, history
    <2>2. Busy(t)' /\ Own(t)' = {}
        BY <2>1, FreePlace
    <2>3. BodiesAreFaithful(t)
        BY DEF SavedInv, Busy
    <2>4. ASSUME NEW o \in DOMAIN objs' \ DOMAIN objs
          PROVE  Faithful(objs[o].id, objs[o].dir)'
        <3>1. PICK id \in DOMAIN call[t].body : objs'[o] = Object(id, call[t].body[id])
            BY <1>2, <2>1, ObjectsOfPull
        <3>2. PICK dir : dir = call[t].body[id].dir
            OBVIOUS
        <3>3. objs'[o].id = id /\ objs'[o].dir = dir
            BY <3>1, <3>2 DEF Object
        <3>4. Faithful(id, dir)
            BY <2>1, <2>3, <3>2 DEF BodiesAreFaithful
        <3>5. Faithful(id, dir)'
            BY <3>4, FaithfulStays
        <3>6. QED
            BY <3>3, <3>5 DEF Faithful, Known
    <2>5. QED
        BY <2>1, <2>2, <2>4 DEF Responsible
<1>3. QED
    BY <1>1, <1>2

\* A rename sends objects, and the metaserver the children it found.
LEMMA BodiesAreGood ==
    ASSUME SavedInv, TypesInv, DirectoryInv, SharesInv, SavedGoesOn, SameFiles, [Next]_vars,
           NEW t \in Threads, SendFile(t)
                              \/ PutFile(t) \/ FindRenamed(t) \/ RenameChild(t) \/ UpdateFile(t)
    PROVE  Responsible(t)
<1>. Moves(t) /\ Shapes /\ made \in Nat
    BY DEF Moves, Serve, DirectoryInv, TypesInv
<1>1. ~SaveFile(t) /\ ~ReplaceFiles(t)
    BY DEF SendFile, PutFile, FindRenamed, RenameChild, UpdateFile, SaveFile, ReplaceFiles
<1>2. acked' = acked /\ DOMAIN objs' = DOMAIN objs
    BY <1>1, NothingNew
<1>3. BodiesAreFaithful(t) /\ CallTyped(t)
    BY DEF SavedInv, Busy, TypesInv
<1>4. ASSUME pc'[t] \in {"put", "rename", "update"}, NEW body, NEW items,
             call'[t].body = body, call'[t].items = items,
             \A b \in {body} \cup items : Faithful(b.id, b.dir)
      PROVE  Responsible(t)
    <2>1. \A b \in {body} \cup items : Faithful(b.id, b.dir)'
        BY <1>4, FaithfulStays
    <2>2. BodiesAreFaithful(t)'
        BY <1>4, <2>1 DEF BodiesAreFaithful, Faithful, Known
    <2>3. PostIsGood(t)' /\ KidsGo(t)' /\ Own(t)' = {}
        BY <1>4 DEF PostIsGood, KidsGo, Own, Posting, Saving, RemovingAt, Found
    <2>4. QED
        BY <1>2, <2>2, <2>3 DEF Responsible, Busy
<1>5. CASE Finish(t) \/ \E state : GotoWith(t, "send", state)
    <2>1. pc'[t] \in {"idle", "send"}
        BY <1>5, Going
    <2>2. QED
        BY <1>1, <2>1, FreeMove
<1>6. CASE SendFile(t)
    <2>1. /\ pc[t] = "send" /\ call[t].obj \in DOMAIN objs /\ call[t].kids \subseteq DOMAIN objs
        BY <1>3, <1>6 DEF SendFile, CallTyped
    <2>2. \A o \in DOMAIN objs : Faithful(objs[o].id, objs[o].dir)
        BY DEF SavedInv
    <2>3. CASE \E k \in call[t].kids :
                 GotoWith(t, "put", Sent(t, call[t].kids \ {k}, objs[k], FALSE))
        <3>1. PICK k \in call[t].kids :
                 GotoWith(t, "put", Sent(t, call[t].kids \ {k}, objs[k], FALSE))
            BY <2>3
        <3>2. pc'[t] = "put" /\ call'[t].body = objs[k] /\ call'[t].items = {}
            BY <3>1, Going DEF Sent
        <3>3. Faithful(objs[k].id, objs[k].dir)
            BY <2>1, <2>2
        <3>4. PICK body : body = objs[k]
            OBVIOUS
        <3>5. QED
            BY <1>4, <3>2, <3>3, <3>4
    <2>4. CASE GotoWith(t, "put", Sent(t, {}, objs'[call[t].obj], TRUE))
        <3>1. PICK body : body = objs'[call[t].obj]
            OBVIOUS
        <3>2. pc'[t] = "put" /\ call'[t].body = body /\ call'[t].items = {}
            BY <2>4, <3>1, Going DEF Sent
        <3>3. body.id = objs[call[t].obj].id /\ body.dir = objs[call[t].obj].dir
            BY <2>1, <3>1 DEF SameFiles
        <3>4. Faithful(body.id, body.dir)
            BY <2>1, <2>2, <3>3
        <3>5. QED
            BY <1>4, <3>2, <3>4
    <2>5. QED
        BY <1>6, <2>3, <2>4 DEF SendFile
<1>7. CASE PutFile(t)
    <2>1. CASE Finish(t)
        BY <1>5, <2>1
    <2>2. CASE ~Finish(t)
        <3>1. PICK where, old : GotoWith(t, where, [call[t] EXCEPT !.old = old])
                                /\ where \in {"rename", "update"}
            BY <1>7, <2>2 DEF PutFile
        <3>2. pc[t] = "put"
            BY <1>7 DEF PutFile
        <3>3. PICK body, items : body = call[t].body /\ items = call[t].items
            OBVIOUS
        <3>4. pc'[t] = where /\ call'[t] = [call[t] EXCEPT !.old = old]
            BY <3>1, Going
        <3>5. call'[t].items = items /\ call'[t].body = body
            BY <1>3, <3>2, <3>3, <3>4 DEF CallTyped
        <3>6. \A b \in {body} \cup items : Faithful(b.id, b.dir)
            BY <1>3, <3>2, <3>3 DEF BodiesAreFaithful
        <3>7. pc'[t] \in {"put", "rename", "update"}
            BY <3>1, <3>4
        <3>8. QED
            BY <1>4, <3>5, <3>6, <3>7
    <2>3. QED
        BY <2>1, <2>2
<1>11. CASE FindRenamed(t)
    <2>2. CASE GotoWith(t, "update", [call[t] EXCEPT !.items =
                                         Renamed(call[t].old, call[t].body.name)])
        <3>1. PICK body, items : body = call[t].body /\ items = Renamed(call[t].old, body.name)
            OBVIOUS
        <3>2. pc[t] = "rename"
            BY <1>11 DEF FindRenamed
        <3>3. /\ pc'[t] = "update"
              /\ call'[t] = [call[t] EXCEPT !.items = items]
            BY <2>2, <3>1, Going
        <3>4. call'[t].items = items /\ call'[t].body = body
            BY <1>3, <3>1, <3>2, <3>3 DEF CallTyped
        <3>5. Faithful(body.id, body.dir)
            BY <1>3, <3>1, <3>2 DEF BodiesAreFaithful
        <3>6. ASSUME NEW b \in items
              PROVE  Faithful(b.id, b.dir)
            <4>1. PICK i \in DOMAIN docs :
                     b = Object(i, [docs[i] EXCEPT !.name = Moved(@, call[t].old, body.name)])
                BY <3>1, <3>6 DEF Renamed, Children
            <4>2. docs[i] \in Document
                BY DEF TypesInv, DocsTyped
            <4>3. b.id = i /\ b.dir = docs[i].dir
                BY <4>1, <4>2 DEF Object, Document
            <4>4. Known(i)
                BY DEF DirectoryInv, Numbered, Fresh, Known, Pending
            <4>5. QED
                BY <4>3, <4>4 DEF Faithful
        <3>7. QED
            BY <1>4, <3>3, <3>4, <3>5, <3>6
    <2>3. QED
        BY <1>11, <2>2 DEF FindRenamed
<1>8. CASE RenameChild(t)
    <2>1. CASE Finish(t)
        BY <1>5, <2>1
    <2>2. CASE \E item \in call[t].items :
                 GotoWith(t, "update", [call[t] EXCEPT !.items = @ \ {item}])
        <3>1. PICK item \in call[t].items :
                 GotoWith(t, "update", [call[t] EXCEPT !.items = @ \ {item}])
            BY <2>2
        <3>2. PICK body, items : body = call[t].body /\ items = call[t].items \ {item}
            OBVIOUS
        <3>3. pc[t] = "update"
            BY <1>8 DEF RenameChild
        <3>4. /\ pc'[t] = "update"
              /\ call'[t] = [call[t] EXCEPT !.items = items]
            BY <3>1, <3>2, Going
        <3>5. call'[t].body = body /\ call'[t].items = items
            BY <1>3, <3>2, <3>3, <3>4 DEF CallTyped
        <3>6. \A b \in {body} \cup items : Faithful(b.id, b.dir)
            BY <1>3, <3>2, <3>3 DEF BodiesAreFaithful
        <3>7. QED
            BY <1>4, <3>4, <3>5, <3>6
    <2>3. QED
        BY <1>8, <2>1, <2>2 DEF RenameChild
<1>9. CASE UpdateFile(t)
    BY <1>5, <1>9 DEF UpdateFile
<1>10. QED
    BY <1>6, <1>7, <1>8, <1>9, <1>11

\* A removal that goes on: the children are settled, gone, or still under the
\* folder.
LEMMA RemovalGoesOn ==
    ASSUME SavedInv, TypesInv, DirectoryInv, SharesInv, SavedGoesOn, SameFiles, [Next]_vars,
           NEW t \in Threads, Moves(t), ~SaveFile(t), ~ReplaceFiles(t),
           pc[t] \in RemovingAt, pc'[t] \in Found, file'[t] = file[t],
           call'[t].undo = call[t].undo, call'[t].kids = call[t].kids,
           \A k \in call[t].kids : \A id :
              id = objs[k].id =>
                \/ Settled(id)' \/ id \notin DOMAIN docs \/ id \notin DOMAIN docs'
                \/ /\ pc'[t] \in {"children", "sweep"}
                   /\ Under(call'[t].old, docs'[id].name)
    PROVE  Responsible(t)
<1>. made \in Nat
    BY DEF TypesInv
<1>1. acked' = acked /\ DOMAIN objs' = DOMAIN objs
    BY NothingNew
<1>2. KidsGo(t) /\ OwnersApart /\ call[t].kids \subseteq DOMAIN objs
    BY DEF SavedInv, Busy, TypesInv, CallTyped, RemovingAt
<1>3. Own(t)' = Own(t)
    BY DEF Own, RemovingAt, Found, Posting
<1>4. \A id \in Own(t)' : id \in 1..made' /\ id \in Own(t)
    BY <1>2, <1>3 DEF OwnersApart, SavedGoesOn
<1>5. PostIsGood(t)' /\ BodiesAreFaithful(t)'
    BY DEF PostIsGood, BodiesAreFaithful, Posting, Saving, Found
<1>6. PICK g, undo, kids : g = file[t] /\ undo = call[t].undo /\ kids = call[t].kids
    OBVIOUS
<1>7. IF undo THEN kids = {} ELSE g \in asked' /\ Known(g)'
    BY <1>2, <1>6, KnownRemains DEF KidsGo, SavedGoesOn
<1>8. ASSUME NEW k \in kids
      PROVE  \/ Settled(objs[k].id)' \/ objs'[k].id \notin DOMAIN docs'
             \/ pc'[t] \in {"children", "sweep"} /\ Under(call'[t].old, docs'[objs'[k].id].name)
    <2>1. PICK id : id = objs[k].id
        OBVIOUS
    <2>2. objs'[k].id = id /\ Known(id)
        BY <1>2, <1>6, <2>1 DEF SameFiles, SavedInv, Faithful
    <2>3. id \notin DOMAIN docs => id \notin DOMAIN docs'
        BY <2>2 DEF SavedGoesOn, Known
    <2>4. \/ Settled(id)' \/ id \notin DOMAIN docs'
          \/ pc'[t] \in {"children", "sweep"} /\ Under(call'[t].old, docs'[id].name)
        BY <1>6, <2>1, <2>3
    <2>5. QED
        BY <2>2, <2>4 DEF Settled
<1>9. KidsGo(t)'
    BY <1>6, <1>7, <1>8 DEF KidsGo, Settled, Known
<1>10. QED
    BY <1>1, <1>4, <1>5, <1>9 DEF Responsible, Busy

\* A removal starts with the cached children that the metaserver has there.
LEMMA RemovalsStart ==
    ASSUME SavedInv, TypesInv, DirectoryInv, SharesInv, SavedGoesOn, SameFiles, [Next]_vars,
           NEW t \in Threads, StartRemove(t) \/ UndoPost(t)
    PROVE  Responsible(t)
<1>. Moves(t) /\ Shapes /\ made \in Nat
    BY DEF Moves, Serve, DirectoryInv, TypesInv
<1>1. ~SaveFile(t) /\ ~ReplaceFiles(t)
    BY DEF StartRemove, Begin, UndoPost, SaveFile, ReplaceFiles
<1>2. acked' = acked /\ DOMAIN objs' = DOMAIN objs
    BY <1>1, NothingNew
<1>3. ASSUME pc'[t] = "find"
      PROVE  PostIsGood(t)' /\ BodiesAreFaithful(t)'
    BY <1>3 DEF PostIsGood, BodiesAreFaithful, Posting, Saving
<1>4. CASE StartRemove(t)
    <2>1. PICK o \in cache :
            LET kids == IF objs[o].dir THEN CachedChildren(o) ELSE {}
            IN  /\ Begin(t, "find", objs[o].id, [undo |-> FALSE, kids |-> kids])
                /\ asked' = asked \cup {objs[o].id}
                /\ misnamed' = misnamed \cup Elsewhere(objs[o].id, {objs[k].id : k \in kids})
                /\ objs' = objs /\ docs' = docs
        BY <1>4 DEF StartRemove, server, renter
    <2>2. PICK kids : kids = IF objs[o].dir THEN CachedChildren(o) ELSE {}
        OBVIOUS
    <2>3. PICK g : g = objs[o].id
        OBVIOUS
    <2>4. /\ Begin(t, "find", g, [undo |-> FALSE, kids |-> kids])
          /\ asked' = asked \cup {g}
          /\ misnamed' = misnamed \cup Elsewhere(g, {objs[k].id : k \in kids})
          /\ objs' = objs /\ docs' = docs
        BY <2>1, <2>2, <2>3
    <2>5. pc'[t] = "find" /\ file'[t] = g /\ call'[t] = [undo |-> FALSE, kids |-> kids]
        BY <2>4, Going
    <2>6. o \in DOMAIN objs /\ kids \subseteq DOMAIN objs
        BY <2>2 DEF TypesInv, RenterTyped, CachedChildren
    <2>7. Faithful(g, objs[o].dir)
        BY <2>3, <2>6 DEF SavedInv
    <2>8. g \in asked' /\ Known(g)'
        BY <2>4, <2>7, KnownRemains DEF Faithful
    <2>9. ASSUME NEW k \in kids
          PROVE  \/ Settled(objs[k].id)' \/ objs'[k].id \notin DOMAIN docs'
                 \/ g \in DOMAIN docs' =>
                      docs'[g].dir /\ Under(docs'[g].name, docs'[objs'[k].id].name)
        <3>1. PICK id : id = objs[k].id
            OBVIOUS
        <3>2. objs[o].dir
            BY <2>2
        <3>3. g \in DOMAIN docs => docs[g].dir
            BY <2>7, <3>2 DEF Faithful
        <3>4. CASE /\ id \in DOMAIN docs /\ g \in DOMAIN docs
                   /\ ~Under(docs[g].name, docs[id].name)
            <4>1. id \in {objs[i].id : i \in kids}
                BY <3>1
            <4>2. id \in misnamed'
                BY <2>4, <3>4, <4>1 DEF Elsewhere
            <4>3. QED
                BY <2>4, <3>1, <4>2 DEF Settled
        <3>5. CASE id \notin DOMAIN docs \/ g \notin DOMAIN docs
            BY <2>4, <3>1, <3>5
        <3>6. CASE g \in DOMAIN docs /\ Under(docs[g].name, docs[id].name)
            BY <2>4, <3>1, <3>3, <3>6
        <3>7. QED
            BY <3>4, <3>5, <3>6
    <2>10. KidsGo(t)'
        BY <2>5, <2>8, <2>9 DEF KidsGo, Settled, Known
    <2>11. Own(t)' = {}
        BY <2>5 DEF Own, Posting
    <2>12. QED
        BY <1>2, <1>3, <2>5, <2>10, <2>11 DEF Responsible, Busy
<1>5. CASE UndoPost(t)
    <2>1. CASE call[t].folder # 0
        <3>1. /\ pc[t] = "undo" /\ pc'[t] = "find" /\ file'[t] = call[t].folder
              /\ call'[t] = [kids |-> {}, undo |-> TRUE]
            BY <1>5, <2>1 DEF UndoPost, Shapes
        <3>2. pc[t] \in Posting
            BY <3>1 DEF Posting
        <3>3. file[t] # 0
            BY <3>2 DEF TypesInv, CallTyped
        <3>4. call[t].folder \in Own(t)
            BY <2>1, <3>2, <3>3, OwnWhileSaving
        <3>5. Own(t)' = {call[t].folder}
            BY <3>1 DEF Own, Posting, RemovingAt
        <3>6. \A id \in Own(t)' : id \in 1..made' /\ id \in Own(t)
            BY <3>4, <3>5 DEF SavedInv, OwnersApart, SavedGoesOn
        <3>7. KidsGo(t)'
            BY <3>1 DEF KidsGo
        <3>8. QED
            BY <1>2, <1>3, <3>1, <3>6, <3>7 DEF Responsible, Busy
    <2>2. CASE call[t].folder = 0
        <3>1. pc'[t] = "idle"
            BY <1>5, <2>2, Going DEF UndoPost
        <3>2. QED
            BY <1>1, <3>1, FreeMove
    <2>3. QED
        BY <2>1, <2>2
<1>6. QED
    BY <1>4, <1>5

\* A removal on its way to the blocks.
LEMMA RemovalsAreGood ==
    ASSUME SavedInv, TypesInv, DirectoryInv, SharesInv, SavedGoesOn, SameFiles, [Next]_vars,
           NEW t \in Threads,
           \/ FindFile(t) \/ FindChildren(t) \/ RemoveChildren(t) \/ DeleteFile(t)
           \/ RemoveFromDirectory(t) \/ RemoveContents(t)
    PROVE  Responsible(t)
<1>. Moves(t) /\ Shapes /\ made \in Nat
    BY DEF Moves, Serve, DirectoryInv, TypesInv
<1>1. pc[t] \in RemovingAt /\ ~SaveFile(t) /\ ~ReplaceFiles(t)
    BY DEF FindFile, FindChildren, RemoveChildren, DeleteFile, RemoveFromDirectory,
           RemoveContents, RemovingAt, Found, SaveFile, ReplaceFiles
<1>2. KidsGo(t) /\ call[t].kids \subseteq DOMAIN objs
    BY <1>1 DEF SavedInv, Busy, TypesInv, CallTyped, RemovingAt
<1>3. CASE Finish(t) \/ \E state : GotoWith(t, "list", state)
    <2>1. pc'[t] \in {"idle", "list"}
        BY <1>3, Going
    <2>2. QED
        BY <1>1, <2>1, FreeMove
<1>4. CASE FindFile(t)
    <2>1. CASE file[t] \in DOMAIN docs
        <3>1. /\ pc[t] = "find" /\ docs' = docs
              /\ GotoWith(t, IF docs[file[t]].dir THEN "children" ELSE "delete",
                          [undo |-> call[t].undo, kids |-> call[t].kids,
                           old |-> docs[file[t]].name])
            BY <1>4, <2>1 DEF FindFile, server
        <3>2. /\ pc'[t] = IF docs[file[t]].dir THEN "children" ELSE "delete"
              /\ file'[t] = file[t]
              /\ call'[t] = [undo |-> call[t].undo, kids |-> call[t].kids,
                             old |-> docs[file[t]].name]
            BY <3>1, Going
        <3>3. pc'[t] \in Found
            BY <3>2 DEF Found
        <3>4. ASSUME NEW k \in call[t].kids, NEW id, id = objs[k].id
              PROVE  \/ Settled(id)' \/ id \notin DOMAIN docs
                     \/ pc'[t] \in {"children", "sweep"} /\ Under(call'[t].old, docs'[id].name)
            <4>1. CASE Settled(id)
                BY <4>1, SettledStays
            <4>2. CASE ~Settled(id) /\ id \in DOMAIN docs
                <5>1. docs[file[t]].dir /\ Under(docs[file[t]].name, docs[id].name)
                    BY <1>1, <1>2, <2>1, <3>1, <3>4, <4>2 DEF KidsGo
                <5>2. QED
                    BY <3>1, <3>2, <5>1
            <4>3. QED
                BY <4>1, <4>2
        <3>5. QED
            BY <1>1, <3>2, <3>3, <3>4, RemovalGoesOn
    <2>2. CASE file[t] \notin DOMAIN docs
        BY <1>3, <1>4, <2>2 DEF FindFile
    <2>3. QED
        BY <2>1, <2>2
<1>5. CASE FindChildren(t)
    <2>1. /\ pc[t] = "children" /\ pc'[t] = "sweep" /\ docs' = docs
          /\ file'[t] = file[t] /\ call'[t] = call[t]
        BY <1>5 DEF FindChildren, Shapes, server
    <2>2. pc'[t] \in Found
        BY <2>1 DEF Found
    <2>3. ASSUME NEW k \in call[t].kids, NEW id, id = objs[k].id
          PROVE  \/ Settled(id)' \/ id \notin DOMAIN docs
                 \/ pc'[t] \in {"children", "sweep"} /\ Under(call'[t].old, docs'[id].name)
        <3>1. CASE Settled(id)
            BY <3>1, SettledStays
        <3>2. CASE ~Settled(id) /\ id \in DOMAIN docs
            <4>1. Under(call[t].old, docs[id].name)
                BY <1>1, <1>2, <2>1, <2>3, <3>2 DEF KidsGo
            <4>2. QED
                BY <2>1, <4>1
        <3>3. QED
            BY <3>1, <3>2
    <2>4. QED
        BY <1>1, <2>1, <2>2, <2>3, RemovalGoesOn
<1>6. CASE RemoveChildren(t)
    <2>1. /\ pc[t] = "sweep" /\ pc'[t] = "delete"
          /\ docs' = [id \in DOMAIN docs \ Children(call[t].old) |-> docs[id]]
          /\ file'[t] = file[t] /\ call'[t] = call[t]
        BY <1>6, Going DEF RemoveChildren
    <2>2. pc'[t] \in Found
        BY <2>1 DEF Found
    <2>3. ASSUME NEW k \in call[t].kids, NEW id, id = objs[k].id
          PROVE  Settled(id)' \/ id \notin DOMAIN docs \/ id \notin DOMAIN docs'
        <3>1. CASE Settled(id)
            BY <3>1, SettledStays
        <3>2. CASE ~Settled(id) /\ id \in DOMAIN docs
            <4>1. Under(call[t].old, docs[id].name)
                BY <1>1, <1>2, <2>1, <2>3, <3>2 DEF KidsGo
            <4>2. QED
                BY <2>1, <3>2, <4>1 DEF Children
        <3>3. QED
            BY <3>1, <3>2
    <2>4. QED
        BY <1>1, <2>1, <2>2, <2>3, RemovalGoesOn
<1>7. ASSUME pc[t] \in {"delete", "leave"}, pc'[t] \in Found,
             file'[t] = file[t], call'[t] = call[t]
      PROVE  Responsible(t)
    <2>1. ASSUME NEW k \in call[t].kids, NEW id, id = objs[k].id
          PROVE  Settled(id)' \/ id \notin DOMAIN docs
        <3>1. Settled(id) \/ id \notin DOMAIN docs
            BY <1>1, <1>2, <1>7, <2>1 DEF KidsGo
        <3>2. QED
            BY <3>1, SettledStays
    <2>2. QED
        BY <1>1, <1>7, <2>1, RemovalGoesOn
<1>8. CASE DeleteFile(t)
    <2>1. CASE Goto(t, "leave")
        <3>1. pc[t] = "delete" /\ pc'[t] = "leave" /\ file'[t] = file[t] /\ call'[t] = call[t]
            BY <1>8, <2>1, Going DEF DeleteFile
        <3>2. QED
            BY <1>7, <3>1 DEF Found
    <2>2. QED
        BY <1>3, <1>8, <2>1 DEF DeleteFile
<1>9. CASE RemoveFromDirectory(t)
    <2>1. CASE Goto(t, "contents")
        <3>1. pc[t] = "leave" /\ pc'[t] = "contents" /\ file'[t] = file[t] /\ call'[t] = call[t]
            BY <1>9, <2>1, Going DEF RemoveFromDirectory
        <3>2. QED
            BY <1>7, <3>1 DEF Found
    <2>2. QED
        BY <1>3, <1>9, <2>1 DEF RemoveFromDirectory
<1>10. CASE RemoveContents(t)
    BY <1>3, <1>10 DEF RemoveContents
<1>11. QED
    BY <1>4, <1>5, <1>6, <1>8, <1>9, <1>10

\* The requests that touch neither files nor blocks.
LEMMA FreeMoves ==
    ASSUME SavedInv, TypesInv, DirectoryInv, SharesInv, [Next]_vars, NEW t \in Threads,
           \/ StartPull(t) \/ StartRename(t) \/ StartShare(t) \/ StartUnshare(t)
           \/ ReadDirectory(t) \/ AddPermission(t) \/ AddToSharedDirectory(t) \/ NoteShare(t)
           \/ RemovePermission(t) \/ RemoveFromSharedDirectory(t)
    PROVE  Responsible(t)
<1>. Moves(t) /\ Shapes
    BY DEF Moves, Serve, DirectoryInv
<1>1. ~SaveFile(t) /\ ~ReplaceFiles(t)
    BY DEF StartPull, StartRename, StartShare, StartUnshare, Begin, ReadDirectory,
           AddPermission, AddToSharedDirectory, NoteShare, RemovePermission,
           RemoveFromSharedDirectory, SaveFile, ReplaceFiles
<1>2. pc'[t] \in {"idle", "list", "read", "send"} \cup Sharing \cup {"note"}
    <2>1. CASE StartPull(t) \/ StartRename(t)
        <3>1. \E where \in {"list", "send"} : \E id, state : Begin(t, where, id, state)
            BY <2>1 DEF StartPull, StartRename
        <3>2. QED
            BY <3>1, Going
    <2>2. CASE StartShare(t) \/ StartUnshare(t)
        <3>1. \E where \in {"permit", "forbid"} : \E id, state : Begin(t, where, id, state)
            BY <2>2 DEF StartShare, StartUnshare
        <3>2. QED
            BY <3>1, Going DEF Sharing
    <2>3. CASE ReadDirectory(t)
        BY <2>3, Going DEF ReadDirectory
    <2>4. CASE AddPermission(t) \/ AddToSharedDirectory(t) \/ NoteShare(t)
               \/ RemovePermission(t) \/ RemoveFromSharedDirectory(t)
        BY <2>4, Going DEF AddPermission, AddToSharedDirectory, NoteShare, RemovePermission,
                           RemoveFromSharedDirectory, Sharing
    <2>5. QED
        BY <2>1, <2>2, <2>3, <2>4
<1>3. QED
    BY <1>1, <1>2, FreeMove

\* A step that is not a request's.
LEMMA SavedWaits ==
    ASSUME SavedInv, TypesInv, SavedGoesOn, SameFiles,
           UNCHANGED request, UNCHANGED <<docs, blocks, objs, made, acked>>
    PROVE  SavedInv'
<1>1. ASSUME NEW u \in Threads
      PROVE  Busy(u)' /\ Own(u)' = Own(u)
    BY BusyStays DEF request
<1>2. OwnersApart'
    BY <1>1 DEF SavedInv, OwnersApart
<1>3. ASSUME NEW id \in acked'
      PROVE  Here(id)'
    <2>1. Here(id) /\ ~Undone(id)
        BY <1>3, AckedIsNotUndone DEF SavedInv
    <2>2. QED
        BY <2>1, HereStays
<1>4. \A o \in DOMAIN objs' : Faithful(objs[o].id, objs[o].dir)'
    BY DEF SavedInv, Faithful, Known, Pending, request
<1>5. QED
    BY <1>1, <1>2, <1>3, <1>4 DEF SavedInv

\* The first two files are there.
LEMMA SavedInit == Init => SavedInv
<1>. SUFFICES ASSUME Init PROVE SavedInv
    OBVIOUS
<1>1. PICK folder \in Folders : folder = CHOOSE f \in Folders : TRUE
    BY DirectoryAssumption
<1>2. folder \in Seq(Range(folder)) /\ Append(folder, Inner) \notin Folders
    <2>1. folder \in Seq(Range(folder))
        BY DirectoryAssumption
    <2>2. PICK S : S = Range(folder) \cup {Inner}
        OBVIOUS
    <2>3. folder \in Seq(S) /\ Inner \in S
        BY <2>1, <2>2, SeqMonotonic
    <2>4. Last(Append(folder, Inner)) = Inner
        BY <2>3 DEF Last
    <2>5. QED
        BY <2>1, <2>4, DirectoryAssumption
<1>3. PICK first : first = <<[name |-> folder, dir |-> folder \in Folders, acl |-> {}],
                             [name |-> Append(folder, Inner),
                              dir |-> Append(folder, Inner) \in Folders, acl |-> {}]>>
    OBVIOUS
<1>4. /\ docs = first /\ blocks = {2} /\ objs = [i \in 1..2 |-> Object(i, first[i])]
      /\ pc = [t \in Threads |-> "idle"] /\ made = 2 /\ acked = {1, 2} /\ asked = {}
      /\ moved = {} /\ misnamed = {} /\ swept = {}
    BY <1>1, <1>3 DEF Init
<1>5. DOMAIN first = {1, 2} /\ first[1].dir
    <2>1. DOMAIN first = 1..2
        BY <1>3
    <2>2. first[1] = [name |-> folder, dir |-> folder \in Folders, acl |-> {}]
        BY <1>3
    <2>3. first[1].dir = (folder \in Folders) /\ folder \in Folders
        BY <2>2
    <2>4. 1..2 = {1, 2}
        OBVIOUS
    <2>5. QED
        BY <2>1, <2>3, <2>4
<1>6. 1..made = {1, 2}
    BY <1>4
<1>7. \A id : ~Pending(id)
    BY <1>4 DEF Pending
<1>8. \A o \in DOMAIN objs : Faithful(objs[o].id, objs[o].dir)
    <2>1. ASSUME NEW o \in 1..2
          PROVE  Faithful(objs[o].id, objs[o].dir)
        <3>1. objs[o].id = o /\ objs[o].dir = first[o].dir
            BY <1>4 DEF Object
        <3>2. QED
            BY <1>4, <1>6, <1>7, <3>1 DEF Faithful, Known
    <2>2. QED
        BY <1>4, <2>1
<1>9. \A id \in acked : Here(id)
    BY <1>4, <1>5 DEF Here
<1>10. \A t \in Threads : Busy(t) /\ Own(t) = {}
    BY <1>4 DEF Busy, PostIsGood, BodiesAreFaithful, KidsGo, Own, Posting, Saving,
                RemovingAt,
                Found
<1>11. OwnersApart
    BY <1>4, <1>6, <1>10 DEF OwnersApart
<1>12. QED
    BY <1>8, <1>9, <1>10, <1>11 DEF SavedInv

\* The invariant of the saved files is inductive, given the other three.
LEMMA SavedNext ==
    DirectoryInv /\ SharesInv /\ TypesInv /\ SavedInv /\ [Next]_vars => SavedInv'
<1>. SUFFICES ASSUME DirectoryInv, SharesInv, TypesInv, SavedInv, [Next]_vars
              PROVE  SavedInv'
    OBVIOUS
<1>1. SavedGoesOn /\ SameFiles
    BY SavedContinues, RenterStaysTyped
<1>2. CASE UNCHANGED request /\ UNCHANGED <<docs, blocks, objs, made, acked>>
    BY <1>1, <1>2, SavedWaits
<1>3. ASSUME NEW t \in Threads, Moves(t)
      PROVE  SavedInv'
    <2>1. OthersWait(t)
        BY <1>3, RequestMoves DEF DirectoryInv
    <2>2. Responsible(t)
        <3>1. CASE StartCreate(t) \/ StartUploadDir(t) \/ InsertFile(t) \/ AddToDirectory(t)
            BY <1>1, <3>1, PostsAreGood
        <3>2. CASE SaveFile(t)
            BY <1>1, <3>2, SavesAreGood
        <3>3. CASE ReadFiles(t) \/ ReplaceFiles(t)
            BY <1>1, <3>3, PullsAreGood
        <3>4. CASE SendFile(t)
                   \/ PutFile(t) \/ FindRenamed(t) \/ RenameChild(t) \/ UpdateFile(t)
            BY <1>1, <3>4, BodiesAreGood
        <3>5. CASE StartRemove(t) \/ UndoPost(t)
            BY <1>1, <3>5, RemovalsStart
        <3>6. CASE \/ FindFile(t) \/ FindChildren(t) \/ RemoveChildren(t) \/ DeleteFile(t)
                   \/ RemoveFromDirectory(t) \/ RemoveContents(t)
            BY <1>1, <3>6, RemovalsAreGood
        <3>7. CASE \/ StartPull(t) \/ StartRename(t) \/ StartShare(t) \/ StartUnshare(t)
                   \/ ReadDirectory(t) \/ AddPermission(t) \/ AddToSharedDirectory(t)
                   \/ NoteShare(t) \/ RemovePermission(t) \/ RemoveFromSharedDirectory(t)
            BY <3>7, FreeMoves
        <3>8. QED
            BY <1>3, <3>1, <3>2, <3>3, <3>4, <3>5, <3>6, <3>7 DEF Moves, Serve
    <2>3. QED
        BY <1>1, <2>1, <2>2, SavedStep DEF Responsible
<1>4. QED
    BY <1>2, <1>3, WhoMoves

\* A file saved stays, with its blocks, until it or a folder it is in is asked
\* to be removed, or one of the named mishaps hits it.
THEOREM SavedStays == Spec => []SavedIsKept
<1>1. Init => SavedInv
    BY SavedInit
<1>2. DirectoryInv /\ SharesInv /\ TypesInv /\ SavedInv /\ [Next]_vars => SavedInv'
    BY SavedNext
<1>3. SavedInv => SavedIsKept
    BY DEF SavedInv, SavedIsKept, Here, Settled
<1>4. QED
    BY AllInvariants, <1>1, <1>2, <1>3, PTL DEF Spec
=============================================================================
