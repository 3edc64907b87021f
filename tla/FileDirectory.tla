--------------------------- MODULE FileDirectory ---------------------------
(***************************************************************************)
(* Folders, names and sharing: the file documents of one owner, the lists  *)
(* of file IDs in the renters' documents, and the owner's cached copies    *)
(* (metaserver/files.go, shared.go, mongoDB.go; renter/renter.go and       *)
(* doUploadDir in renter/upload.go).                                       *)
(*                                                                         *)
(* A handler of the metaserver makes its database calls one by one, each   *)
(* atomic and none of them together; a request of the renter makes several *)
(* calls to handlers.  Every database call is an action.  A renter's       *)
(* document is also written whole, from an earlier reading, by the         *)
(* handlers that move money and by PUT (module Billing).                   *)
(*                                                                         *)
(* A name is the sequence of its components.  What a file's versions hold  *)
(* is left to FileVersions: its blocks are there or not.                   *)
(***************************************************************************)
EXTENDS Integers, SequencesExt

CONSTANTS
    Threads,       \* requests of the owner served at once
    Owner, Sharees,
    Folders,       \* the names used for folders
    Inner,         \* the last component of every file's name
    MaxFiles, MaxRequests, MaxFaults, MaxWrites    \* bounds

Users == {Owner} \cup Sharees
Names == Folders \cup {Append(f, Inner) : f \in Folders}

ASSUME DirectoryAssumption ==
    /\ Owner \notin Sharees
    /\ Folders # {}
    /\ \A f \in Folders : f \in Seq(Range(f)) /\ f # <<>> /\ Last(f) # Inner
    /\ MaxFiles \in Nat \ {0, 1}

VARIABLES
    docs,       \* docs[id]: the file documents of the owner
    entries,    \* entries[u]: IDs listed in the user's document: the owner's
                \* Files, a sharee's Shared
    blocks,     \* files whose blocks are with the providers
    objs,       \* the renter's file objects; requests hold pointers to them
    cache,      \* the objects in the renter's list
    pc,         \* pc[t]: where the request is that t serves
    file,       \* file[t]: the ID of the file it creates or removes, or 0
    found,      \* found[t]: the children its removal of a folder found
    call,       \* call[t]: what else it holds
    writer,     \* a user's document read, to be written back whole
    made,       \* the last ID made
    spent,      \* how much of each bound is used up
    acked, asked,        \* history: files saved; asked to be removed
    shares, withdrawn,   \* history: shares answered; asked to be ended
    cut, moved, misnamed, swept,   \* history: files that a named mishap hit
    lapsed, overwritten  \* history: permissions and entries that one hit

server == <<docs, entries>>
renter == <<blocks, objs, cache, made>>
history == <<acked, asked, shares, withdrawn, cut, moved, misnamed, swept, lapsed, overwritten>>
request == <<pc, file, found, call>>
vars == <<server, renter, request, writer, spent, history>>

-----------------------------------------------------------------------------
\* findChildren, and the "^name/" of the metaserver's queries.
Under(folder, name) == IsStrictPrefix(folder, name)
Moved(name, old, new) == new \o SubSeq(name, Len(old) + 1, Len(name))

Children(name) == {id \in DOMAIN docs : Under(name, docs[id].name)}
CachedNames == {objs[o].name : o \in cache}
CachedChildren(o) == {k \in cache \ {o} : Under(objs[o].name, objs[k].name)}

\* Mutant of Taken: the unique index on the names is missing.
TakenNever(id, name) == FALSE

\* The unique index on the names of an owner's files.
Taken(id, name) == \E other \in DOMAIN docs \ {id} : docs[other].name = name

Nothing == [undo |-> FALSE]

\* What the renter keeps of a file's document.
Object(id, doc) == [id |-> id, name |-> doc.name, dir |-> doc.dir, acl |-> doc.acl]

Init ==
    LET doc(name) == [name |-> name, dir |-> name \in Folders, acl |-> {}]
        folder == CHOOSE f \in Folders : TRUE
        first == <<doc(folder), doc(Append(folder, Inner))>>
    IN  /\ docs = first
        /\ entries = [u \in Users |-> IF u = Owner THEN {1, 2} ELSE {}]
        /\ blocks = {2}
        /\ objs = [i \in 1..2 |-> Object(i, first[i])]
        /\ cache = {1, 2}
        /\ pc = [t \in Threads |-> "idle"]
        /\ file = [t \in Threads |-> 0]
        /\ found = [t \in Threads |-> {}]
        /\ call = [t \in Threads |-> Nothing]
        /\ writer = {}
        /\ made = 2
        /\ spent = [requests |-> 0, faults |-> 0, writes |-> 0]
        /\ acked = {1, 2} /\ asked = {}
        /\ shares = {} /\ withdrawn = {}
        /\ cut = {} /\ moved = {} /\ misnamed = {} /\ swept = {}
        /\ lapsed = {} /\ overwritten = {}

Spend(what) == spent' = [spent EXCEPT ![what] = @ + 1]

\* A call succeeds, is refused without an effect, or loses its answer.
Reply(reply) ==
    \/ reply = "ok" /\ UNCHANGED spent
    \/ reply \in {"refused", "lost"} /\ spent.faults < MaxFaults /\ Spend("faults")

Begin(t, where, id, state) ==
    /\ pc[t] = "idle"
    /\ spent.requests < MaxRequests
    /\ pc' = [pc EXCEPT ![t] = where]
    /\ file' = [file EXCEPT ![t] = id]
    /\ call' = [call EXCEPT ![t] = state]
    /\ UNCHANGED found
    /\ Spend("requests")

Goto(t, where) == pc' = [pc EXCEPT ![t] = where] /\ UNCHANGED <<file, found, call>>
GotoWith(t, where, state) ==
    /\ pc' = [pc EXCEPT ![t] = where]
    /\ call' = [call EXCEPT ![t] = state]
    /\ UNCHANGED <<file, found>>
Finish(t) ==
    /\ pc' = [pc EXCEPT ![t] = "idle"]
    /\ file' = [file EXCEPT ![t] = 0]
    /\ found' = [found EXCEPT ![t] = {}]
    /\ call' = [call EXCEPT ![t] = Nothing]

Removing(u) == pc[u] \in {"find", "children", "sweep", "delete", "leave", "contents"}

-----------------------------------------------------------------------------
(* CreateFolder, uploadFile and doUploadDir: POST of a file                *)

\* A name that the cache has is refused (GetFileByName); the blocks of a
\* file are uploaded first.
StartCreate(t) ==
    \E name \in Names \ CachedNames :
        /\ made < MaxFiles
        /\ Begin(t, "insert", made + 1, [name |-> name, folder |-> 0, more |-> FALSE])
        /\ made' = made + 1
        /\ blocks' = IF name \in Folders THEN blocks ELSE blocks \cup {made + 1}
        /\ UNCHANGED <<server, objs, cache, writer, history>>

\* A folder with one file in it.
StartUploadDir(t) ==
    \E name \in Folders \ CachedNames :
        /\ made + 1 < MaxFiles
        /\ Begin(t, "insert", made + 1, [name |-> name, folder |-> 0, more |-> TRUE])
        /\ made' = made + 1
        /\ UNCHANGED <<server, blocks, objs, cache, writer, history>>

NewDocument(t) ==
    [name |-> call[t].name, dir |-> call[t].name \in Folders, acl |-> {}]

\* Mutant of AfterInsert: the error of the insertion is ignored.
AfterInsertAlways(stored) == "enter"

AfterInsert(stored) == IF stored THEN "enter" ELSE "undo"

InsertFile(t) ==
    /\ pc[t] = "insert"
    /\ \E reply \in {"ok", "refused"} :
        /\ Reply(reply)
        /\ Taken(file[t], call[t].name) => reply = "ok"
        /\ LET stored == reply = "ok" /\ ~Taken(file[t], call[t].name)
           IN  /\ Goto(t, AfterInsert(stored))
               /\ docs' = IF stored
                          THEN [id \in DOMAIN docs \cup {file[t]} |->
                                   IF id = file[t] THEN NewDocument(t) ELSE docs[id]]
                          ELSE docs
    /\ UNCHANGED <<entries, renter, writer, history>>

\* Mutant of AfterEntering: the error of the second write is ignored.
AfterEnteringAlways(reply) == "save"

AfterEntering(reply) == IF reply = "ok" THEN "save" ELSE "undo"

\* AddFileToRenterDirectory; the answer to the renter may be lost as well.
AddToDirectory(t) ==
    /\ pc[t] = "enter"
    /\ \E reply \in {"ok", "refused", "lost"} :
        /\ Reply(reply)
        /\ entries' = IF reply = "refused" THEN entries
                      ELSE [entries EXCEPT ![Owner] = @ \cup {file[t]}]
        /\ Goto(t, AfterEntering(reply))
        /\ cut' = IF AfterEntering(reply) = "save" THEN cut ELSE cut \cup {file[t]}
    /\ UNCHANGED <<docs, renter, writer, acked, asked, shares, withdrawn, moved, misnamed,
                   swept, lapsed, overwritten>>

\* saveFile ends; a folder's file is posted next, its blocks are stored.
SaveFile(t) ==
    /\ pc[t] = "save"
    /\ objs' = Append(objs, Object(file[t], NewDocument(t)))
    /\ cache' = cache \cup {Len(objs) + 1}
    /\ IF call[t].more
       THEN /\ pc' = [pc EXCEPT ![t] = "insert"]
            /\ file' = [file EXCEPT ![t] = made + 1]
            /\ call' = [call EXCEPT ![t] = [name |-> Append(@.name, Inner),
                                            folder |-> file[t], more |-> FALSE]]
            /\ made' = made + 1
            /\ blocks' = blocks \cup {made + 1}
            /\ UNCHANGED <<found, acked>>
       ELSE /\ Finish(t)
            /\ acked' = acked \cup ({file[t], call[t].folder} \ {0})
            /\ UNCHANGED <<made, blocks>>
    /\ UNCHANGED <<server, writer, spent, asked, shares, withdrawn, cut, moved, misnamed,
                   swept, lapsed, overwritten>>

\* uploadFile undoes its upload; doUploadDir removes the folder it made and
\* leaves the blocks of the file that was not saved.
UndoPost(t) ==
    /\ pc[t] = "undo"
    /\ IF call[t].folder # 0
       THEN /\ pc' = [pc EXCEPT ![t] = "find"]
            /\ file' = [file EXCEPT ![t] = call[t].folder]
            /\ call' = [call EXCEPT ![t] = [kids |-> {}, undo |-> TRUE]]
            /\ UNCHANGED <<found, blocks>>
       ELSE Finish(t) /\ blocks' = blocks \ {file[t]}
    /\ UNCHANGED <<server, objs, cache, made, writer, spent, history>>

-----------------------------------------------------------------------------
(* RemoveFile: DELETE of a file or of a folder                             *)

\* The files that the metaserver does not have in the folder.
Elsewhere(folder, ids) ==
    {id \in ids \cap DOMAIN docs :
        folder \in DOMAIN docs /\ ~Under(docs[folder].name, docs[id].name)}

StartRemove(t) ==
    \E o \in cache :
        LET kids == IF objs[o].dir THEN CachedChildren(o) ELSE {}
        IN  /\ Begin(t, "find", objs[o].id, [undo |-> FALSE, kids |-> kids])
            /\ asked' = asked \cup {objs[o].id}
            /\ misnamed' = misnamed \cup Elsewhere(objs[o].id, {objs[k].id : k \in kids})
            /\ UNCHANGED <<server, renter, writer, acked, shares, withdrawn, cut, moved,
                           swept, lapsed, overwritten>>

FindFile(t) ==
    /\ pc[t] = "find"
    /\ IF file[t] \in DOMAIN docs
       THEN GotoWith(t, IF docs[file[t]].dir THEN "children" ELSE "delete",
                     [undo |-> call[t].undo, kids |-> call[t].kids,
                      old |-> docs[file[t]].name])
       ELSE Finish(t)
    /\ UNCHANGED <<server, renter, writer, spent, history>>

\* RemoveFolderChildren: found by name in one call, removed by name in the
\* next.
FindChildren(t) ==
    /\ pc[t] = "children"
    /\ pc' = [pc EXCEPT ![t] = "sweep"]
    /\ found' = [found EXCEPT ![t] = Children(call[t].old)]
    /\ UNCHANGED <<file, call, server, renter, writer, spent, history>>

RemoveChildren(t) ==
    LET gone == Children(call[t].old)
        named == file[t] \in DOMAIN docs /\ docs[file[t]].name = call[t].old
    IN  /\ pc[t] = "sweep"
        /\ docs' = [id \in DOMAIN docs \ gone |-> docs[id]]
        /\ Goto(t, "delete")
        /\ asked' = IF named /\ ~call[t].undo THEN asked \cup gone ELSE asked
        /\ swept' = IF named /\ ~call[t].undo THEN swept ELSE swept \cup gone
        /\ UNCHANGED <<entries, renter, writer, spent, acked, shares, withdrawn, cut, moved,
                       misnamed, lapsed, overwritten>>

DeleteFile(t) ==
    /\ pc[t] = "delete"
    /\ IF file[t] \in DOMAIN docs
       THEN docs' = [id \in DOMAIN docs \ {file[t]} |-> docs[id]] /\ Goto(t, "leave")
       ELSE Finish(t) /\ UNCHANGED docs
    /\ UNCHANGED <<entries, renter, writer, spent, history>>

\* The files found are pulled from the owner's list one by one, the folder
\* last; the first failure ends it.
RemoveFromDirectory(t) ==
    /\ pc[t] = "leave"
    /\ \E reply \in {"ok", "refused", "lost"}, done \in SUBSET (found[t] \cup {file[t]}) :
        /\ Reply(reply)
        /\ IF reply = "refused" THEN file[t] \notin done ELSE done = found[t] \cup {file[t]}
        /\ entries' = [entries EXCEPT ![Owner] = @ \ done]
        /\ IF reply = "ok" THEN Goto(t, "contents") ELSE Finish(t)
    /\ UNCHANGED <<docs, renter, writer, history>>

FirstOf(id) ==
    {o \in cache : objs[o].id = id /\ \A k \in cache : objs[k].id = id => o <= k}

\* The files whose blocks go: the children cached when the request began.
Emptied(t) == {file[t]} \cup {objs[k].id : k \in {j \in call[t].kids : ~objs[j].dir}}

\* removeFile takes the file out of the cache, removeDir pulls the list.
RemoveContents(t) ==
    /\ pc[t] = "contents"
    /\ blocks' = blocks \ Emptied(t)
    /\ IF call[t].old \in Folders /\ ~call[t].undo
       THEN GotoWith(t, "list", Nothing) /\ UNCHANGED cache
       ELSE Finish(t) /\ cache' = cache \ FirstOf(file[t])
    /\ UNCHANGED <<server, objs, made, writer, spent, history>>

-----------------------------------------------------------------------------
(* pullFiles: GET of the owner's files                                     *)

StartPull(t) ==
    /\ Begin(t, "list", 0, Nothing)
    /\ UNCHANGED <<server, renter, writer, history>>

ReadDirectory(t) ==
    /\ pc[t] = "list"
    /\ GotoWith(t, "read", [listed |-> entries[Owner]])
    /\ UNCHANGED <<server, renter, writer, spent, history>>

ReadFiles(t) ==
    /\ pc[t] = "read"
    /\ GotoWith(t, "replace", [body |-> Restrict(docs, call[t].listed \cap DOMAIN docs)])
    /\ UNCHANGED <<server, renter, writer, spent, history>>

ReplaceFiles(t) ==
    LET body == call[t].body
        ids == SetToSeq(DOMAIN body)
    IN  /\ pc[t] = "replace"
        /\ objs' = objs \o [k \in DOMAIN ids |-> Object(ids[k], body[ids[k]])]
        /\ cache' = Len(objs) + 1..Len(objs')
        /\ Finish(t)
        /\ UNCHANGED <<server, blocks, made, writer, spent, history>>

-----------------------------------------------------------------------------
(* RenameFile, and PUT of a whole file                                     *)

\* The children are renamed in the cache at once; no error takes that back.
StartRename(t) ==
    \E o \in cache : \E name \in Names \ CachedNames :
        LET kids == IF objs[o].dir THEN CachedChildren(o) ELSE {}
        IN  /\ objs[o].dir <=> name \in Folders
            /\ Begin(t, "send", 0, [obj |-> o, name |-> name, kids |-> kids])
            /\ objs' = [i \in DOMAIN objs |->
                          IF i \in kids
                          THEN [objs[i] EXCEPT !.name = Moved(@, objs[o].name, name)]
                          ELSE objs[i]]
            /\ UNCHANGED <<server, blocks, cache, made, writer, history>>

\* The children are sent one by one, then the file itself.
Sent(t, kids, body, last) ==
    [obj |-> call[t].obj, name |-> call[t].name, kids |-> kids, body |-> body,
     last |-> last, old |-> <<>>, items |-> {}]

SendFile(t) ==
    /\ pc[t] = "send"
    /\ \/ \E k \in call[t].kids :
            /\ GotoWith(t, "put", Sent(t, call[t].kids \ {k}, objs[k], FALSE))
            /\ UNCHANGED objs
       \/ /\ call[t].kids = {}
          /\ objs' = [objs EXCEPT ![call[t].obj].name = call[t].name]
          /\ GotoWith(t, "put", Sent(t, {}, objs'[call[t].obj], TRUE))
    /\ UNCHANGED <<server, blocks, cache, made, writer, spent, history>>

\* putFileHandler: the file is read; if a folder changes its name, the files
\* that are under the one read are found by a call of their own.
PutFile(t) ==
    LET body == call[t].body
        renames == docs[body.id].dir /\ body.name # docs[body.id].name
    IN  /\ pc[t] = "put"
        /\ IF body.id \in DOMAIN docs
           THEN GotoWith(t, IF renames THEN "rename" ELSE "update",
                         [call[t] EXCEPT !.old = docs[body.id].name])
           ELSE Finish(t)
        /\ UNCHANGED <<server, renter, writer, spent, history>>

Renamed(old, new) ==
    {Object(i, [docs[i] EXCEPT !.name = Moved(@, old, new)]) : i \in Children(old)}

FindRenamed(t) ==
    /\ pc[t] = "rename"
    /\ GotoWith(t, "update", [call[t] EXCEPT !.items = Renamed(call[t].old, call[t].body.name)])
    /\ UNCHANGED <<server, renter, writer, spent, history>>

\* UpdateFile: a document is replaced whole.
Replace(body) ==
    /\ docs' = [docs EXCEPT ![body.id] = [name |-> body.name, dir |-> body.dir,
                                          acl |-> body.acl]]
    /\ lapsed' = lapsed \cup {<<body.id, u>> : u \in docs[body.id].acl \ body.acl}

Replaceable(body) == body.id \in DOMAIN docs /\ ~Taken(body.id, body.name)

\* What a removal will pull from the list, and what the renter will empty.
Doomed(t) == found[t] \cup {objs[k].id : k \in call[t].kids}

\* The files that a change of name takes out of a removal under way: what it is
\* about to remove itself, or what stays behind in a folder whose new name the
\* removal will read.
Overlapping(body) ==
    {id \in DOMAIN docs : \E u \in Threads :
        /\ body.name # docs[body.id].name
        /\ Removing(u) /\ id \in Doomed(u)
        /\ \/ id = body.id
           \/ /\ pc[u] = "find" /\ file[u] = body.id
              /\ Under(docs[body.id].name, docs[id].name)}

\* RenameFolder: child by child, each as it was found, up to the first that
\* fails.
RenameChild(t) ==
    /\ pc[t] = "update"
    /\ \E item \in call[t].items :
        IF Replaceable(item)
        THEN /\ Replace(item)
             /\ moved' = moved \cup Overlapping(item)
             /\ GotoWith(t, "update", [call[t] EXCEPT !.items = @ \ {item}])
        ELSE Finish(t) /\ UNCHANGED <<docs, lapsed, moved>>
    /\ UNCHANGED <<entries, renter, writer, spent, acked, asked, shares, withdrawn, cut,
                   misnamed, swept, overwritten>>

UpdateFile(t) ==
    LET body == call[t].body
        fits == Replaceable(body)
    IN  /\ pc[t] = "update"
        /\ call[t].items = {}
        /\ \E reply \in {"ok", "refused", "lost"} :
            /\ Reply(reply)
            /\ ~fits => reply = "ok"
            /\ IF fits /\ reply # "refused"
               THEN Replace(body) /\ moved' = moved \cup Overlapping(body)
               ELSE UNCHANGED <<docs, lapsed, moved>>
            /\ IF fits /\ reply = "ok" /\ ~call[t].last
               THEN GotoWith(t, "send", [obj |-> call[t].obj, name |-> call[t].name,
                                         kids |-> call[t].kids])
               ELSE Finish(t)
        /\ UNCHANGED <<entries, renter, writer, acked, asked, shares, withdrawn, cut,
                       misnamed, swept, overwritten>>

-----------------------------------------------------------------------------
(* Sharing                                                                 *)

StartShare(t) ==
    \E o \in {k \in cache : ~objs[k].dir}, u \in Sharees :
        /\ Begin(t, "permit", objs[o].id, [obj |-> o, with |-> u])
        /\ UNCHANGED <<server, renter, writer, history>>

SetPermissions(id, acl) ==
    docs' = [docs EXCEPT ![id] = [name |-> docs[id].name, dir |-> docs[id].dir, acl |-> acl]]

\* postFilePermissionHandler.  Who is on the list already is refused.
AddPermission(t) ==
    LET u == call[t].with
    IN  /\ pc[t] = "permit"
        /\ IF file[t] \in DOMAIN docs /\ u \notin docs[file[t]].acl
           THEN /\ SetPermissions(file[t], docs[file[t]].acl \cup {u})
                /\ Goto(t, "share")
           ELSE Finish(t) /\ UNCHANGED docs
        /\ UNCHANGED <<entries, renter, writer, spent, history>>

\* Mutant of AfterSharing: the error of the second call is ignored.
AfterSharingAlways(reply) == "note"

AfterSharing(reply) == IF reply = "ok" THEN "note" ELSE "failed"

AddToSharedDirectory(t) ==
    /\ pc[t] = "share"
    /\ \E reply \in {"ok", "refused", "lost"} :
        /\ Reply(reply)
        /\ entries' = IF reply = "refused" THEN entries
                      ELSE [entries EXCEPT ![call[t].with] = @ \cup {file[t]}]
        /\ IF AfterSharing(reply) = "note" THEN Goto(t, "note") ELSE Finish(t)
    /\ UNCHANGED <<docs, renter, writer, history>>

\* ShareFile: the permission is appended to the file object's list.
NoteShare(t) ==
    /\ pc[t] = "note"
    /\ objs' = [objs EXCEPT ![call[t].obj].acl = @ \cup {call[t].with}]
    /\ shares' = shares \cup {<<file[t], call[t].with>>}
    /\ Finish(t)
    /\ UNCHANGED <<server, blocks, cache, made, writer, spent, acked, asked, withdrawn, cut,
                   moved, misnamed, swept, lapsed, overwritten>>

\* deleteFilePermissionHandler.
StartUnshare(t) ==
    \E id \in DOMAIN docs, u \in Sharees :
        /\ Begin(t, "forbid", id, [with |-> u])
        /\ withdrawn' = withdrawn \cup {<<id, u>>}
        /\ UNCHANGED <<server, renter, writer, acked, asked, shares, cut, moved, misnamed,
                       swept, lapsed, overwritten>>

RemovePermission(t) ==
    LET u == call[t].with
    IN  /\ pc[t] = "forbid"
        /\ IF file[t] \in DOMAIN docs /\ u \in docs[file[t]].acl
           THEN /\ SetPermissions(file[t], docs[file[t]].acl \ {u})
                /\ Goto(t, "unshare")
           ELSE Finish(t) /\ UNCHANGED docs
        /\ UNCHANGED <<entries, renter, writer, spent, history>>

RemoveFromSharedDirectory(t) ==
    /\ pc[t] = "unshare"
    /\ entries' = [entries EXCEPT ![call[t].with] = @ \ {file[t]}]
    /\ Finish(t)
    /\ UNCHANGED <<docs, renter, writer, spent, history>>

\* deleteSharedFileHandler: the sharee drops its entry; the permission stays.
RemoveSharedFile(u) ==
    \E id \in entries[u] :
        /\ spent.requests < MaxRequests
        /\ Spend("requests")
        /\ entries' = [entries EXCEPT ![u] = @ \ {id}]
        /\ withdrawn' = withdrawn \cup {<<id, u>>}
        /\ UNCHANGED <<docs, renter, request, writer, acked, asked, shares, cut, moved,
                       misnamed, swept, lapsed, overwritten>>

-----------------------------------------------------------------------------
(* A renter's document read, changed and written whole by other handlers   *)

ReadUser(u) ==
    /\ writer = {}
    /\ spent.writes < MaxWrites
    /\ writer' = {[user |-> u, listed |-> entries[u]]}
    /\ Spend("writes")
    /\ UNCHANGED <<server, renter, request, history>>

WriteUser(w) ==
    /\ entries' = [entries EXCEPT ![w.user] = w.listed]
    /\ overwritten' = overwritten \cup {<<w.user, id>> : id \in entries[w.user] \ w.listed}
    /\ writer' = {}
    /\ UNCHANGED <<docs, renter, request, spent, acked, asked, shares, withdrawn, cut,
                   moved, misnamed, swept, lapsed>>

Serve(t) ==
    \/ InsertFile(t) \/ AddToDirectory(t) \/ SaveFile(t) \/ UndoPost(t)
    \/ FindFile(t) \/ FindChildren(t) \/ RemoveChildren(t) \/ DeleteFile(t)
    \/ RemoveFromDirectory(t) \/ RemoveContents(t)
    \/ ReadDirectory(t) \/ ReadFiles(t) \/ ReplaceFiles(t)
    \/ SendFile(t) \/ PutFile(t) \/ FindRenamed(t) \/ RenameChild(t) \/ UpdateFile(t)
    \/ AddPermission(t) \/ AddToSharedDirectory(t) \/ NoteShare(t)
    \/ RemovePermission(t) \/ RemoveFromSharedDirectory(t)

Next ==
    \/ \E t \in Threads :
         \/ StartCreate(t) \/ StartUploadDir(t) \/ StartRemove(t) \/ StartPull(t)
         \/ StartRename(t) \/ StartShare(t) \/ StartUnshare(t)
         \/ Serve(t)
    \/ \E u \in Sharees : RemoveSharedFile(u)
    \/ \E u \in Users : ReadUser(u)
    \/ \E w \in writer : WriteUser(w)

Spec == Init /\ [][Next]_vars

-----------------------------------------------------------------------------
Document == [name : Seq(UNION {Range(n) : n \in Names}), dir : BOOLEAN, acl : SUBSET Sharees]

\* Among the types: two documents never have one name.
TypeOK ==
    /\ DOMAIN docs \subseteq 1..made
    /\ \A id \in DOMAIN docs : docs[id] \in Document
    /\ \A i, j \in DOMAIN docs : docs[i].name = docs[j].name => i = j
    /\ entries \in [Users -> SUBSET (1..made)]
    /\ blocks \subseteq 1..made
    /\ cache \subseteq DOMAIN objs
    /\ made \in Nat

\* Posting: the document is in, the directory entry is not yet.
Entering(id) == \E t \in Threads : pc[t] = "enter" /\ file[t] = id

\* A document is listed in its owner's directory, where alone pullFiles looks
\* for it, although documents and directory are two collections that several
\* handlers change in steps.  Three mishaps hide a file: a POST cut off
\* between its two writes (files.go:115), a rename of a file that the removal of its
\* folder has found (mongoDB.go:508 finds, :514 removes), and the owner's
\* document written back whole from before (contracts.go:94, paypal.go:162).
FilesAreFound ==
    \A id \in DOMAIN docs :
        \/ id \in entries[Owner] \/ Entering(id)
        \/ id \in cut \cup moved \/ <<Owner, id>> \in overwritten

\* A file saved stays, with its blocks, until it or a folder it is in is
\* asked to be removed; but for three mishaps.  A rename takes a file out of
\* a folder that is being removed, which loses its blocks all the same
\* (renter.go:501).  A file loses them too that the cache alone has in the
\* folder when its removal starts: a rename changes the cached names before
\* it sends them, and leaves them when it is refused (renter.go:424, :438); or
\* a list read before a rename came after it.  And the children are removed by
\* name, so whatever is under that name goes, if the folder was renamed or
\* removed by others since, or is a failed upload's (upload.go:283).
SavedIsKept ==
    \A id \in acked \ (asked \cup moved \cup misnamed \cup swept) :
        id \in DOMAIN docs /\ (docs[id].dir \/ id \in blocks)

\* A share that was answered holds in both places, the file's access list
\* and the sharee's directory, until one of the two asks to end it; but for a
\* PUT of the whole file from before the share (files.go:259), and the
\* sharee's document written back whole from before.
SharesHold ==
    \A s \in shares \ withdrawn :
        s[1] \in DOMAIN docs =>
            /\ s[2] \in docs[s[1]].acl \/ s \in lapsed
            /\ s[1] \in entries[s[2]] \/ <<s[2], s[1]>> \in overwritten
=============================================================================
