------------------------- MODULE FileVersionsProofs -------------------------
(***************************************************************************)
(* The safety of one file's versions, for any number of requests,          *)
(* providers, blocks and mishaps.  The parts of the invariant:             *)
(*                                                                         *)
(*   TypesInv    what everybody holds: the renter's objects are lengths    *)
(*               within arrays that no two of them share, and what the     *)
(*               requests and the restorer point to is there: TypeCorrect; *)
(*   StoreInv    what a provider counted covers the blocks it has;         *)
(*   SpaceInv    the freelist, with the blobs the restorer keeps, and the  *)
(*               freelist of the snapshot fit each contract: SpaceReal;    *)
(*   IdsInv      a version is nobody's until it is posted, and the copies  *)
(*               of one upload have one number;                            *)
(*   StoredInv   the copies of what is listed have their blocks, and the   *)
(*               number a removal deleted is not listed: ListedStored;     *)
(*   NumbersInv  no list has a number twice, what a removal deletes was    *)
(*               asked for, and what was acknowledged is listed, while no  *)
(*               object has a wrong number: KeptVersions.                  *)
(*                                                                         *)
(* Everything turns on one relation: after any step, each copy of a        *)
(* version that anybody has comes from a copy there was, with its blocks   *)
(* where they were or moved by the restorer, or was just pushed, or was    *)
(* made by the renter when it could not be refreshed (Source, CopiesStep). *)
(***************************************************************************)
EXTENDS FileVersions, DataLemmas, TLAPS

-----------------------------------------------------------------------------
(* The types of what everybody holds (TypesInv).                           *)

Idle == [pc : {"idle"}]
Upload == [pc : {"draw", "push", "undo", "deletePrevious", "removePrevious", "refresh"},
           e : Nat, over : BOOLEAN, version : Version, num : Nat, slot : Nat \X Nat]
Removal == [pc : {"deleteVersion", "removeVersion"}, e : Nat, num : Nat, slot : Nat \X Nat]
OfFile == [pc : {"deleteFile", "removeFile", "send"}, e : Nat]
Sending == [pc : {"put"}, body : Seq(Version)]
Pulling == [pc : {"pull"}, there : BOOLEAN, body : Seq(Version)]
State == Idle \cup Upload \cup Removal \cup OfFile \cup Sending \cup Pulling

Object == [there : BOOLEAN, arr : Nat, len : Nat]
Snapshot == [there : BOOLEAN, versions : Seq(Version), free : [Providers -> Nat]]
Batch == [id : Nat, version : Version, blocks : SUBSET Blocks]
Resting == [pc : {"idle"}]
Storing == [pc : {"round"}, num : Nat, new : Version, arr : Nat, todo : Seq(Blocks),
            excluded : SUBSET Providers, back : [Providers -> Nat]]
Writing == [pc : {"put"}, body : Seq(Version), e : Nat, slot : Nat, old : Version]
Spending == [requests : Nat, uploads : Uploads, faults : Nat, corrupt : Nat,
             crashes : Nat, batches : Nat, audits : Nat]

\* An object is a length within its array, and no two share an array.
Objects ==
    /\ arrays \in Seq(Seq(Version))
    /\ list \in Seq(Object) /\ list # <<>>
    /\ \A e \in DOMAIN list : list[e].arr \in DOMAIN arrays
                              /\ list[e].len <= Len(arrays[list[e].arr])
    /\ \A e, f \in DOMAIN list : list[e].arr = list[f].arr => e = f

IsSlot(slot) == slot[1] \in DOMAIN arrays /\ slot[2] \in DOMAIN arrays[slot[1]]

Working(t) ==
    /\ thread[t].pc \notin {"idle", "put", "pull"} => thread[t].e \in DOMAIN list
    /\ thread[t].pc \in {"removePrevious", "deleteVersion", "removeVersion"} =>
          IsSlot(thread[t].slot)

Restoring ==
    /\ restorer.pc = "round" => restorer.arr \in DOMAIN arrays /\ IsInjective(restorer.todo)
    /\ restorer.pc = "put" => restorer.e \in DOMAIN list /\ restorer.slot # 0

TypesInv ==
    /\ doc = Gone \/ doc \in Seq(Version)
    /\ counter \in Nat
    /\ Objects /\ disk \in Snapshot
    /\ thread \in [Threads -> State] /\ \A t \in Threads : Working(t)
    /\ queue \subseteq Batch
    /\ restorer \in Resting \cup Storing \cup Writing /\ Restoring
    /\ auditor \in Seq(Version)
    /\ spent \in Spending
    /\ acked \subseteq Uploads /\ asked \subseteq Uploads
    /\ suspect \subseteq Uploads /\ dropped \subseteq Uploads /\ overtaken \subseteq Uploads
    /\ misnumbered \in BOOLEAN

-----------------------------------------------------------------------------
(* Lists, slots and slices.                                                *)

\* findVersion finds a version with the number.
LEMMA SlotOf ==
    ASSUME NEW s \in Seq(Version), NEW num \in Nums(s)
    PROVE  Slot(s, num) \in DOMAIN s /\ s[Slot(s, num)].num = num
<1> DEFINE I == {i \in DOMAIN s : s[i].num = num}
           J == {0 - i : i \in I}
<1>1. IsFiniteSet(I)
  <2>1. DOMAIN s = 1..Len(s) /\ IsFiniteSet(DOMAIN s)
    BY FS_Interval
  <2> QED  BY <2>1, FS_Subset
<1>2. IsFiniteSet(J)
  <2>1. [i \in I |-> 0 - i] \in Surjection(I, J)
    BY DEF Surjection
  <2> QED  BY <1>1, <2>1, FS_Surjection
<1>3. J # {} /\ J \subseteq Int
    BY DEF Nums
<1> HIDE DEF J
<1>4. PICK m \in J : \A y \in J : y <= m
    BY <1>2, <1>3, MaxExists
<1>5. PICK i \in I : m = 0 - i
    BY <1>4 DEF J
<1>6. ASSUME NEW j \in 1..(i - 1)  PROVE s[j].num # num
  <2>1. SUFFICES ASSUME j \in I  PROVE FALSE
    BY <1>5
  <2>2. 0 - j \in J
    BY <2>1 DEF J
  <2>3. 0 - j <= 0 - i
    BY <1>4, <1>5, <2>2
  <2> QED  BY <1>5, <2>3
<1>7. \E k \in DOMAIN s : s[k].num = num /\ \A j \in 1..(k - 1) : s[j].num # num
    BY <1>5, <1>6
<1> QED
    BY <1>7 DEF Slot

\* An object's versions.
LEMMA SliceOf ==
    ASSUME Objects, NEW e \in DOMAIN list
    PROVE  /\ list[e] \in Object /\ list[e].arr \in DOMAIN arrays
           /\ arrays[list[e].arr] \in Seq(Version)
           /\ Slice(list[e]) \in Seq(Version)
           /\ Len(Slice(list[e])) = list[e].len
           /\ list[e].len <= Len(arrays[list[e].arr])
           /\ \A i \in 1..list[e].len : Slice(list[e])[i] = arrays[list[e].arr][i]
<1>1. list[e] \in Object /\ list[e].arr \in DOMAIN arrays
    BY DEF Objects
<1>2. PICK a \in Seq(Version), n \in Nat :
          a = arrays[list[e].arr] /\ n = list[e].len /\ n <= Len(a)
    BY <1>1 DEF Objects, Object
<1>3. Slice(list[e]) = SubSeq(a, 1, n)
    BY <1>2 DEF Slice
<1>4. /\ SubSeq(a, 1, n) \in Seq(Version) /\ Len(SubSeq(a, 1, n)) = n
      /\ \A i \in 1..n : SubSeq(a, 1, n)[i] = a[i]
    BY <1>2
<1> QED
    BY <1>1, <1>2, <1>3, <1>4

\* The cache is an object.
LEMMA CacheIs ==
    ASSUME Objects  PROVE Len(list) \in DOMAIN list /\ Cached = list[Len(list)]
BY DEF Objects, Cached

\* What a slot points to.
LEMMA AtSlot ==
    ASSUME Objects, NEW slot, IsSlot(slot)
    PROVE  At(slot) \in Version /\ InList(arrays[slot[1]], At(slot))
BY DEF Objects, IsSlot, At, InList

\* The elements of a list that are in a set are no more than the list has.
LEMMA ThoseShorter ==
    ASSUME NEW T, NEW s \in Seq(T), NEW S, IsInjective(s)
    PROVE  Len(Those(s, S)) <= Len(s)
<1>1. PICK r \in Seq(T) : r = Those(s, S) /\ ToSet(r) \subseteq ToSet(s) /\ IsInjective(r)
  <2>1. Those(s, S) \in Seq(T)
    BY ThoseOf
  <2>2. ToSet(Those(s, S)) = ToSet(s) \cap S
    BY ThoseOf
  <2>3. IsInjective(Those(s, S))
    BY ThoseOf
  <2> QED  BY <2>1, <2>2, <2>3
<1>2. /\ IsFiniteSet(1..Len(s)) /\ Cardinality(1..Len(s)) = Len(s)
      /\ IsFiniteSet(1..Len(r)) /\ Cardinality(1..Len(r)) = Len(r)
  <2>1. \A n \in Nat : IsFiniteSet(1..n) /\ Cardinality(1..n) = n
    BY FS_Interval
  <2>2. Len(s) \in Nat /\ Len(r) \in Nat
    OBVIOUS
  <2> QED  BY <2>1, <2>2
<1>3. \A i \in 1..Len(r) : \E j \in 1..Len(s) : s[j] = r[i]
    BY <1>1 DEF ToSet
<1> DEFINE f == [i \in 1..Len(r) |-> CHOOSE j \in 1..Len(s) : s[j] = r[i]]
<1>4. \A i \in 1..Len(r) : f[i] \in 1..Len(s) /\ s[f[i]] = r[i]
    BY <1>3
<1> HIDE DEF f
<1>5. f \in Injection(1..Len(r), 1..Len(s))
  <2>1. ASSUME NEW i \in 1..Len(r), NEW j \in 1..Len(r), f[i] = f[j]  PROVE i = j
    <3>1. r[i] = r[j] /\ i \in DOMAIN r /\ j \in DOMAIN r
      BY <1>4, <2>1
    <3> QED  BY <1>1, <3>1 DEF IsInjective
  <2>2. f \in [1..Len(r) -> 1..Len(s)]
    BY <1>4 DEF f
  <2> QED  BY <2>1, <2>2 DEF Injection, IsInjective
<1>6. Cardinality(1..Len(r)) <= Cardinality(1..Len(s))
    BY <1>2, <1>5, FS_Injection
<1> QED
    BY <1>1, <1>2, <1>6

-----------------------------------------------------------------------------
(* What the steps do to the state of a request.                            *)

Turns(t, s) ==
    /\ s \in State /\ thread' \in [Threads -> State] /\ thread'[t] = s
    /\ \A u \in Threads \ {t} : thread'[u] = thread[u]

\* It is an upload of the same version and object still.
Keeps(t, s) ==
    /\ thread[t] \in Upload /\ s \in Upload
    /\ s.e = thread[t].e /\ s.version = thread[t].version

\* Each place has its state.
LEMMA States ==
    ASSUME NEW s \in State
    PROVE  /\ s.pc = "idle" <=> s \in Idle
           /\ s.pc \in {"draw", "push", "undo", "deletePrevious", "removePrevious", "refresh"}
                <=> s \in Upload
           /\ s.pc \in {"deleteVersion", "removeVersion"} <=> s \in Removal
           /\ s.pc \in {"deleteFile", "removeFile", "send"} <=> s \in OfFile
           /\ s.pc = "put" <=> s \in Sending
           /\ s.pc = "pull" <=> s \in Pulling
BY DEF State, Idle, Upload, Removal, OfFile, Sending, Pulling

\* A request gets a new state.
LEMMA TurnOn ==
    ASSUME thread \in [Threads -> State], NEW t \in Threads, NEW s \in State,
           thread' = [thread EXCEPT ![t] = s]
    PROVE  Turns(t, s)
BY DEF Turns

\* It ends.
LEMMA FinishOn ==
    ASSUME thread \in [Threads -> State], NEW t \in Threads, Finish(t)
    PROVE  \E s \in Idle : Turns(t, s)
<1>1. [pc |-> "idle"] \in Idle /\ [pc |-> "idle"] \in State
    BY DEF Idle, State
<1> QED
    BY <1>1, TurnOn DEF Finish

\* An upload goes on.
LEMMA GotoOn ==
    ASSUME thread \in [Threads -> State], NEW t \in Threads, thread[t] \in Upload,
           NEW where \in {"draw", "push", "undo", "deletePrevious", "removePrevious", "refresh"},
           Goto(t, where)
    PROVE  \E s \in Upload : Turns(t, s) /\ Keeps(t, s) /\ s.pc = where
<1>1. PICK r \in Upload : r = thread[t]
    OBVIOUS
<1>2. [r EXCEPT !.pc = where] \in Upload
    BY DEF Upload
<1>5. PICK s \in Upload : s = [r EXCEPT !.pc = where]
    BY <1>2
<1>6. s.pc = where /\ s.e = r.e /\ s.version = r.version
    BY <1>5 DEF Upload
<1>3. thread' = [thread EXCEPT ![t] = s]
    BY <1>1, <1>5 DEF Goto
<1>4. s \in State
    BY DEF State
<1> QED
    BY <1>1, <1>3, <1>4, <1>6, TurnOn DEF Keeps

\* The bounds.
LEMMA SpendOn ==
    ASSUME spent \in Spending,
           NEW what \in {"requests", "faults", "corrupt", "crashes", "batches", "audits"},
           Spend(what)
    PROVE  spent' \in Spending /\ spent'.uploads = spent.uploads
BY DEF Spend, Spending

\* The bounds, with an answer or a failure.
LEMMA ReplyOn ==
    ASSUME spent \in Spending, NEW reply, Reply(reply)
    PROVE  spent' \in Spending /\ spent'.uploads = spent.uploads
BY SpendOn DEF Reply

-----------------------------------------------------------------------------
(* The steps of the requests.                                              *)

\* The blocks of a version that are with p.
BlocksAt(v, p) == {<<v.up, i>> : i \in {j \in Blocks : v.at[j] = p}}

\* An upload gets the next ID; its blocks are stored where there is room.
LEMMA StartUploadOn ==
    ASSUME TypesInv, NEW t \in Threads, StartUpload(t)
    PROVE  \E s \in Upload :
              /\ Turns(t, s) /\ s.pc = "draw" /\ s.e = Len(list) /\ thread[t].pc = "idle"
              /\ s.version.num = 0 /\ s.version.up = spent.uploads + 1
              /\ spent' \in Spending /\ spent'.uploads = spent.uploads + 1
              /\ \A p \in Providers : Cardinality(BlocksAt(s.version, p)) <= free[p]
              /\ has' = [p \in Providers |-> has[p] \cup BlocksAt(s.version, p)]
              /\ used' = [p \in Providers |-> used[p] + Cardinality(BlocksAt(s.version, p))]
              /\ free' = [p \in Providers |-> free[p] - Cardinality(BlocksAt(s.version, p))]
              /\ since' = [p \in Providers |-> since[p] + Cardinality(BlocksAt(s.version, p))]
<1>1. PICK over \in BOOLEAN, at \in [Blocks -> Providers] :
        LET new(p) == {<<spent.uploads + 1, i>> : i \in {j \in Blocks : at[j] = p}}
            version == [num |-> 0, up |-> spent.uploads + 1, at |-> at]
        IN  /\ spent.uploads < MaxUploads
            /\ Begin(t, "upload", [pc |-> "draw", e |-> Len(list), over |-> over,
                                   version |-> version, num |-> 0, slot |-> <<0, 0>>])
            /\ \A p \in Providers : /\ Cardinality(new(p)) <= free[p]
                                    /\ Cardinality(new(p)) <= Capacity[p] - used[p]
            /\ has' = [p \in Providers |-> has[p] \cup new(p)]
            /\ used' = [p \in Providers |-> used[p] + Cardinality(new(p))]
            /\ free' = [p \in Providers |-> free[p] - Cardinality(new(p))]
            /\ since' = [p \in Providers |-> since[p] + Cardinality(new(p))]
            /\ spent' = [spent EXCEPT !.uploads = @ + 1, !.requests = @ + 1]
    BY DEF StartUpload
<1>2. PICK u \in Uploads : u = spent.uploads + 1
    BY <1>1, FileAssumption DEF TypesInv, Spending, Uploads
<1>3. PICK v \in Version : v = [num |-> 0, up |-> u, at |-> at] /\ v.up = u /\ v.num = 0 /\ v.at = at
  <2>1. [num |-> 0, up |-> u, at |-> at] \in Version
    BY DEF Version
  <2> QED  BY <2>1
<1>4. [pc |-> "draw", e |-> Len(list), over |-> over, version |-> v, num |-> 0, slot |-> <<0, 0>>]
        \in Upload
  <2>1. Len(list) \in Nat /\ <<0, 0>> \in Nat \X Nat
    BY DEF TypesInv, Objects
  <2> QED  BY <2>1 DEF Upload
<1>5. PICK s \in Upload : s = [pc |-> "draw", e |-> Len(list), over |-> over, version |-> v,
                               num |-> 0, slot |-> <<0, 0>>]
    BY <1>4
<1>6. s.pc = "draw" /\ s.e = Len(list) /\ s.version = v
    BY <1>5
<1>7. thread' = [thread EXCEPT ![t] = s] /\ thread[t].pc = "idle"
    BY <1>1, <1>2, <1>3, <1>5 DEF Begin
<1>8. Turns(t, s)
    BY <1>7, TurnOn DEF TypesInv, State
<1>9. spent' \in Spending /\ spent'.uploads = u
  <2>1. spent \in Spending /\ spent' = [spent EXCEPT !.uploads = @ + 1, !.requests = @ + 1]
    BY <1>1 DEF TypesInv
  <2>2. PICK k \in Nat : k = spent.requests + 1
    BY <2>1 DEF Spending
  <2>3. spent' = [spent EXCEPT !.uploads = u, !.requests = k]
    BY <1>2, <2>1, <2>2
  <2> QED  BY <2>1, <2>3 DEF Spending
<1>10. \A p \in Providers : BlocksAt(v, p) = {<<u, i>> : i \in {j \in Blocks : at[j] = p}}
    BY <1>3 DEF BlocksAt
<1>11. /\ \A p \in Providers : Cardinality(BlocksAt(v, p)) <= free[p]
       /\ has' = [p \in Providers |-> has[p] \cup BlocksAt(v, p)]
       /\ used' = [p \in Providers |-> used[p] + Cardinality(BlocksAt(v, p))]
       /\ free' = [p \in Providers |-> free[p] - Cardinality(BlocksAt(v, p))]
       /\ since' = [p \in Providers |-> since[p] + Cardinality(BlocksAt(v, p))]
  <2> HIDE DEF BlocksAt
  <2> QED  BY <1>1, <1>2, <1>10
<1> QED
    BY <1>2, <1>3, <1>6, <1>7, <1>8, <1>9, <1>11

\* To overwrite is to ask that the latest version go.
LEMMA StartUploadAsks ==
    ASSUME TypesInv, NEW t \in Threads, StartUpload(t)
    PROVE  asked \subseteq asked' /\ asked' \subseteq Uploads
<1>1. PICK over \in BOOLEAN :
          asked' = IF over /\ Cached.len > 0 THEN asked \cup {Last(Slice(Cached)).up} ELSE asked
    BY DEF StartUpload
<1>2. asked \subseteq Uploads
    BY DEF TypesInv
<1>3. CASE Cached.len > 0
  <2>1. PICK s \in Seq(Version) : s = Slice(Cached) /\ Len(s) = Cached.len
    BY CacheIs, SliceOf DEF TypesInv
  <2>2. Len(s) \in DOMAIN s /\ Last(s) = s[Len(s)]
    BY <1>3, <2>1 DEF Last
  <2>3. Last(s) \in Version
    BY <2>2
  <2> QED  BY <1>1, <1>2, <2>1, <2>3 DEF Version
<1> QED
    BY <1>1, <1>2, <1>3

\* A removal points to a slot of the cached object, and has its number.
LEMMA StartRemoveVersionOn ==
    ASSUME TypesInv, NEW t \in Threads, StartRemoveVersion(t)
    PROVE  \E s \in Removal : /\ Turns(t, s) /\ s.pc = "deleteVersion" /\ s.e = Len(list)
                              /\ IsSlot(s.slot) /\ At(s.slot) \in Version
                              /\ s.num = At(s.slot).num
                              /\ asked' = asked \cup {At(s.slot).up}
<1>1. PICK num \in Nums(Slice(Cached)) :
         LET slot == <<Cached.arr, Slot(Slice(Cached), num)>>
         IN  /\ Begin(t, "removeVersion",
                      [pc |-> "deleteVersion", e |-> Len(list), num |-> num, slot |-> slot])
             /\ asked' = asked \cup {At(slot).up}
    BY DEF StartRemoveVersion
<1>2. PICK a \in Nat, n \in Nat, e \in Nat :
          /\ a = Cached.arr /\ n = Slot(Slice(Cached), num) /\ e = Len(list)
          /\ a \in DOMAIN arrays /\ n \in DOMAIN arrays[a]
          /\ arrays[a][n] \in Version /\ arrays[a][n].num = num
  <2>1. Len(list) \in DOMAIN list /\ Cached = list[Len(list)]
    BY CacheIs DEF TypesInv
  <2>2. /\ list[Len(list)] \in Object /\ Cached.arr \in DOMAIN arrays
        /\ arrays[Cached.arr] \in Seq(Version) /\ Slice(Cached) \in Seq(Version)
        /\ Len(Slice(Cached)) = Cached.len /\ Cached.len <= Len(arrays[Cached.arr])
    BY <2>1, SliceOf DEF TypesInv
  <2>3. PICK i : /\ i = Slot(Slice(Cached), num) /\ i \in DOMAIN Slice(Cached)
                 /\ Slice(Cached)[i].num = num
    BY <2>2, SlotOf
  <2>4. i \in 1..Len(Slice(Cached)) /\ i \in 1..Len(arrays[Cached.arr])
    BY <2>2, <2>3
  <2>5. Len(list) \in Nat /\ Cached.arr \in Nat
    BY <2>1, <2>2 DEF TypesInv, Objects, Object
  <2>6. Slice(Cached)[i] = arrays[Cached.arr][i]
    BY <2>1, <2>2, <2>4, SliceOf DEF TypesInv
  <2>7. arrays[Cached.arr][i] \in Version
    BY <2>2, <2>4
  <2> QED  BY <2>2, <2>3, <2>4, <2>5, <2>6, <2>7
<1>3. PICK s \in Removal : s = [pc |-> "deleteVersion", e |-> e, num |-> num, slot |-> <<a, n>>]
  <2>1. <<a, n>> \in Nat \X Nat /\ num \in Nat
    BY <1>2 DEF Version
  <2> QED  BY <2>1 DEF Removal
<1>4. s.pc = "deleteVersion" /\ s.e = Len(list) /\ s.num = num /\ s.slot = <<a, n>>
    BY <1>2, <1>3
<1>5. Turns(t, s)
    BY <1>1, <1>2, <1>3, TurnOn DEF TypesInv, State, Begin
<1>6. At(s.slot) = arrays[a][n] /\ asked' = asked \cup {arrays[a][n].up}
    BY <1>1, <1>2, <1>4 DEF At
<1> QED
    BY <1>2, <1>4, <1>5, <1>6 DEF IsSlot

\* So do the removal of a file and the rename begin with the cached object.
LEMMA StartOfFileOn ==
    ASSUME TypesInv, NEW t \in Threads, StartRemoveFile(t) \/ StartRename(t)
    PROVE  \E s \in OfFile : /\ Turns(t, s) /\ s.pc \in {"deleteFile", "send"} /\ s.e = Len(list)
<1>1. PICK where \in {"deleteFile", "send"} :
          thread' = [thread EXCEPT ![t] = [pc |-> where, e |-> Len(list)]]
    BY DEF StartRemoveFile, StartRename, Begin
<1>2. Len(list) \in Nat
    BY DEF TypesInv, Objects
<1>3. PICK s \in OfFile : s = [pc |-> where, e |-> Len(list)]
    BY <1>2 DEF OfFile
<1>4. Turns(t, s)
    BY <1>1, <1>3, TurnOn DEF TypesInv, State
<1> QED
    BY <1>3, <1>4

\* The document is read for a pull.
LEMMA ReadListOn ==
    ASSUME TypesInv, NEW t \in Threads, ReadList(t)
    PROVE  \E s \in Pulling : Turns(t, s) /\ s.body = IF doc = Gone THEN <<>> ELSE doc
<1>1. PICK body \in Seq(Version) : body = IF doc = Gone THEN <<>> ELSE doc
  <2>1. <<>> \in Seq(Version) /\ (doc # Gone => doc \in Seq(Version))
    BY DEF TypesInv
  <2> QED  BY <2>1
<1>2. PICK there \in BOOLEAN : there = (doc # Gone)
    OBVIOUS
<1>3. PICK s \in Pulling : s = [pc |-> "pull", there |-> there, body |-> body]
    BY DEF Pulling
<1>4. thread' = [thread EXCEPT ![t] = s]
    BY <1>1, <1>2, <1>3 DEF ReadList, Begin
<1>5. Turns(t, s)
    BY <1>4, TurnOn DEF TypesInv, State
<1> QED
    BY <1>1, <1>3, <1>5

\* A number is drawn, or the upload is undone.
LEMMA DrawNumberOn ==
    ASSUME TypesInv, NEW t \in Threads, DrawNumber(t)
    PROVE  /\ spent' \in Spending /\ spent'.uploads = spent.uploads
           /\ thread[t].pc = "draw"
           /\ \E s \in Upload :
                 /\ Turns(t, s) /\ Keeps(t, s)
                 /\ \/ s.pc = "push" /\ s.num = counter + 1 /\ counter' = counter + 1
                    \/ s.pc = "undo" /\ counter' = counter
<1>1. PICK reply \in {"ok", "refused"} :
        /\ Reply(reply)
        /\ IF reply = "ok" /\ doc # Gone
           THEN /\ counter' = NextNumber
                /\ thread' = [thread EXCEPT ![t].pc = "push", ![t].num = NextNumber]
           ELSE Goto(t, "undo") /\ UNCHANGED counter
    BY DEF DrawNumber
<1>2. thread[t].pc = "draw" /\ thread \in [Threads -> State] /\ counter \in Nat
    BY DEF DrawNumber, TypesInv
<1>3. PICK r \in Upload : r = thread[t]
    BY <1>2, States
<1>4. spent' \in Spending /\ spent'.uploads = spent.uploads
    BY <1>1, ReplyOn DEF TypesInv
<1>5. CASE reply = "ok" /\ doc # Gone
  <2>1. [r EXCEPT !.pc = "push", !.num = counter + 1] \in Upload
    <3>1. PICK n \in Nat : n = counter + 1
      BY <1>2
    <3>2. [r EXCEPT !.pc = "push", !.num = n] \in Upload
      BY DEF Upload
    <3> QED  BY <3>1, <3>2
  <2>2. PICK s \in Upload : s = [r EXCEPT !.pc = "push", !.num = counter + 1]
    BY <2>1
  <2>3. s.pc = "push" /\ s.num = counter + 1 /\ s.e = r.e /\ s.version = r.version
    BY <2>2 DEF Upload
  <2>4. thread' = [thread EXCEPT ![t] = s] /\ counter' = counter + 1
    BY <1>1, <1>2, <1>3, <1>5, <2>2 DEF NextNumber
  <2>5. Turns(t, s)
    BY <1>2, <2>4, TurnOn DEF State
  <2> QED  BY <1>2, <1>3, <1>4, <2>3, <2>4, <2>5 DEF Keeps
<1>6. CASE ~(reply = "ok" /\ doc # Gone)
  <2>1. Goto(t, "undo") /\ counter' = counter
    BY <1>1, <1>6
  <2>2. PICK s \in Upload : Turns(t, s) /\ Keeps(t, s) /\ s.pc = "undo"
    BY <1>2, <1>3, <2>1, GotoOn
  <2> QED  BY <1>2, <1>4, <2>1, <2>2
<1> QED
    BY <1>5, <1>6

\* The version as it is pushed.
Pushed(t) == [thread[t].version EXCEPT !.num = thread[t].num]

\* The version is pushed; if that is not known, it is suspect and undone.
LEMMA PushVersionOn ==
    ASSUME TypesInv, NEW t \in Threads, PushVersion(t)
    PROVE  /\ spent' \in Spending /\ spent'.uploads = spent.uploads
           /\ thread[t].pc = "push" /\ Pushed(t) \in Version
           /\ Pushed(t).up = thread[t].version.up /\ Pushed(t).num = thread[t].num
           /\ Pushed(t).at = thread[t].version.at
           /\ doc' = IF doc = Gone THEN Gone ELSE Append(doc, Pushed(t))
           /\ acked' \subseteq acked \cup {Pushed(t).up}
           /\ suspect \subseteq suspect' /\ suspect' \subseteq suspect \cup {Pushed(t).up}
           /\ doc = Gone => acked' = acked
           /\ \E s \in Upload :
                 /\ Turns(t, s) /\ Keeps(t, s) /\ s.pc \in {"undo", "deletePrevious", "refresh"}
                 /\ s.pc = "undo" => doc' = Gone \/ s.version.up \in suspect'
<1>1. thread[t].pc = "push" /\ thread \in [Threads -> State]
    BY DEF PushVersion, TypesInv
<1>2. PICK r \in Upload : r = thread[t]
    BY <1>1, States
<1>3. /\ Pushed(t) \in Version /\ Pushed(t).up = r.version.up /\ Pushed(t).num = r.num
      /\ Pushed(t).at = r.version.at
  <2>1. PICK v \in Version, n \in Nat : v = r.version /\ n = r.num
    BY DEF Upload
  <2>2. Pushed(t) = [v EXCEPT !.num = n]
    BY <1>2, <2>1 DEF Pushed
  <2>3. [v EXCEPT !.num = n] \in Version /\ [v EXCEPT !.num = n].up = v.up
        /\ [v EXCEPT !.num = n].num = n /\ [v EXCEPT !.num = n].at = v.at
    BY DEF Version
  <2> QED  BY <2>1, <2>2, <2>3
<1> DEFINE where(reply) == IF doc = Gone \/ reply = "lost" THEN "undo"
                           ELSE IF thread[t].over THEN "deletePrevious" ELSE "refresh"
<1>4. PICK reply \in {"ok", "lost"} :
        /\ Reply(reply)
        /\ doc = Gone => reply = "ok"
        /\ doc' = IF doc = Gone THEN Gone ELSE Append(doc, Pushed(t))
        /\ Goto(t, where(reply))
        /\ acked' = IF doc # Gone /\ reply = "ok" THEN acked \cup {Pushed(t).up} ELSE acked
        /\ suspect' = IF reply = "lost" THEN suspect \cup {Pushed(t).up} ELSE suspect
    BY DEF PushVersion, Pushed
<1>5. PICK w \in {"undo", "deletePrevious", "refresh"} : w = where(reply)
    OBVIOUS
<1>6. PICK s \in Upload : Turns(t, s) /\ Keeps(t, s) /\ s.pc = w
    BY <1>1, <1>2, <1>4, <1>5, GotoOn
<1>7. s.pc = "undo" => doc' = Gone \/ s.version.up \in suspect'
    BY <1>2, <1>3, <1>4, <1>5, <1>6 DEF Keeps
<1>8. spent' \in Spending /\ spent'.uploads = spent.uploads
    BY <1>4, ReplyOn DEF TypesInv
<1> QED
    BY <1>1, <1>2, <1>3, <1>4, <1>5, <1>6, <1>7, <1>8

\* The versions with the number are taken out.
Deletes(num) == doc # Gone /\ doc' = PullVersions(num)

\* The call to delete the versions with a number.
LEMMA CallOn ==
    ASSUME TypesInv, NEW t \in Threads, NEW num, NEW answered, NEW failed,
           CallDeleteVersion(t, num, answered, failed)
    PROVE  /\ spent' \in Spending /\ spent'.uploads = spent.uploads
           /\ doc' = doc \/ Deletes(num)
           /\ \E s \in {answered, failed} :
                 /\ thread' = [thread EXCEPT ![t] = s]
                 /\ s = failed \/ Deletes(num)
<1>1. PICK reply \in Replies :
        /\ Reply(reply)
        /\ doc = Gone => reply = "ok"
        /\ doc' = IF doc = Gone \/ reply = "refused" THEN doc ELSE PullVersions(num)
        /\ thread' = [thread EXCEPT ![t] = AfterDelete(reply, answered, failed)]
    BY DEF CallDeleteVersion
<1>2. spent' \in Spending /\ spent'.uploads = spent.uploads
    BY <1>1, ReplyOn DEF TypesInv
<1>3. doc' = doc \/ Deletes(num)
    BY <1>1 DEF Deletes
<1>4. \/ AfterDelete(reply, answered, failed) = failed
      \/ Deletes(num) /\ AfterDelete(reply, answered, failed) = answered
  <2>1. CASE doc # Gone /\ reply = "ok"
    BY <1>1, <2>1 DEF Deletes, AfterDelete
  <2>2. CASE ~(doc # Gone /\ reply = "ok")
    BY <2>2 DEF AfterDelete
  <2> QED  BY <2>1, <2>2
<1> QED
    BY <1>1, <1>2, <1>3, <1>4

\* The version to overwrite is deleted by its number, and its slot kept; or the
\* document is asked for.  A version that nobody asked to remove is noted.
LEMMA DeletePreviousOn ==
    ASSUME TypesInv, NEW t \in Threads, DeletePrevious(t)
    PROVE  /\ spent' \in Spending /\ spent'.uploads = spent.uploads
           /\ \/ doc' = doc
              \/ \E slot : /\ IsSlot(slot) /\ Deletes(At(slot).num)
                           /\ At(slot).up \in asked \cup overtaken'
           /\ overtaken \subseteq overtaken' /\ overtaken' \subseteq Uploads
           /\ \E s \in State :
                 /\ Turns(t, s)
                 /\ \/ s \in Idle
                    \/ Keeps(t, s) /\ s.pc = "refresh"
                    \/ /\ Keeps(t, s) /\ s.pc = "removePrevious" /\ IsSlot(s.slot)
                       /\ s.num = At(s.slot).num /\ Deletes(s.num)
<1>1. thread[t].pc = "deletePrevious" /\ thread \in [Threads -> State] /\ spent \in Spending
    BY DEF DeletePrevious, TypesInv
<1>2. PICK r \in Upload : r = thread[t]
    BY <1>1, States
<1>3. r.e \in DOMAIN list /\ Objects
    BY <1>1, <1>2 DEF TypesInv, Working
<1>4. CASE list[r.e].len = 0
  <2>1. Finish(t) /\ UNCHANGED <<doc, spent, overtaken>>
    BY <1>2, <1>4 DEF DeletePrevious
  <2>2. \E s \in Idle : Turns(t, s)
    BY <1>1, <2>1, FinishOn
  <2>3. overtaken \subseteq Uploads
    BY DEF TypesInv
  <2> QED  BY <1>1, <2>1, <2>2, <2>3 DEF State
<1>5. CASE list[r.e].len # 0
  <2>1. PICK a \in Nat, n \in Nat : /\ a = list[r.e].arr /\ n = list[r.e].len
                                    /\ a \in DOMAIN arrays /\ n \in DOMAIN arrays[a]
    <3>1. /\ list[r.e] \in Object /\ list[r.e].arr \in DOMAIN arrays
          /\ arrays[list[r.e].arr] \in Seq(Version) /\ list[r.e].len <= Len(arrays[list[r.e].arr])
      BY <1>3, SliceOf
    <3>2. list[r.e].arr \in Nat /\ list[r.e].len \in Nat
      BY <3>1 DEF Object
    <3> QED  BY <1>5, <3>1, <3>2
  <2> DEFINE slot == <<a, n>>
  <2>2. IsSlot(slot) /\ At(slot) = arrays[a][n] /\ slot \in Nat \X Nat
    BY <2>1 DEF IsSlot, At
  <2> HIDE DEF slot
  <2>20. At(slot) \in Version
    BY <1>3, <2>2, AtSlot
  <2>21. PICK num \in Nat : num = At(slot).num
    BY <2>20 DEF Version
  <2>3. PICK s \in Upload : s = [r EXCEPT !.pc = "removePrevious", !.num = num, !.slot = slot]
    BY <2>2 DEF Upload
  <2>4. /\ s.pc = "removePrevious" /\ s.num = num /\ s.slot = slot
        /\ s.e = r.e /\ s.version = r.version
    BY <2>3 DEF Upload
  <2>5. PICK x \in Upload : x = [r EXCEPT !.pc = "refresh"]
    BY DEF Upload
  <2>6. x.pc = "refresh" /\ x.e = r.e /\ x.version = r.version
    BY <2>5 DEF Upload
  <2>7. /\ CallDeleteVersion(t, num, s, x)
        /\ overtaken' = overtaken \cup (IF doc' = doc THEN {} ELSE {At(slot).up} \ asked)
    BY <1>2, <1>5, <2>1, <2>2, <2>21, <2>3, <2>5 DEF DeletePrevious, slot
  <2>8. /\ spent' \in Spending /\ spent'.uploads = spent.uploads
        /\ doc' = doc \/ Deletes(num)
        /\ \E y \in {s, x} : /\ thread' = [thread EXCEPT ![t] = y]
                             /\ y = x \/ Deletes(num)
    BY <2>7, CallOn
  <2>9. /\ overtaken \subseteq overtaken' /\ overtaken' \subseteq Uploads
        /\ doc' = doc \/ At(slot).up \in asked \cup overtaken'
    BY <2>7, <2>20 DEF TypesInv, Version
  <2>10. s \in State /\ x \in State /\ Keeps(t, s) /\ Keeps(t, x)
    BY <1>2, <2>4, <2>6 DEF State, Keeps
  <2>11. PICK y \in {s, x} : Turns(t, y) /\ (y = x \/ Deletes(num))
    BY <1>1, <2>8, <2>10, TurnOn
  <2>12. \/ Keeps(t, y) /\ y.pc = "refresh"
         \/ /\ Keeps(t, y) /\ y.pc = "removePrevious" /\ IsSlot(y.slot)
            /\ y.num = At(y.slot).num /\ Deletes(y.num)
    BY <2>2, <2>21, <2>4, <2>6, <2>10, <2>11
  <2> QED  BY <2>2, <2>21, <2>8, <2>9, <2>10, <2>11, <2>12
<1> QED
    BY <1>4, <1>5

\* The number asked for is deleted, and the slot kept.
LEMMA DeleteVersionOn ==
    ASSUME TypesInv, NEW t \in Threads, DeleteVersion(t)
    PROVE  /\ spent' \in Spending /\ spent'.uploads = spent.uploads
           /\ thread[t].pc = "deleteVersion"
           /\ doc' = doc \/ Deletes(thread[t].num)
           /\ \E s \in State :
                 /\ Turns(t, s)
                 /\ \/ s \in Idle
                    \/ /\ s \in Removal /\ s.pc = "removeVersion" /\ s.e = thread[t].e
                       /\ thread[t] \in Removal /\ IsSlot(s.slot)
                       /\ s.num = thread[t].num /\ Deletes(s.num)
<1>1. thread[t].pc = "deleteVersion" /\ thread \in [Threads -> State] /\ spent \in Spending
    BY DEF DeleteVersion, TypesInv
<1>2. PICK r \in Removal : r = thread[t]
    BY <1>1, States
<1>3. Objects /\ IsSlot(r.slot)
    BY <1>1, <1>2 DEF TypesInv, Working
<1>4. PICK slot, num : slot = r.slot /\ IsSlot(slot) /\ num = r.num
    BY <1>3
<1>5. PICK s \in Removal : s = [r EXCEPT !.pc = "removeVersion"]
    BY DEF Removal
<1>6. s.pc = "removeVersion" /\ s.e = r.e /\ s.slot = slot /\ s.num = num
    BY <1>4, <1>5 DEF Removal
<1>7. PICK x \in Idle : x = [pc |-> "idle"]
    BY DEF Idle
<1>8. CallDeleteVersion(t, num, s, x)
    BY <1>2, <1>4, <1>5, <1>7 DEF DeleteVersion
<1>9. /\ spent' \in Spending /\ spent'.uploads = spent.uploads
      /\ doc' = doc \/ Deletes(num)
      /\ \E y \in {s, x} : /\ thread' = [thread EXCEPT ![t] = y]
                           /\ y = x \/ Deletes(num)
    BY <1>8, CallOn
<1>10. s \in State /\ x \in State
    BY DEF State
<1>11. PICK y \in {s, x} : Turns(t, y) /\ (y = x \/ Deletes(num))
    BY <1>1, <1>9, <1>10, TurnOn
<1> QED
    BY <1>1, <1>2, <1>4, <1>6, <1>9, <1>10, <1>11

\* The file is deleted for good.
LEMMA DeleteFileOn ==
    ASSUME TypesInv, NEW t \in Threads, DeleteFile(t)
    PROVE  /\ spent' \in Spending /\ spent'.uploads = spent.uploads
           /\ doc' = doc \/ doc' = Gone
           /\ \E s \in State :
                 /\ Turns(t, s)
                 /\ \/ s \in Idle
                    \/ /\ s \in OfFile /\ s.pc = "removeFile" /\ s.e = thread[t].e
                       /\ thread[t] \in OfFile /\ doc' = Gone
<1>1. thread[t].pc = "deleteFile" /\ thread \in [Threads -> State] /\ spent \in Spending
    BY DEF DeleteFile, TypesInv
<1>2. PICK r \in OfFile : r = thread[t]
    BY <1>1, States
<1>3. PICK reply \in Replies :
        /\ Reply(reply)
        /\ doc' = IF reply = "refused" THEN doc ELSE Gone
        /\ IF doc # Gone /\ reply = "ok" THEN Goto(t, "removeFile") ELSE Finish(t)
    BY DEF DeleteFile
<1>4. spent' \in Spending /\ spent'.uploads = spent.uploads /\ (doc' = doc \/ doc' = Gone)
    BY <1>1, <1>3, ReplyOn
<1>5. CASE doc # Gone /\ reply = "ok"
  <2>1. PICK s \in OfFile : s = [r EXCEPT !.pc = "removeFile"]
    BY DEF OfFile
  <2>2. s.pc = "removeFile" /\ s.e = r.e /\ s \in State
    BY <2>1 DEF OfFile, State
  <2>3. thread' = [thread EXCEPT ![t] = s] /\ doc' = Gone
    BY <1>2, <1>3, <1>5, <2>1 DEF Goto
  <2>4. Turns(t, s)
    BY <1>1, <2>2, <2>3, TurnOn
  <2> QED  BY <1>2, <1>4, <2>2, <2>3, <2>4
<1>6. CASE ~(doc # Gone /\ reply = "ok")
  <2>1. \E s \in Idle : Turns(t, s)
    BY <1>1, <1>3, <1>6, FinishOn
  <2> QED  BY <1>4, <2>1 DEF State
<1> QED
    BY <1>5, <1>6

\* The whole object is sent.
LEMMA SendFileOn ==
    ASSUME TypesInv, NEW t \in Threads, SendFile(t)
    PROVE  /\ thread[t].e \in DOMAIN list
           /\ \E s \in Sending : Turns(t, s) /\ s.body = Slice(list[thread[t].e])
<1>1. thread[t].pc = "send" /\ thread \in [Threads -> State] /\ thread[t].e \in DOMAIN list
    BY DEF SendFile, TypesInv, Working
<1>2. PICK body \in Seq(Version) : body = Slice(list[thread[t].e])
    BY <1>1, SliceOf DEF TypesInv
<1>3. PICK s \in Sending : s = [pc |-> "put", body |-> body]
    BY DEF Sending
<1>4. thread' = [thread EXCEPT ![t] = s]
    BY <1>2, <1>3 DEF SendFile
<1>5. Turns(t, s)
    BY <1>1, <1>4, TurnOn DEF State
<1> QED
    BY <1>1, <1>2, <1>3, <1>5

\* The old contents are removed; the upload asks for the document, or panics.
LEMMA RemovePreviousOn ==
    ASSUME TypesInv, NEW t \in Threads, RemovePrevious(t)
    PROVE  /\ thread[t].pc = "removePrevious" /\ thread[t].e \in DOMAIN list
           /\ IsSlot(thread[t].slot)
           /\ \E s \in State :
                 /\ Turns(t, s)
                 /\ s \in Idle \/ (Keeps(t, s) /\ s.pc = "refresh")
           /\ \/ list' = list
              \/ /\ list[thread[t].e].len # 0
                 /\ list' = [list EXCEPT ![thread[t].e].len = list[thread[t].e].len - 1]
<1>1. /\ thread[t].pc = "removePrevious" /\ thread \in [Threads -> State]
      /\ thread[t].e \in DOMAIN list /\ IsSlot(thread[t].slot)
    BY DEF RemovePrevious, TypesInv, Working
<1>2. thread[t] \in Upload
    BY <1>1, States
<1>3. CASE list[thread[t].e].len = 0
  <2>1. Finish(t) /\ UNCHANGED list
    BY <1>3 DEF RemovePrevious
  <2> QED  BY <1>1, <2>1, FinishOn DEF State
<1>4. CASE list[thread[t].e].len # 0
  <2>1. /\ Goto(t, "refresh")
        /\ list' = [list EXCEPT ![thread[t].e].len = list[thread[t].e].len - 1]
    BY <1>4 DEF RemovePrevious
  <2>2. \E s \in Upload : Turns(t, s) /\ Keeps(t, s) /\ s.pc = "refresh"
    BY <1>1, <1>2, <2>1, GotoOn
  <2> QED  BY <1>1, <1>4, <2>1, <2>2 DEF State
<1> QED
    BY <1>3, <1>4

\* The other requests end here.
LEMMA EndsOn ==
    ASSUME TypesInv, NEW t \in Threads,
           \/ UndoUpload(t) \/ Refresh(t) \/ RemoveVersion(t) \/ RemoveFileContents(t)
           \/ UpdateFile(t) \/ PullFiles(t)
    PROVE  \E s \in Idle : Turns(t, s)
<1>1. thread \in [Threads -> State]
    BY DEF TypesInv
<1>2. Finish(t)
    BY DEF UndoUpload, Refresh, RemoveVersion, RemoveFileContents, UpdateFile, PullFiles
<1> QED
    BY <1>1, <1>2, FinishOn

-----------------------------------------------------------------------------
(* Who changes what.                                                       *)

Opens(t) ==
    \/ StartRemoveVersion(t) \/ StartRemoveFile(t) \/ StartRename(t) \/ ReadList(t)

\* The actions that write the document.
LEMMA WhoWrites ==
    ASSUME [Next]_vars
    PROVE  \/ UNCHANGED doc
           \/ \E t \in Threads :
                \/ PushVersion(t) \/ DeletePrevious(t) \/ DeleteVersion(t) \/ DeleteFile(t)
                \/ UpdateFile(t)
           \/ RestoredPut \/ AuditVersion
<1>1. ASSUME NEW t \in Threads,
             \/ StartUpload(t) \/ Opens(t) \/ DrawNumber(t) \/ UndoUpload(t)
             \/ RemovePrevious(t) \/ Refresh(t) \/ RemoveVersion(t)
             \/ RemoveFileContents(t) \/ SendFile(t) \/ PullFiles(t)
      PROVE  UNCHANGED doc
    BY <1>1 DEF Opens, StartUpload, StartRemoveVersion, StartRemoveFile, StartRename, ReadList,
                DrawNumber, UndoUpload, RemovePrevious, Refresh, RemoveVersion,
                RemoveFileContents, SendFile, PullFiles
<1>2. ASSUME \/ SubmitBatch \/ PickBatch \/ StoreRound \/ UpdateFileVersion
             \/ StartAudit \/ CorruptBlock \/ Crash \/ UNCHANGED vars
      PROVE  UNCHANGED doc
    BY <1>2 DEF SubmitBatch, PickBatch, StoreRound, UpdateFileVersion, StartAudit,
                CorruptBlock, Crash, vars
<1> QED
    BY <1>1, <1>2 DEF Next, Serve, Restore, Opens

\* The actions that change the renter's objects or the snapshot.
LEMMA WhoChangesObjects ==
    ASSUME [Next]_vars
    PROVE  \/ UNCHANGED renterVars
           \/ \E t \in Threads :
                \/ RemovePrevious(t) \/ Refresh(t) \/ RemoveVersion(t)
                \/ RemoveFileContents(t) \/ UpdateFile(t) \/ PullFiles(t)
           \/ StoreRound \/ UpdateFileVersion \/ RestoredPut \/ Crash
<1>1. ASSUME NEW t \in Threads,
             \/ StartUpload(t) \/ Opens(t) \/ DrawNumber(t) \/ PushVersion(t) \/ UndoUpload(t)
             \/ DeletePrevious(t) \/ DeleteVersion(t) \/ DeleteFile(t) \/ SendFile(t)
      PROVE  UNCHANGED renterVars
    BY <1>1 DEF Opens, StartUpload, StartRemoveVersion, StartRemoveFile, StartRename, ReadList,
                DrawNumber, PushVersion, UndoUpload, DeletePrevious, DeleteVersion, DeleteFile,
                SendFile
<1>2. ASSUME \/ SubmitBatch \/ PickBatch \/ StartAudit \/ AuditVersion \/ CorruptBlock
             \/ UNCHANGED vars
      PROVE  UNCHANGED renterVars
    BY <1>2 DEF SubmitBatch, PickBatch, StartAudit, AuditVersion, CorruptBlock, vars
<1> QED
    BY <1>1, <1>2 DEF Next, Serve, Restore, Opens

\* The actions that change what is stored or what is counted of it.
LEMMA WhoStores ==
    ASSUME [Next]_vars
    PROVE  \/ UNCHANGED storeVars
           \/ \E t \in Threads :
                \/ StartUpload(t) \/ UndoUpload(t) \/ RemovePrevious(t) \/ Refresh(t)
                \/ RemoveVersion(t) \/ RemoveFileContents(t) \/ UpdateFile(t) \/ PullFiles(t)
           \/ StoreRound \/ UpdateFileVersion \/ RestoredPut \/ Crash \/ CorruptBlock
<1>1. ASSUME NEW t \in Threads,
             \/ Opens(t) \/ DrawNumber(t) \/ PushVersion(t)
             \/ DeletePrevious(t) \/ DeleteVersion(t) \/ DeleteFile(t) \/ SendFile(t)
      PROVE  UNCHANGED storeVars
    BY <1>1 DEF Opens, StartRemoveVersion, StartRemoveFile, StartRename, ReadList,
                DrawNumber, PushVersion, DeletePrevious, DeleteVersion, DeleteFile, SendFile
<1>2. ASSUME \/ SubmitBatch \/ PickBatch \/ StartAudit \/ AuditVersion \/ UNCHANGED vars
      PROVE  UNCHANGED storeVars
    BY <1>2 DEF SubmitBatch, PickBatch, StartAudit, AuditVersion, vars
<1> QED
    BY <1>1, <1>2 DEF Next, Serve, Restore, Opens

\* The actions that change what the restorer does.
LEMMA WhoRestores ==
    ASSUME [Next]_vars
    PROVE  \/ UNCHANGED restorer
           \/ PickBatch \/ StoreRound \/ UpdateFileVersion \/ RestoredPut \/ Crash
<1>1. ASSUME NEW t \in Threads,
             \/ StartUpload(t) \/ Opens(t) \/ DrawNumber(t) \/ PushVersion(t) \/ UndoUpload(t)
             \/ DeletePrevious(t) \/ RemovePrevious(t) \/ Refresh(t) \/ DeleteVersion(t)
             \/ RemoveVersion(t) \/ DeleteFile(t) \/ RemoveFileContents(t) \/ SendFile(t)
             \/ UpdateFile(t) \/ PullFiles(t)
      PROVE  UNCHANGED restorer
    BY <1>1 DEF Opens, StartUpload, StartRemoveVersion, StartRemoveFile, StartRename, ReadList,
                DrawNumber, PushVersion, UndoUpload, DeletePrevious, RemovePrevious, Refresh,
                DeleteVersion, RemoveVersion, DeleteFile, RemoveFileContents, SendFile,
                UpdateFile, PullFiles
<1>2. ASSUME SubmitBatch \/ StartAudit \/ AuditVersion \/ CorruptBlock \/ UNCHANGED vars
      PROVE  UNCHANGED restorer
    BY <1>2 DEF SubmitBatch, StartAudit, AuditVersion, CorruptBlock, vars
<1> QED
    BY <1>1, <1>2 DEF Next, Serve, Restore, Opens

\* No step changes a request, but one of its own and a restart.
LEMMA WhoServes ==
    ASSUME [Next]_vars
    PROVE  \/ UNCHANGED thread
           \/ \E t \in Threads : StartUpload(t) \/ Opens(t) \/ Serve(t)
           \/ RestoredPut \/ Crash
<1>1. ASSUME \/ SubmitBatch \/ PickBatch \/ StoreRound \/ UpdateFileVersion
             \/ StartAudit \/ AuditVersion \/ CorruptBlock \/ UNCHANGED vars
      PROVE  UNCHANGED thread
    BY <1>1 DEF SubmitBatch, PickBatch, StoreRound, UpdateFileVersion, StartAudit,
                AuditVersion, CorruptBlock, vars
<1> QED
    BY <1>1 DEF Next, Restore, Opens

\* The history of the versions.
LEMMA WhoNotes ==
    ASSUME [Next]_vars
    PROVE  \/ UNCHANGED history
           \/ \E t \in Threads :
                \/ StartUpload(t) \/ StartRemoveVersion(t)
                \/ PushVersion(t) \/ DeletePrevious(t) \/ RemovePrevious(t)
                \/ Refresh(t) \/ RemoveVersion(t) \/ UpdateFile(t)
           \/ StoreRound \/ RestoredPut \/ AuditVersion
<1>1. ASSUME NEW t \in Threads,
             \/ StartRemoveFile(t) \/ StartRename(t) \/ ReadList(t)
             \/ DrawNumber(t) \/ UndoUpload(t) \/ DeleteVersion(t) \/ DeleteFile(t)
             \/ RemoveFileContents(t) \/ SendFile(t) \/ PullFiles(t)
      PROVE  UNCHANGED history
    BY <1>1 DEF StartRemoveFile, StartRename, ReadList, DrawNumber, UndoUpload, DeleteVersion,
                DeleteFile, RemoveFileContents, SendFile, PullFiles
<1>2. ASSUME \/ SubmitBatch \/ PickBatch \/ UpdateFileVersion \/ StartAudit \/ CorruptBlock
             \/ Crash \/ UNCHANGED vars
      PROVE  UNCHANGED history
    BY <1>2 DEF SubmitBatch, PickBatch, UpdateFileVersion, StartAudit, CorruptBlock, Crash, vars
<1> QED
    BY <1>1, <1>2 DEF Next, Serve, Restore, Opens

\* A number is drawn in one action only.
LEMMA WhoDraws ==
    ASSUME [Next]_vars
    PROVE  counter' = counter \/ \E t \in Threads : DrawNumber(t)
<1>1. ASSUME NEW t \in Threads,
             \/ StartUpload(t) \/ Opens(t) \/ PushVersion(t) \/ UndoUpload(t)
             \/ DeletePrevious(t) \/ RemovePrevious(t) \/ Refresh(t) \/ DeleteVersion(t)
             \/ RemoveVersion(t) \/ DeleteFile(t) \/ RemoveFileContents(t) \/ SendFile(t)
             \/ UpdateFile(t) \/ PullFiles(t)
      PROVE  counter' = counter
    BY <1>1 DEF Opens, StartUpload, StartRemoveVersion, StartRemoveFile, StartRename, ReadList,
                PushVersion, UndoUpload, DeletePrevious, RemovePrevious, Refresh,
                DeleteVersion, RemoveVersion, DeleteFile, RemoveFileContents, SendFile,
                UpdateFile, PullFiles
<1>2. ASSUME \/ SubmitBatch \/ PickBatch \/ StoreRound \/ UpdateFileVersion \/ RestoredPut
             \/ StartAudit \/ AuditVersion \/ CorruptBlock \/ Crash \/ UNCHANGED vars
      PROVE  counter' = counter
    BY <1>2 DEF SubmitBatch, PickBatch, StoreRound, UpdateFileVersion, RestoredPut,
                StartAudit, AuditVersion, CorruptBlock, Crash, vars
<1> QED
    BY <1>1, <1>2 DEF Next, Serve, Restore, Opens

\* The auditor's copies are of the document, or what it had.
LEMMA WhoAudits ==
    ASSUME TypesInv, [Next]_vars
    PROVE  \/ auditor' = auditor
           \/ doc # Gone /\ auditor' = doc
           \/ auditor # <<>> /\ auditor' = Tail(auditor)
           \/ auditor' = <<>>
<1>1. ASSUME NEW t \in Threads,
             \/ StartUpload(t) \/ Opens(t) \/ DrawNumber(t) \/ PushVersion(t) \/ UndoUpload(t)
             \/ DeletePrevious(t) \/ RemovePrevious(t) \/ Refresh(t) \/ DeleteVersion(t)
             \/ RemoveVersion(t) \/ DeleteFile(t) \/ RemoveFileContents(t) \/ SendFile(t)
             \/ UpdateFile(t) \/ PullFiles(t)
      PROVE  auditor' = auditor
    BY <1>1 DEF Opens, StartUpload, StartRemoveVersion, StartRemoveFile, StartRename, ReadList,
                DrawNumber, PushVersion, UndoUpload, DeletePrevious, RemovePrevious, Refresh,
                DeleteVersion, RemoveVersion, DeleteFile, RemoveFileContents, SendFile,
                UpdateFile, PullFiles
<1>2. ASSUME \/ SubmitBatch \/ PickBatch \/ StoreRound \/ UpdateFileVersion \/ RestoredPut
             \/ CorruptBlock \/ Crash \/ UNCHANGED vars
      PROVE  auditor' = auditor
    BY <1>2 DEF SubmitBatch, PickBatch, StoreRound, UpdateFileVersion, RestoredPut,
                CorruptBlock, Crash, vars
<1>3. StartAudit => doc # Gone /\ auditor' = doc
    BY DEF StartAudit
<1>4. AuditVersion => \/ auditor # <<>> /\ auditor' = Tail(auditor)
                      \/ auditor' = <<>>
    BY DEF AuditVersion
<1> QED
    BY <1>1, <1>2, <1>3, <1>4 DEF Next, Serve, Restore, Opens

\* The restorer's queue holds versions of the cached object.
LEMMA WhoSubmits ==
    ASSUME TypesInv, [Next]_vars
    PROVE  queue' \subseteq Batch
<1>1. ASSUME NEW t \in Threads,
             \/ StartUpload(t) \/ Opens(t) \/ DrawNumber(t) \/ PushVersion(t) \/ UndoUpload(t)
             \/ DeletePrevious(t) \/ RemovePrevious(t) \/ Refresh(t) \/ DeleteVersion(t)
             \/ RemoveVersion(t) \/ DeleteFile(t) \/ RemoveFileContents(t) \/ SendFile(t)
             \/ UpdateFile(t) \/ PullFiles(t)
      PROVE  queue' = queue
    BY <1>1 DEF Opens, StartUpload, StartRemoveVersion, StartRemoveFile, StartRename, ReadList,
                DrawNumber, PushVersion, UndoUpload, DeletePrevious, RemovePrevious, Refresh,
                DeleteVersion, RemoveVersion, DeleteFile, RemoveFileContents, SendFile,
                UpdateFile, PullFiles
<1>2. ASSUME \/ PickBatch \/ StoreRound \/ UpdateFileVersion \/ RestoredPut
             \/ StartAudit \/ AuditVersion \/ CorruptBlock \/ Crash \/ UNCHANGED vars
      PROVE  queue' \subseteq queue
    BY <1>2 DEF PickBatch, StoreRound, UpdateFileVersion, RestoredPut, Restart,
                StartAudit, AuditVersion, CorruptBlock, Crash, vars
<1>3. ASSUME SubmitBatch  PROVE queue' \subseteq Batch
  <2>1. PICK version \in Range(Slice(Cached)) :
          LET corrupted == {i \in Blocks : <<version.up, i>> \in bad[version.at[i]]}
          IN  queue' = queue \cup {[id |-> spent.batches, version |-> version,
                                    blocks |-> corrupted]}
    BY <1>3 DEF SubmitBatch
  <2>2. PICK c \in SUBSET Blocks :
          queue' = queue \cup {[id |-> spent.batches, version |-> version, blocks |-> c]}
    BY <2>1
  <2>3. Slice(Cached) \in Seq(Version)
    BY CacheIs, SliceOf DEF TypesInv
  <2>4. version \in Version
    BY <2>1, <2>3 DEF Range
  <2>5. spent.batches \in Nat
    BY DEF TypesInv, Spending
  <2>6. [id |-> spent.batches, version |-> version, blocks |-> c] \in Batch
    BY <2>4, <2>5 DEF Batch
  <2> QED  BY <2>2, <2>6 DEF TypesInv
<1>4. queue \subseteq Batch
    BY DEF TypesInv
<1> QED
    BY <1>1, <1>2, <1>3, <1>4 DEF Next, Serve, Restore, Opens


-----------------------------------------------------------------------------
(* What is stored and counted: StoreInv and SpaceInv.                      *)

StoreInv ==
    /\ free \in [Providers -> Nat] /\ used \in [Providers -> Nat]
    /\ slack \in [Providers -> Nat] /\ since \in [Providers -> Nat]
    /\ has \in [Providers -> SUBSET (Uploads \X Blocks)]
    /\ bad \in [Providers -> SUBSET (Uploads \X Blocks)]
    /\ \A p \in Providers : bad[p] \subseteq has[p] /\ Cardinality(has[p]) <= used[p]

\* The blobs the restorer keeps, taken from the freelist, to give them back.
Kept(p) == IF restorer.pc = "round" THEN restorer.back[p] ELSE 0

\* The freelist with them, and the freelist of the snapshot, fit.
Fits(p) == free[p] + Kept(p) + used[p] <= Capacity[p] + slack[p]
DiskFits(p) == disk.free[p] + used[p] <= Capacity[p] + slack[p] + since[p]

SpaceInv == \A p \in Providers : Fits(p) /\ DiskFits(p)

\* There are finitely many blocks.
LEMMA FinitelyMany ==
    ASSUME NEW S \in SUBSET (Uploads \X Blocks)
    PROVE  IsFiniteSet(S) /\ Cardinality(S) \in Nat
<1>1. IsFiniteSet(Uploads)
  <2>1. MaxUploads \in Int
    BY FileAssumption
  <2> QED  BY <2>1, FS_Interval DEF Uploads
<1>2. IsFiniteSet(Blocks)
  <2>1. PICK n \in Nat : Blocks = 1..n
    BY FileAssumption DEF Blocks
  <2> QED  BY <2>1, FS_Interval
<1>3. IsFiniteSet(Uploads \X Blocks)
    BY <1>1, <1>2, FS_Product
<1>4. IsFiniteSet(S)
    BY <1>3, FS_Subset
<1> QED
    BY <1>4, FS_CardinalityType

\* The restorer keeps a number of blobs.
LEMMA KeptIs ==
    ASSUME restorer \in Resting \cup Storing \cup Writing, NEW p \in Providers
    PROVE  Kept(p) \in Nat
BY DEF Kept, Resting, Storing, Writing

\* What a removal of versions takes away from the providers.
Takes(g) ==
    /\ \A p \in Providers : g[p] \subseteq has[p]
    /\ has' = [p \in Providers |-> has[p] \ g[p]]
    /\ bad' = [p \in Providers |-> bad[p] \cap has'[p]]
    /\ used' = [p \in Providers |-> used[p] - Cardinality(g[p])]
    /\ free' = [p \in Providers |-> free[p] + Cardinality(g[p])]
    /\ slack' = slack

\* Only blocks of the versions go.
LEMMA RemoveOn ==
    ASSUME NEW versions, NEW failed, RemoveContents(versions, failed), spent \in Spending
    PROVE  /\ spent' \in Spending /\ spent'.uploads = spent.uploads
           /\ \E g : /\ Takes(g)
                     /\ \A p \in Providers : \A b \in g[p] :
                           \E v \in versions : v.up = b[1] /\ v.at[b[2]] = p
<1>1. spent' \in Spending /\ spent'.uploads = spent.uploads
  <2>1. UNCHANGED spent \/ Spend("faults")
    BY DEF RemoveContents
  <2> QED  BY <2>1, SpendOn
<1> DEFINE g == [p \in Providers |-> Removable(versions, failed, p)]
<1>2. Takes(g)
  <2>1. \A p \in Providers : g[p] = Removable(versions, failed, p) /\ g[p] \subseteq has[p]
    BY DEF Removable
  <2> QED  BY <2>1, Zenon DEF RemoveContents, Takes
<1>3. \A p \in Providers : \A b \in g[p] : \E v \in versions : v.up = b[1] /\ v.at[b[2]] = p
    BY DEF Removable
<1> QED
    BY <1>1, <1>2, <1>3

\* A removal gives back what the provider does not count any more.
LEMMA TakesKeepsStore ==
    ASSUME StoreInv, NEW g, Takes(g), since' \in [Providers -> Nat]
    PROVE  /\ StoreInv'
           /\ \A p \in Providers : free'[p] + used'[p] = free[p] + used[p] /\ used'[p] <= used[p]
<1>1. ASSUME NEW p \in Providers
      PROVE  /\ free'[p] \in Nat /\ used'[p] \in Nat
             /\ has'[p] \subseteq has[p] /\ bad'[p] \subseteq has'[p] /\ bad'[p] \subseteq bad[p]
             /\ Cardinality(has'[p]) <= used'[p]
             /\ free'[p] + used'[p] = free[p] + used[p] /\ used'[p] <= used[p]
  <2>1. has[p] \subseteq Uploads \X Blocks /\ g[p] \subseteq has[p]
    BY DEF StoreInv, Takes
  <2>2. /\ IsFiniteSet(has[p]) /\ Cardinality(has[p]) \in Nat
        /\ IsFiniteSet(g[p]) /\ Cardinality(g[p]) \in Nat
    BY <2>1, FinitelyMany
  <2>3. has'[p] = has[p] \ g[p] /\ bad'[p] = bad[p] \cap has'[p]
    BY DEF Takes
  <2>4. Cardinality(has'[p]) = Cardinality(has[p]) - Cardinality(g[p])
    <3>1. has[p] \cap g[p] = g[p]
      BY <2>1
    <3>2. Cardinality(has[p] \ g[p]) = Cardinality(has[p]) - Cardinality(has[p] \cap g[p])
      BY <2>2, FS_Difference
    <3> QED  BY <2>3, <3>1, <3>2
  <2>5. Cardinality(has'[p]) \in Nat
    BY <2>1, <2>3, FinitelyMany
  <2>6. /\ used'[p] = used[p] - Cardinality(g[p]) /\ free'[p] = free[p] + Cardinality(g[p])
        /\ used[p] \in Nat /\ free[p] \in Nat /\ Cardinality(has[p]) <= used[p]
    BY DEF Takes, StoreInv
  <2> QED  BY <2>1, <2>2, <2>3, <2>4, <2>5, <2>6
<1>2. /\ free' = [p \in Providers |-> free'[p]] /\ used' = [p \in Providers |-> used'[p]]
      /\ has' = [p \in Providers |-> has'[p]] /\ bad' = [p \in Providers |-> bad'[p]]
    BY DEF Takes
<1>3. /\ free' \in [Providers -> Nat] /\ used' \in [Providers -> Nat]
      /\ slack' \in [Providers -> Nat]
    BY <1>1, <1>2 DEF Takes, StoreInv
<1>4. has' \in [Providers -> SUBSET (Uploads \X Blocks)]
    BY <1>1, <1>2 DEF StoreInv
<1>5. bad' \in [Providers -> SUBSET (Uploads \X Blocks)]
    BY <1>1, <1>2 DEF StoreInv
<1> QED
    BY <1>1, <1>3, <1>4, <1>5 DEF StoreInv

\* A snapshot has the freelist of the moment.
LEMMA SnapshotOn ==
    ASSUME SaveSnapshot
    PROVE  disk'.free = free' /\ since' = [p \in Providers |-> 0]
BY DEF SaveSnapshot

\* The requests that remove versions, refresh the cache or save it.
LEMMA RequestStores ==
    ASSUME TypesInv, NEW t \in Threads,
           \/ UndoUpload(t) \/ RemovePrevious(t) \/ Refresh(t) \/ RemoveVersion(t)
           \/ RemoveFileContents(t) \/ UpdateFile(t) \/ PullFiles(t)
    PROVE  /\ restorer' = restorer
           /\ \/ UNCHANGED <<free, has, bad, used, slack>>
              \/ \E g : Takes(g)
           /\ UNCHANGED <<disk, since>> \/ SaveSnapshot
<1>1. spent \in Spending
    BY DEF TypesInv
<1>2. /\ restorer' = restorer
      /\ \/ UNCHANGED <<free, has, bad, used, slack>>
         \/ \E versions, failed : RemoveContents(versions, failed)
    BY DEF UndoUpload, RemovePrevious, Refresh, RemoveVersion, RemoveFileContents, UpdateFile,
           PullFiles
<1>3. UNCHANGED <<disk, since>> \/ SaveSnapshot
    BY DEF UndoUpload, RemovePrevious, Refresh, RemoveVersion, RemoveFileContents, UpdateFile,
           PullFiles, renterVars
<1> QED
    BY <1>1, <1>2, <1>3, RemoveOn

\* They keep what is counted.
LEMMA RequestsKeepSpace ==
    ASSUME TypesInv, StoreInv, SpaceInv, NEW t \in Threads,
           \/ UndoUpload(t) \/ RemovePrevious(t) \/ Refresh(t) \/ RemoveVersion(t)
           \/ RemoveFileContents(t) \/ UpdateFile(t) \/ PullFiles(t)
    PROVE  StoreInv' /\ SpaceInv'
<1>1. /\ restorer' = restorer
      /\ \/ UNCHANGED <<free, has, bad, used, slack>>
         \/ \E g : Takes(g)
      /\ UNCHANGED <<disk, since>> \/ SaveSnapshot
    BY RequestStores
<1>2. since' \in [Providers -> Nat]
    BY <1>1, SnapshotOn DEF StoreInv
<1>3. /\ StoreInv' /\ slack' = slack
      /\ \A p \in Providers : free'[p] + used'[p] = free[p] + used[p] /\ used'[p] <= used[p]
  <2>1. CASE UNCHANGED <<free, has, bad, used, slack>>
    BY <1>2, <2>1 DEF StoreInv
  <2>2. CASE \E g : Takes(g)
    BY <1>2, <2>2, TakesKeepsStore DEF Takes
  <2> QED  BY <1>1, <2>1, <2>2
<1>4. ASSUME NEW p \in Providers  PROVE Fits(p)' /\ DiskFits(p)'
  <2>1. /\ Kept(p) \in Nat /\ Kept(p)' = Kept(p) /\ Capacity[p] \in Nat
        /\ free[p] \in Nat /\ used[p] \in Nat /\ slack[p] \in Nat /\ since[p] \in Nat
        /\ free'[p] \in Nat /\ used'[p] \in Nat /\ disk.free[p] \in Nat
    BY <1>1, <1>3, KeptIs, FileAssumption DEF TypesInv, StoreInv, Kept, Snapshot
  <2>2. Fits(p)'
    BY <1>3, <2>1 DEF SpaceInv, Fits
  <2>3. CASE UNCHANGED <<disk, since>>
    <3>1. DiskFits(p)'
      BY <1>3, <2>1, <2>3 DEF SpaceInv, DiskFits
    <3> QED  BY <2>2, <3>1
  <2>4. CASE SaveSnapshot
    <3>1. disk'.free[p] = free'[p] /\ since'[p] = 0
      BY <2>4, SnapshotOn
    <3>2. free'[p] + Kept(p)' + used'[p] <= Capacity[p] + slack'[p] /\ slack'[p] = slack[p]
      BY <1>3, <2>2 DEF Fits
    <3>3. disk'.free[p] + used'[p] <= Capacity[p] + slack'[p] + since'[p]
      BY <2>1, <3>1, <3>2
    <3> QED  BY <2>2, <3>3 DEF DiskFits
  <2> QED  BY <1>1, <2>3, <2>4
<1> QED
    BY <1>3, <1>4 DEF SpaceInv

\* No more blocks are there than there were and came.
LEMMA NoMoreThan ==
    ASSUME NEW S \in SUBSET (Uploads \X Blocks), NEW N \in SUBSET (Uploads \X Blocks),
           NEW R, R \subseteq S \cup N
    PROVE  /\ R \subseteq Uploads \X Blocks
           /\ Cardinality(R) <= Cardinality(S) + Cardinality(N)
<1>1. /\ IsFiniteSet(S) /\ Cardinality(S) \in Nat /\ IsFiniteSet(N) /\ Cardinality(N) \in Nat
      /\ Cardinality(S \cap N) \in Nat /\ IsFiniteSet(R) /\ Cardinality(R) \in Nat
      /\ IsFiniteSet(S \cup N) /\ Cardinality(S \cup N) \in Nat
    BY FinitelyMany
<1>2. Cardinality(S \cup N) = Cardinality(S) + Cardinality(N) - Cardinality(S \cap N)
    BY <1>1, FS_Union
<1>3. Cardinality(R) <= Cardinality(S \cup N)
    BY <1>1, FS_Subset
<1> QED
    BY <1>1, <1>2, <1>3

\* An upload takes from the freelist what it stores.
LEMMA UploadKeepsSpace ==
    ASSUME TypesInv, StoreInv, SpaceInv, NEW t \in Threads, StartUpload(t)
    PROVE  StoreInv' /\ SpaceInv'
<1>1. PICK s \in Upload :
              /\ \A p \in Providers : Cardinality(BlocksAt(s.version, p)) <= free[p]
              /\ has' = [p \in Providers |-> has[p] \cup BlocksAt(s.version, p)]
              /\ used' = [p \in Providers |-> used[p] + Cardinality(BlocksAt(s.version, p))]
              /\ free' = [p \in Providers |-> free[p] - Cardinality(BlocksAt(s.version, p))]
              /\ since' = [p \in Providers |-> since[p] + Cardinality(BlocksAt(s.version, p))]
    BY StartUploadOn
<1>2. bad' = bad /\ slack' = slack /\ restorer' = restorer /\ disk' = disk
    BY DEF StartUpload, renterVars
<1>3. ASSUME NEW p \in Providers
      PROVE  /\ free'[p] \in Nat /\ used'[p] \in Nat /\ since'[p] \in Nat
             /\ has'[p] \subseteq Uploads \X Blocks /\ bad'[p] \subseteq has'[p]
             /\ Cardinality(has'[p]) <= used'[p]
             /\ Fits(p)' /\ DiskFits(p)'
  <2>1. BlocksAt(s.version, p) \subseteq Uploads \X Blocks /\ has[p] \subseteq Uploads \X Blocks
    <3>1. s.version.up \in Uploads
      BY DEF Upload, Version
    <3> QED  BY <3>1 DEF BlocksAt, StoreInv
  <2>2. PICK n \in Nat : n = Cardinality(BlocksAt(s.version, p))
    BY <2>1, FinitelyMany
  <2>3. PICK m \in Nat : m = Cardinality(has[p])
    BY <2>1, FinitelyMany
  <2>4. Cardinality(has'[p]) <= m + n /\ has'[p] \subseteq Uploads \X Blocks
    <3>1. has'[p] \subseteq has[p] \cup BlocksAt(s.version, p)
      BY <1>1
    <3> QED  BY <2>1, <2>2, <2>3, <3>1, NoMoreThan
  <2>5. Cardinality(has'[p]) \in Nat
    BY <2>4, FinitelyMany
  <2>6. /\ n <= free[p] /\ used'[p] = used[p] + n /\ free'[p] = free[p] - n
        /\ since'[p] = since[p] + n
    BY <1>1, <2>2
  <2>7. bad'[p] \subseteq has'[p]
    BY <1>1, <1>2 DEF StoreInv
  <2>8. /\ Kept(p) \in Nat /\ Kept(p)' = Kept(p) /\ Capacity[p] \in Nat
        /\ free[p] \in Nat /\ used[p] \in Nat /\ slack[p] \in Nat /\ since[p] \in Nat
        /\ disk.free[p] \in Nat /\ m <= used[p]
    BY <1>2, <2>3, KeptIs, FileAssumption DEF TypesInv, StoreInv, Kept, Snapshot
  <2>9. Fits(p)'
    BY <1>2, <2>6, <2>8 DEF SpaceInv, Fits
  <2>10. DiskFits(p)'
    BY <1>2, <2>6, <2>8 DEF SpaceInv, DiskFits
  <2> QED  BY <2>4, <2>5, <2>6, <2>7, <2>8, <2>9, <2>10
<1>4. has' \in [Providers -> SUBSET (Uploads \X Blocks)]
    BY <1>1, <1>3
<1>5. /\ free' \in [Providers -> Nat] /\ used' \in [Providers -> Nat]
      /\ since' \in [Providers -> Nat]
    BY <1>1, <1>3
<1> QED
    BY <1>2, <1>3, <1>4, <1>5 DEF StoreInv, SpaceInv

\* A restart goes back to the freelist of the snapshot.
LEMMA RestartKeepsSpace ==
    ASSUME TypesInv, StoreInv, SpaceInv, Restart, UNCHANGED <<has, bad, used>>
    PROVE  StoreInv' /\ SpaceInv'
<1>1. /\ free' = disk.free /\ slack' = [p \in Providers |-> slack[p] + since[p]]
      /\ since' = [p \in Providers |-> 0] /\ restorer'.pc = "idle" /\ disk' = disk
    BY DEF Restart
<1>2. ASSUME NEW p \in Providers
      PROVE  slack'[p] \in Nat /\ Fits(p)' /\ DiskFits(p)'
  <2>1. /\ Kept(p)' = 0 /\ Capacity[p] \in Nat
        /\ used[p] \in Nat /\ slack[p] \in Nat /\ since[p] \in Nat
        /\ disk.free[p] \in Nat /\ used'[p] = used[p]
    BY <1>1, FileAssumption DEF TypesInv, StoreInv, Kept, Snapshot
  <2>2. /\ free'[p] = disk.free[p] /\ slack'[p] = slack[p] + since[p] /\ since'[p] = 0
        /\ disk'.free[p] = disk.free[p]
    BY <1>1
  <2> QED  BY <2>1, <2>2 DEF SpaceInv, Fits, DiskFits
<1>3. /\ free' \in [Providers -> Nat] /\ slack' \in [Providers -> Nat]
      /\ since' \in [Providers -> Nat]
    BY <1>1, <1>2 DEF TypesInv, Snapshot
<1> QED
    BY <1>2, <1>3 DEF StoreInv, SpaceInv

\* The restorer gives back what it kept, when it has not given it back yet.
LEMMA RestorerKeepsSpace ==
    ASSUME TypesInv, StoreInv, SpaceInv, UpdateFileVersion \/ RestoredPut \/ Crash
    PROVE  StoreInv' /\ SpaceInv'
<1>1. CASE UpdateFileVersion
  <2>1. /\ restorer.pc = "round" /\ free' = [p \in Providers |-> free[p] + restorer.back[p]]
        /\ UNCHANGED <<has, bad, used, slack, since, disk>>
    BY <1>1 DEF UpdateFileVersion
  <2>2. restorer'.pc \in {"put", "idle"}
    BY <1>1 DEF UpdateFileVersion
  <2>3. ASSUME NEW p \in Providers  PROVE free'[p] \in Nat /\ Fits(p)' /\ DiskFits(p)'
    <3>1. /\ Kept(p)' = 0 /\ Kept(p) = restorer.back[p] /\ Kept(p) \in Nat
      BY <2>1, <2>2, KeptIs DEF Kept, TypesInv
    <3>2. /\ free[p] \in Nat /\ used[p] \in Nat /\ slack[p] \in Nat /\ Capacity[p] \in Nat
          /\ free'[p] = free[p] + Kept(p)
      BY <2>1, <3>1, FileAssumption DEF StoreInv
    <3>3. Fits(p)'
      BY <2>1, <3>1, <3>2 DEF SpaceInv, Fits
    <3>4. DiskFits(p)'
      BY <2>1 DEF SpaceInv, DiskFits
    <3> QED  BY <3>1, <3>2, <3>3, <3>4
  <2>4. free' \in [Providers -> Nat]
    BY <2>1, <2>3
  <2> QED  BY <2>1, <2>3, <2>4 DEF StoreInv, SpaceInv
<1>2. CASE RestoredPut
  <2>1. restorer.pc = "put" /\ UNCHANGED <<has, bad, used>>
    BY <1>2 DEF RestoredPut
  <2>2. CASE Restart
    BY <2>1, <2>2, RestartKeepsSpace
  <2>3. CASE restorer'.pc = "idle" /\ UNCHANGED <<disk, free, slack, since>>
    <3>1. \A p \in Providers : Kept(p) = 0 /\ Kept(p)' = 0
      BY <2>1, <2>3 DEF Kept
    <3> QED  BY <2>1, <2>3, <3>1 DEF StoreInv, SpaceInv, Fits, DiskFits
  <2> QED  BY <1>2, <2>2, <2>3 DEF RestoredPut
<1>3. CASE Crash
    BY <1>3, RestartKeepsSpace DEF Crash
<1> QED
    BY <1>1, <1>2, <1>3

\* A corrupted block is a block.
LEMMA CorruptKeepsSpace ==
    ASSUME StoreInv, SpaceInv, CorruptBlock
    PROVE  StoreInv' /\ SpaceInv'
<1>1. PICK q \in Providers : \E b \in has[q] \ bad[q] : bad' = [bad EXCEPT ![q] = @ \cup {b}]
    BY DEF CorruptBlock
<1>2. PICK b \in has[q] : bad' = [bad EXCEPT ![q] = bad[q] \cup {b}]
    BY <1>1
<1>3. UNCHANGED <<free, has, used, slack, since, disk, restorer>>
    BY DEF CorruptBlock, renterVars
<1>4. \A p \in Providers : bad'[p] \subseteq has'[p]
    BY <1>2, <1>3 DEF StoreInv
<1>5. bad' \in [Providers -> SUBSET (Uploads \X Blocks)]
    BY <1>2 DEF StoreInv
<1> QED
    BY <1>3, <1>4, <1>5 DEF StoreInv, SpaceInv, Fits, DiskFits, Kept

-----------------------------------------------------------------------------
(* A round of the restorer.                                                *)

Landing(at, result, p) ==
    {k \in 1..Len(restorer.todo) : at[k] = p /\ result[k] \in {"ok", "lost"}}
Cut(at, result, p) == {k \in DOMAIN restorer.todo : at[k] = p /\ result[k] = "cut"}
Failed(result) ==
    Those([k \in DOMAIN restorer.todo |-> k],
          {k \in DOMAIN restorer.todo : result[k] # "ok"})
Ids(ks) == {<<restorer.new.up, restorer.todo[k]>> : k \in ks}

Landed(result, i) == {k \in DOMAIN restorer.todo : restorer.todo[k] = i /\ result[k] = "ok"}
Relocated(at, result, was) ==
    [i \in Blocks |-> IF Landed(result, i) = {} THEN was[i]
                      ELSE at[CHOOSE k \in Landed(result, i) : TRUE]]
Relocate(at, result, v) ==
    IF v.up = restorer.new.up THEN [v EXCEPT !.at = Relocated(at, result, @)] ELSE v

\* What a round does.
Rounds(at, result) ==
    /\ at \in [1..Len(restorer.todo) -> Providers]
    /\ result \in [DOMAIN restorer.todo -> Outcomes]
    /\ \A p \in Providers : Share(at, p) <= free[p]
    /\ free' = [p \in Providers |-> free[p] - Share(at, p)]
    /\ has' = [p \in Providers |->
                  (has[p] \cup Ids(Landing(at, result, p))) \ Ids(Cut(at, result, p))]
    /\ bad' = [p \in Providers |->
                  bad[p] \ Ids(Landing(at, result, p) \cup Cut(at, result, p))]
    /\ used' = [p \in Providers |-> used[p] + Cardinality(Landing(at, result, p))]
    /\ since' = [p \in Providers |-> since[p] + Cardinality(Landing(at, result, p))]
    /\ slack' = [p \in Providers |->
                    slack[p] + Cardinality(Landing(at, result, p) \cap DOMAIN Failed(result))]
    /\ suspect' = IF \E p \in Providers : Ids(Cut(at, result, p)) \cap has[p] # {}
                  THEN suspect \cup {restorer.new.up} ELSE suspect
    /\ arrays' = [arrays EXCEPT ![restorer.arr] =
                     [k \in DOMAIN @ |-> Relocate(at, result, @[k])]]
    /\ restorer' = [restorer EXCEPT
                      !.new = Relocate(at, result, @),
                      !.todo = StillBad(Failed(result), restorer.todo),
                      !.excluded = @ \cup Range(Returned(Failed(result), at)),
                      !.back = [p \in Providers |-> @[p] + Share(Returned(Failed(result), at), p)]]

\* It is one of the round's outcomes.
LEMMA RoundOn ==
    ASSUME TypesInv, StoreRound
    PROVE  \E at, result : Rounds(at, result)
<1>1. PICK at \in Places(Len(restorer.todo), restorer.excluded),
           result \in [DOMAIN restorer.todo -> Outcomes] : Round(at, result)
    BY DEF StoreRound
<1>2. /\ at \in [1..Len(restorer.todo) -> Providers]
      /\ \A p \in Providers : Share(at, p) <= free[p]
    BY DEF Places
<1>3. /\ free' = [p \in Providers |-> free[p] - Share(at, p)]
      /\ used' = [p \in Providers |-> used[p] + Cardinality(Landing(at, result, p))]
      /\ since' = [p \in Providers |-> since[p] + Cardinality(Landing(at, result, p))]
      /\ slack' = [p \in Providers |->
                    slack[p] + Cardinality(Landing(at, result, p) \cap DOMAIN Failed(result))]
    BY <1>1, Zenon DEF Round, Landing, Failed
<1>4. /\ has' = [p \in Providers |->
                  (has[p] \cup Ids(Landing(at, result, p))) \ Ids(Cut(at, result, p))]
      /\ bad' = [p \in Providers |->
                  bad[p] \ Ids(Landing(at, result, p) \cup Cut(at, result, p))]
      /\ suspect' = IF \E p \in Providers : Ids(Cut(at, result, p)) \cap has[p] # {}
                    THEN suspect \cup {restorer.new.up} ELSE suspect
    BY <1>1, Zenon DEF Round, Landing, Cut, Ids
<1>5. arrays' = [arrays EXCEPT ![restorer.arr] =
                     [k \in DOMAIN @ |-> Relocate(at, result, @[k])]]
    BY <1>1, Zenon DEF Round, Relocate, Relocated, Landed
<1>6. restorer' = [restorer EXCEPT
                      !.new = Relocate(at, result, @),
                      !.todo = StillBad(Failed(result), restorer.todo),
                      !.excluded = @ \cup Range(Returned(Failed(result), at)),
                      !.back = [p \in Providers |-> @[p] + Share(Returned(Failed(result), at), p)]]
    BY <1>1, Zenon DEF Round, Relocate, Relocated, Landed, Failed
<1> QED
    BY <1>1, <1>2, <1>3, <1>4, <1>5, <1>6 DEF Rounds

\* The failures are among the blocks of the round.
LEMMA FailedIs ==
    ASSUME NEW todo \in Seq(Blocks), todo = restorer.todo, NEW result
    PROVE  /\ Failed(result) \in Seq(1..Len(todo))
           /\ DOMAIN Failed(result) = 1..Len(Failed(result))
           /\ Len(Failed(result)) \in Nat
           /\ Len(Failed(result)) <= Len(todo)
<1> DEFINE all == [k \in DOMAIN restorer.todo |-> k]
           S == {k \in DOMAIN restorer.todo : result[k] # "ok"}
<1>1. all = [k \in 1..Len(todo) |-> k]
    OBVIOUS
<1>2. all \in Seq(1..Len(todo)) /\ IsInjective(all) /\ Len(all) = Len(todo)
    BY <1>1 DEF IsInjective
<1>3. Failed(result) = Those(all, S)
    BY DEF Failed
<1> HIDE DEF all, S
<1>4. Those(all, S) \in Seq(1..Len(todo))
    BY <1>2, ThoseOf
<1>5. Len(Those(all, S)) <= Len(all)
    BY <1>2, ThoseShorter
<1> QED
    BY <1>2, <1>3, <1>4, <1>5

\* The shares of a list are finite.
LEMMA FinitelyPlaced ==
    ASSUME NEW n \in Nat, NEW S \in SUBSET (1..n)
    PROVE  IsFiniteSet(S) /\ Cardinality(S) \in Nat
<1>1. IsFiniteSet(1..n)
    BY FS_Interval
<1>2. IsFiniteSet(S)
    BY <1>1, FS_Subset
<1> QED
    BY <1>2, FS_CardinalityType

\* A round: the blobs given back are no more than those taken that did not
\* land, and those that landed and are counted as failures.
LEMMA RoundCounts ==
    ASSUME TypesInv, restorer \in Storing, NEW at, NEW result, Rounds(at, result),
           NEW p \in Providers
    PROVE  /\ Share(at, p) \in Nat /\ Share(Returned(Failed(result), at), p) \in Nat
           /\ Cardinality(Landing(at, result, p)) \in Nat
           /\ Cardinality(Landing(at, result, p) \cap DOMAIN Failed(result)) \in Nat
           /\ Share(Returned(Failed(result), at), p) + Cardinality(Landing(at, result, p))
                <= Share(at, p)
                   + Cardinality(Landing(at, result, p) \cap DOMAIN Failed(result))
           /\ Ids(Landing(at, result, p)) \subseteq Uploads \X Blocks
           /\ Cardinality(Ids(Landing(at, result, p))) <= Cardinality(Landing(at, result, p))
<1>1. PICK todo \in Seq(Blocks) : todo = restorer.todo
    BY DEF Storing
<1>2. PICK n \in Nat : n = Len(todo)
    OBVIOUS
<1>3. PICK m \in Nat : DOMAIN Failed(result) = 1..m /\ m <= n
    BY <1>1, <1>2, FailedIs
<1> DEFINE A == {k \in 1..m : at[k] = p}
           B == Landing(at, result, p)
           C == {k \in 1..n : at[k] = p}
<1>4. at \in [1..n -> Providers]
    BY <1>1, <1>2 DEF Rounds
<1>5. B \subseteq C /\ A \subseteq C /\ B \subseteq 1..n
    BY <1>1, <1>2, <1>3 DEF Landing
<1>6. Share(at, p) = Cardinality(C)
    BY <1>4 DEF Share
<1>7. Share(Returned(Failed(result), at), p) = Cardinality(A)
  <2>1. Returned(Failed(result), at) = [k \in 1..m |-> at[k]]
    BY <1>3 DEF Returned, StillBad
  <2>2. {k \in DOMAIN Returned(Failed(result), at) : Returned(Failed(result), at)[k] = p} = A
    BY <2>1
  <2> QED  BY <2>2 DEF Share
<1> DEFINE D == B \cap (1..m)
           E == B \ (1..m)
<1>8. A \cap E = {} /\ A \cup E \subseteq C
    BY <1>5
<1>9. C \subseteq 1..n /\ A \subseteq 1..n /\ D \subseteq 1..n /\ E \subseteq 1..n
      /\ A \cup E \subseteq 1..n
    BY <1>5, <1>8
<1>9a. D = B \cap (1..m) /\ E = B \ (1..m)
    OBVIOUS
<1> HIDE DEF A, B, C, D, E
<1>10. /\ IsFiniteSet(A) /\ Cardinality(A) \in Nat /\ IsFiniteSet(B) /\ Cardinality(B) \in Nat
       /\ IsFiniteSet(C) /\ Cardinality(C) \in Nat /\ IsFiniteSet(D) /\ Cardinality(D) \in Nat
       /\ IsFiniteSet(E) /\ Cardinality(E) \in Nat
    BY <1>5, <1>9, FinitelyPlaced
<1>11. Cardinality(E) = Cardinality(B) - Cardinality(D)
    BY <1>9a, <1>10, FS_Difference
<1>12. Cardinality(A \cup E) = Cardinality(A) + Cardinality(E)
  <2>1. Cardinality(A \cup E) = Cardinality(A) + Cardinality(E) - Cardinality(A \cap E)
    BY <1>10, FS_Union
  <2>2. Cardinality(A \cap E) = 0
    BY <1>8, FS_EmptySet
  <2> QED  BY <1>10, <2>1, <2>2
<1>13. Cardinality(A \cup E) <= Cardinality(C)
    BY <1>8, <1>10, FS_Subset
<1>14. Cardinality(A) + Cardinality(B) <= Cardinality(C) + Cardinality(D)
    BY <1>10, <1>11, <1>12, <1>13
<1>15. Ids(B) \subseteq Uploads \X Blocks
  <2>1. restorer.new.up \in Uploads
    BY DEF Storing, Version
  <2>2. \A k \in B : restorer.todo[k] \in Blocks
    BY <1>1, <1>2, <1>5
  <2> QED  BY <2>1, <2>2 DEF Ids
<1>16. Cardinality(Ids(B)) <= Cardinality(B)
  <2> DEFINE f == [k \in B |-> <<restorer.new.up, restorer.todo[k]>>]
  <2>1. f \in Surjection(B, Ids(B))
    BY DEF Surjection, Ids
  <2> HIDE DEF f
  <2> QED  BY <1>10, <2>1, FS_Surjection
<1>17. B = Landing(at, result, p) /\ D = Landing(at, result, p) \cap DOMAIN Failed(result)
    BY <1>3 DEF B, D
<1> QED
    BY <1>6, <1>7, <1>10, <1>14, <1>15, <1>16, <1>17

\* What the restorer keeps after a round.
LEMMA RoundKeeps ==
    ASSUME TypesInv, restorer \in Storing, NEW at, NEW result, Rounds(at, result),
           NEW p \in Providers
    PROVE  /\ restorer'.pc = "round" /\ restorer.back[p] \in Nat
           /\ restorer'.back[p] = restorer.back[p] + Share(Returned(Failed(result), at), p)
<1>1. PICK r \in Storing : r = restorer
    OBVIOUS
<1>2. PICK new, todo, excluded, back :
        /\ back = [q \in Providers |-> r.back[q] + Share(Returned(Failed(result), at), q)]
        /\ restorer' = [r EXCEPT !.new = new, !.todo = todo, !.excluded = excluded, !.back = back]
    BY <1>1, Zenon DEF Rounds
<1>3. restorer'.back = back /\ restorer'.pc = "round"
    BY <1>2 DEF Storing
<1> QED
    BY <1>1, <1>2, <1>3 DEF Storing

\* So a round keeps what is counted.
LEMMA RoundKeepsSpace ==
    ASSUME TypesInv, StoreInv, SpaceInv, StoreRound
    PROVE  StoreInv' /\ SpaceInv'
<1>1. restorer.pc = "round" /\ disk' = disk
    BY DEF StoreRound
<1>2. restorer \in Storing
    BY <1>1 DEF TypesInv, Resting, Storing, Writing
<1>3. PICK at, result : Rounds(at, result)
    BY RoundOn
<1>4. ASSUME NEW p \in Providers
      PROVE  /\ free'[p] \in Nat /\ used'[p] \in Nat /\ since'[p] \in Nat /\ slack'[p] \in Nat
             /\ has'[p] \subseteq Uploads \X Blocks /\ bad'[p] \subseteq has'[p]
             /\ Cardinality(has'[p]) <= used'[p]
             /\ Fits(p)' /\ DiskFits(p)'
  <2>1. PICK a \in Nat, b \in Nat, c \in Nat, d \in Nat :
          /\ a = Share(Returned(Failed(result), at), p)
          /\ b = Cardinality(Landing(at, result, p)) /\ c = Share(at, p)
          /\ d = Cardinality(Landing(at, result, p) \cap DOMAIN Failed(result))
          /\ a + b <= c + d
    BY <1>2, <1>3, RoundCounts
  <2>2. /\ c <= free[p] /\ free'[p] = free[p] - c /\ used'[p] = used[p] + b
        /\ since'[p] = since[p] + b /\ slack'[p] = slack[p] + d
    BY <1>3, <2>1, Zenon DEF Rounds
  <2>3. /\ free[p] \in Nat /\ used[p] \in Nat /\ slack[p] \in Nat /\ since[p] \in Nat
        /\ Capacity[p] \in Nat /\ disk.free[p] \in Nat
    BY FileAssumption DEF StoreInv, TypesInv, Snapshot
  <2>4. Kept(p) \in Nat /\ Kept(p)' = Kept(p) + a
    BY <1>1, <1>2, <1>3, <2>1, RoundKeeps DEF Kept
  <2>5. Fits(p)'
    BY <2>1, <2>2, <2>3, <2>4 DEF SpaceInv, Fits
  <2>6. DiskFits(p)'
    BY <1>1, <2>2, <2>3 DEF SpaceInv, DiskFits
  <2>7. /\ has'[p] = (has[p] \cup Ids(Landing(at, result, p))) \ Ids(Cut(at, result, p))
        /\ bad'[p] = bad[p] \ Ids(Landing(at, result, p) \cup Cut(at, result, p))
    BY <1>3, Zenon DEF Rounds
  <2>8. /\ Ids(Landing(at, result, p)) \subseteq Uploads \X Blocks
        /\ Cardinality(Ids(Landing(at, result, p))) <= b
    BY <1>2, <1>3, <2>1, RoundCounts
  <2>9. has[p] \subseteq Uploads \X Blocks /\ bad[p] \subseteq has[p] /\ Cardinality(has[p]) <= used[p]
    BY DEF StoreInv
  <2>10. has'[p] \subseteq Uploads \X Blocks
         /\ Cardinality(has'[p]) <= Cardinality(has[p]) + Cardinality(Ids(Landing(at, result, p)))
    BY <2>7, <2>8, <2>9, NoMoreThan
  <2>11. /\ Cardinality(has'[p]) \in Nat /\ Cardinality(has[p]) \in Nat
         /\ Cardinality(Ids(Landing(at, result, p))) \in Nat
    BY <2>8, <2>9, <2>10, FinitelyMany
  <2>12. bad'[p] \subseteq has'[p]
    <3>1. Ids(Cut(at, result, p)) \subseteq Ids(Landing(at, result, p) \cup Cut(at, result, p))
      BY DEF Ids
    <3> QED  BY <2>7, <2>9, <3>1
  <2>13. Cardinality(has'[p]) <= used'[p]
    BY <2>2, <2>3, <2>8, <2>9, <2>10, <2>11
  <2> QED  BY <2>2, <2>3, <2>5, <2>6, <2>10, <2>12, <2>13
<1>5. /\ free' = [p \in Providers |-> free'[p]] /\ used' = [p \in Providers |-> used'[p]]
      /\ since' = [p \in Providers |-> since'[p]] /\ slack' = [p \in Providers |-> slack'[p]]
      /\ has' = [p \in Providers |-> has'[p]] /\ bad' = [p \in Providers |-> bad'[p]]
    BY <1>3 DEF Rounds
<1>6. /\ free' \in [Providers -> Nat] /\ used' \in [Providers -> Nat]
      /\ since' \in [Providers -> Nat] /\ slack' \in [Providers -> Nat]
    BY <1>4, <1>5
<1>7. has' \in [Providers -> SUBSET (Uploads \X Blocks)]
    BY <1>4, <1>5
<1>8. bad' \in [Providers -> SUBSET (Uploads \X Blocks)]
    BY <1>4, <1>5
<1> QED
    BY <1>4, <1>6, <1>7, <1>8 DEF StoreInv, SpaceInv

\* No step loses the count.
LEMMA StoreStep ==
    ASSUME TypesInv, StoreInv, SpaceInv, [Next]_vars
    PROVE  StoreInv' /\ SpaceInv'
<1>1. CASE \E t \in Threads : StartUpload(t)
    BY <1>1, UploadKeepsSpace
<1>2. CASE \E t \in Threads :
              \/ UndoUpload(t) \/ RemovePrevious(t) \/ Refresh(t) \/ RemoveVersion(t)
              \/ RemoveFileContents(t) \/ UpdateFile(t) \/ PullFiles(t)
    BY <1>2, RequestsKeepSpace
<1>3. CASE StoreRound
    BY <1>3, RoundKeepsSpace
<1>4. CASE UpdateFileVersion \/ RestoredPut \/ Crash
    BY <1>4, RestorerKeepsSpace
<1>5. CASE CorruptBlock
    BY <1>5, CorruptKeepsSpace
<1>6. CASE UNCHANGED storeVars /\ UNCHANGED renterVars /\ (UNCHANGED restorer \/ PickBatch)
  <2>1. ASSUME NEW p \in Providers  PROVE Kept(p)' = Kept(p)
    <3>1. CASE UNCHANGED restorer
      BY <3>1 DEF Kept
    <3>2. CASE PickBatch
      <4>1. restorer.pc = "idle"
        BY <3>2 DEF PickBatch
      <4>2. /\ restorer'.pc \in {"round", "idle"}
            /\ restorer'.pc = "round" => restorer'.back = [q \in Providers |-> 0]
        BY <3>2 DEF PickBatch
      <4> QED  BY <4>1, <4>2 DEF Kept
    <3> QED  BY <1>6, <3>1, <3>2
  <2> QED  BY <1>6, <2>1 DEF storeVars, renterVars, StoreInv, SpaceInv, Fits, DiskFits
<1> QED
    BY <1>1, <1>2, <1>3, <1>4, <1>5, <1>6, WhoStores, WhoChangesObjects, WhoRestores

\* It is right at first.
LEMMA StoreInit ==
    ASSUME Init
    PROVE  StoreInv /\ SpaceInv
<1>1. ASSUME NEW p \in Providers
      PROVE  /\ FirstBlocks(p) \subseteq Uploads \X Blocks
             /\ Cardinality(FirstBlocks(p)) \in Nat
             /\ Cardinality(FirstBlocks(p)) <= Capacity[p] /\ Capacity[p] \in Nat
  <2>1. 0 \in Uploads
    BY FileAssumption DEF Uploads
  <2>2. FirstBlocks(p) \subseteq Uploads \X Blocks
    BY <2>1 DEF FirstBlocks
  <2> QED  BY <2>2, FinitelyMany, FileAssumption
<1>2. /\ has = [p \in Providers |-> FirstBlocks(p)]
      /\ bad = [p \in Providers |-> {}]
      /\ used = [p \in Providers |-> Cardinality(FirstBlocks(p))]
      /\ free = [p \in Providers |-> Capacity[p] - Cardinality(FirstBlocks(p))]
      /\ slack = [p \in Providers |-> 0] /\ since = [p \in Providers |-> 0]
      /\ disk.free = free /\ restorer.pc = "idle"
    BY DEF Init
<1>3. ASSUME NEW p \in Providers
      PROVE  /\ has[p] \in SUBSET (Uploads \X Blocks) /\ bad[p] = {}
             /\ Cardinality(has[p]) = used[p] /\ free[p] + used[p] = Capacity[p]
             /\ free[p] \in Nat /\ used[p] \in Nat /\ slack[p] = 0 /\ since[p] = 0
             /\ disk.free[p] = free[p] /\ Kept(p) = 0 /\ Capacity[p] \in Nat
    BY <1>1, <1>2 DEF Kept
<1>4. free \in [Providers -> Nat] /\ used \in [Providers -> Nat]
    BY <1>2, <1>3
<1>5. has \in [Providers -> SUBSET (Uploads \X Blocks)]
    BY <1>2, <1>3
<1> QED
    BY <1>2, <1>3, <1>4, <1>5 DEF StoreInv, SpaceInv, Fits, DiskFits

-----------------------------------------------------------------------------
(* The renter's objects.                                                   *)

\* What was pointed to is there still.
Grows ==
    /\ DOMAIN list \subseteq DOMAIN list'
    /\ \A a \in DOMAIN arrays : a \in DOMAIN arrays' /\ Len(arrays[a]) <= Len(arrays'[a])

\* One object changes, and keeps its array or gets a new one.
LEMMA ObjectOn ==
    ASSUME Objects, NEW e \in DOMAIN list, NEW o \in Object,
           arrays' \in Seq(Seq(Version)), list' = [list EXCEPT ![e] = o],
           \A a \in DOMAIN arrays : a \in DOMAIN arrays' /\ Len(arrays[a]) <= Len(arrays'[a]),
           o.arr \in DOMAIN arrays', o.len <= Len(arrays'[o.arr]),
           o.arr = list[e].arr \/ o.arr \notin DOMAIN arrays
    PROVE  Objects' /\ Grows
<1>1. list' \in Seq(Object) /\ DOMAIN list' = DOMAIN list /\ list' # <<>>
    BY DEF Objects
<1>2. list'[e] = o /\ \A f \in DOMAIN list \ {e} : list'[f] = list[f]
    BY DEF Objects
<1>3. ASSUME NEW f \in DOMAIN list'
      PROVE  list'[f].arr \in DOMAIN arrays' /\ list'[f].len <= Len(arrays'[list'[f].arr])
  <2>1. CASE f = e
    BY <1>2, <2>1
  <2>2. CASE f # e
    <3>1. PICK a \in DOMAIN arrays : a = list[f].arr /\ list[f].len <= Len(arrays[a])
      BY <1>1 DEF Objects
    <3>2. Len(arrays[a]) <= Len(arrays'[a]) /\ a \in DOMAIN arrays'
      OBVIOUS
    <3>3. PICK x \in Nat, y \in Nat, z \in Nat :
            x = Len(arrays[a]) /\ y = Len(arrays'[a]) /\ z = list[f].len
      <4>1. arrays[a] \in Seq(Version) /\ arrays'[a] \in Seq(Version) /\ list[f] \in Object
        BY <1>1, <3>1, <3>2 DEF Objects
      <4>2. \A s \in Seq(Version) : Len(s) \in Nat
        OBVIOUS
      <4>3. list[f].len \in Nat
        BY <4>1 DEF Object
      <4> QED  BY <4>1, <4>2, <4>3
    <3> QED  BY <1>1, <1>2, <2>2, <3>1, <3>2, <3>3
  <2> QED  BY <2>1, <2>2
<1>4. ASSUME NEW f \in DOMAIN list', NEW g \in DOMAIN list', list'[f].arr = list'[g].arr
      PROVE  f = g
    BY <1>1, <1>2, <1>4 DEF Objects
<1> QED
    BY <1>1, <1>3, <1>4 DEF Objects, Grows

\* The objects stay what they are, and their arrays are as long.
LEMMA SameObjects ==
    ASSUME Objects, arrays' \in Seq(Seq(Version)), list' = list,
           \A a \in DOMAIN arrays : a \in DOMAIN arrays' /\ Len(arrays[a]) <= Len(arrays'[a])
    PROVE  Objects' /\ Grows
<1>1. PICK e \in DOMAIN list : TRUE
    BY CacheIs
<1>2. list' = [list EXCEPT ![e] = list[e]] /\ list[e] \in Object
    BY DEF Objects
<1>3. PICK a \in DOMAIN arrays : a = list[e].arr /\ list[e].len <= Len(arrays[a])
    BY DEF Objects
<1>4. PICK x \in Nat, y \in Nat, z \in Nat :
        x = Len(arrays[a]) /\ y = Len(arrays'[a]) /\ z = list[e].len
  <2>1. arrays[a] \in Seq(Version) /\ arrays'[a] \in Seq(Version)
    BY DEF Objects
  <2>2. \A s \in Seq(Version) : Len(s) \in Nat
    OBVIOUS
  <2>3. list[e].len \in Nat
    BY <1>2 DEF Object
  <2> QED  BY <2>1, <2>2, <2>3
<1>5. list[e].len <= Len(arrays'[a])
    BY <1>3, <1>4
<1> QED
    BY <1>2, <1>3, <1>5, ObjectOn

\* A version is written into a slot of an array, or behind its last one.
Writes(a, i, v) ==
    /\ a \in DOMAIN arrays /\ i \in Nat
    /\ arrays' \in Seq(Seq(Version)) /\ DOMAIN arrays' = DOMAIN arrays
    /\ i \in DOMAIN arrays'[a] /\ arrays'[a][i] = v
    /\ \A b \in DOMAIN arrays : Len(arrays[b]) <= Len(arrays'[b])
    /\ \A b \in DOMAIN arrays, j \in Nat :
          <<b, j>> # <<a, i>> =>
              /\ j \in DOMAIN arrays'[b] <=> j \in DOMAIN arrays[b]
              /\ j \in DOMAIN arrays[b] => arrays'[b][j] = arrays[b][j]

\* What a list is when one of its elements is replaced, or one appended.
LEMMA ListOn ==
    ASSUME NEW s \in Seq(Version), NEW v \in Version, NEW i \in 1..(Len(s) + 1),
           NEW r, r = IF i <= Len(s) THEN [s EXCEPT ![i] = v] ELSE Append(s, v)
    PROVE  /\ r \in Seq(Version) /\ Len(s) <= Len(r) /\ i \in DOMAIN r /\ r[i] = v
           /\ \A j \in Nat : j # i =>
                 /\ j \in DOMAIN r <=> j \in DOMAIN s
                 /\ j \in DOMAIN s => r[j] = s[j]
<1>1. CASE i <= Len(s)
    BY <1>1
<1>2. CASE i = Len(s) + 1
  <2>1. r = Append(s, v)
    BY <1>2
  <2> QED  BY <1>2, <2>1
<1> QED
    BY <1>1, <1>2

\* One array changes, in one place or at its end.
LEMMA WriteOn ==
    ASSUME Objects, NEW a \in DOMAIN arrays, NEW v \in Version,
           NEW i \in 1..(Len(arrays[a]) + 1),
           arrays' = [arrays EXCEPT ![a] = IF i <= Len(arrays[a]) THEN [arrays[a] EXCEPT ![i] = v]
                                           ELSE Append(arrays[a], v)]
    PROVE  Writes(a, i, v)
<1>1. PICK s \in Seq(Version) : s = arrays[a]
    BY DEF Objects
<1>2. PICK r : r = IF i <= Len(s) THEN [s EXCEPT ![i] = v] ELSE Append(s, v)
    OBVIOUS
<1>3. /\ r \in Seq(Version) /\ Len(s) <= Len(r) /\ i \in DOMAIN r /\ r[i] = v
      /\ \A j \in Nat : j # i =>
            /\ j \in DOMAIN r <=> j \in DOMAIN s
            /\ j \in DOMAIN s => r[j] = s[j]
    BY <1>1, <1>2, ListOn
<1>4. arrays' = [arrays EXCEPT ![a] = r]
    BY <1>1, <1>2
<1>5. arrays' \in Seq(Seq(Version)) /\ DOMAIN arrays' = DOMAIN arrays
    BY <1>3, <1>4 DEF Objects
<1>6. arrays'[a] = r /\ \A b \in DOMAIN arrays \ {a} : arrays'[b] = arrays[b]
    BY <1>4 DEF Objects
<1>7. ASSUME NEW b \in DOMAIN arrays  PROVE Len(arrays[b]) <= Len(arrays'[b])
  <2>1. arrays[b] \in Seq(Version)
    BY DEF Objects
  <2> QED  BY <1>1, <1>3, <1>6, <2>1
<1>8. ASSUME NEW b \in DOMAIN arrays, NEW j \in Nat, <<b, j>> # <<a, i>>
      PROVE  /\ j \in DOMAIN arrays'[b] <=> j \in DOMAIN arrays[b]
             /\ j \in DOMAIN arrays[b] => arrays'[b][j] = arrays[b][j]
    BY <1>1, <1>3, <1>6, <1>8
<1> QED
    BY <1>3, <1>5, <1>6, <1>7, <1>8 DEF Writes

\* Lengths are numbers.
LEMMA LengthsAre ==
    ASSUME Objects
    PROVE  /\ Len(arrays) \in Nat
           /\ \A a \in DOMAIN arrays : arrays[a] \in Seq(Version) /\ Len(arrays[a]) \in Nat
           /\ \A f \in DOMAIN list : /\ list[f] \in Object /\ list[f].len \in Nat
                                     /\ list[f].arr \in DOMAIN arrays
                                     /\ list[f].len <= Len(arrays[list[f].arr])
<1>1. \A f \in DOMAIN list : list[f] \in Object
    BY DEF Objects
<1>2. \A o \in Object : o.len \in Nat
    BY DEF Object
<1>3. \A a \in DOMAIN arrays : arrays[a] \in Seq(Version)
    BY DEF Objects
<1>4. \A s \in Seq(Version) : Len(s) \in Nat
    OBVIOUS
<1>5. Len(arrays) \in Nat
    BY DEF Objects
<1> QED
    BY <1>1, <1>2, <1>3, <1>4, <1>5 DEF Objects

\* Objects that get shorter.
LEMMA ShorterOn ==
    ASSUME Objects, NEW e \in DOMAIN list, NEW n \in Nat, n <= list[e].len,
           arrays' \in Seq(Seq(Version)), DOMAIN arrays \subseteq DOMAIN arrays',
           \A a \in DOMAIN arrays : Len(arrays[a]) <= Len(arrays'[a]),
           list' = [list EXCEPT ![e].len = n]
    PROVE  /\ Objects' /\ Grows
           /\ DOMAIN list' = DOMAIN list
           /\ \A f \in DOMAIN list : list'[f].arr = list[f].arr /\ list'[f].len <= list[f].len
<1>1. PICK o \in Object : o = list[e] /\ o.arr \in DOMAIN arrays /\ o.len <= Len(arrays[o.arr])
    BY DEF Objects
<1>2. PICK q \in Object : q = [o EXCEPT !.len = n]
    BY DEF Object
<1>3. q.arr = o.arr /\ q.len = n
    BY <1>2 DEF Object
<1>4. list' = [list EXCEPT ![e] = q]
    BY <1>1, <1>2
<1>5. PICK x \in Nat, y \in Nat, z \in Nat :
        x = Len(arrays[o.arr]) /\ y = Len(arrays'[o.arr]) /\ z = o.len
  <2>1. arrays[o.arr] \in Seq(Version) /\ arrays'[o.arr] \in Seq(Version)
    BY <1>1 DEF Objects
  <2>2. \A s \in Seq(Version) : Len(s) \in Nat
    OBVIOUS
  <2>3. o.len \in Nat
    BY DEF Object
  <2> QED  BY <2>1, <2>2, <2>3
<1>6. q.arr \in DOMAIN arrays' /\ q.len <= Len(arrays'[q.arr])
    BY <1>1, <1>3, <1>5
<1>7. Objects' /\ Grows
    BY <1>1, <1>3, <1>4, <1>6, ObjectOn
<1>8. DOMAIN list' = DOMAIN list /\ list'[e] = q /\ \A f \in DOMAIN list \ {e} : list'[f] = list[f]
    BY <1>4 DEF Objects
<1>9. \A f \in DOMAIN list : list[f].len \in Nat
    BY LengthsAre
<1> QED
    BY <1>1, <1>3, <1>7, <1>8, <1>9

\* Each request that gets no longer holds only what it held.
Shorter ==
    /\ DOMAIN list' = DOMAIN list
    /\ \A f \in DOMAIN list : list'[f].arr = list[f].arr /\ list'[f].len <= list[f].len

\* The old version is taken off the end of the object.
LEMMA RemovePreviousObjects ==
    ASSUME TypesInv, NEW t \in Threads, RemovePrevious(t)
    PROVE  Objects' /\ Grows /\ Shorter /\ arrays' = arrays /\ disk' = disk
<1>1. arrays' = arrays /\ disk' = disk /\ Objects
    BY DEF RemovePrevious, TypesInv
<1>2. arrays' \in Seq(Seq(Version)) /\ \A a \in DOMAIN arrays : Len(arrays[a]) <= Len(arrays'[a])
  <2>1. \A a \in DOMAIN arrays : arrays[a] \in Seq(Version)
    BY <1>1 DEF Objects
  <2>2. \A s \in Seq(Version) : Len(s) <= Len(s)
    OBVIOUS
  <2> QED  BY <1>1, <2>1, <2>2 DEF Objects
<1>3. CASE list' = list
  <2>1. \A f \in DOMAIN list : list[f].len \in Nat
    BY <1>1, LengthsAre
  <2> QED  BY <1>1, <1>2, <1>3, <2>1, SameObjects DEF Shorter
<1>4. CASE list' # list
  <2>1. PICK e \in DOMAIN list : list[e].len # 0 /\ list' = [list EXCEPT ![e].len = list[e].len - 1]
    BY <1>4, RemovePreviousOn
  <2>2. list[e].len \in Nat
    BY <1>1, LengthsAre
  <2>3. PICK n \in Nat : n = list[e].len - 1 /\ n <= list[e].len
    BY <2>1, <2>2
  <2> QED  BY <1>1, <1>2, <2>1, <2>3, ShorterOn DEF Shorter
<1> QED
    BY <1>3, <1>4

\* The object is the document now.
Refreshed(e) ==
    /\ doc # Gone /\ arrays' = Append(arrays, doc)
    /\ DOMAIN list' = DOMAIN list
    /\ list'[e].arr = Len(arrays) + 1 /\ list'[e].len = Len(doc)
    /\ \A f \in DOMAIN list \ {e} : list'[f] = list[f]

\* An object one longer, with the version.
Extended(e, v) ==
    /\ Writes(list[e].arr, list[e].len + 1, v)
    /\ DOMAIN list' = DOMAIN list
    /\ list'[e].arr = list[e].arr /\ list'[e].len = list[e].len + 1
    /\ \A f \in DOMAIN list \ {e} : list'[f] = list[f]

\* The object is refreshed from the document; or it gets the version.
LEMMA RefreshObjects ==
    ASSUME TypesInv, NEW t \in Threads, Refresh(t)
    PROVE  /\ Objects' /\ Grows
           /\ \/ /\ Refreshed(thread[t].e)
                 /\ SaveSnapshot /\ UNCHANGED <<suspect, misnumbered>>
              \/ /\ Extended(thread[t].e, thread[t].version)
                 /\ disk' = disk
                 /\ suspect' = suspect \cup {thread[t].version.up} /\ misnumbered'
<1>1. /\ thread[t].pc = "refresh" /\ Objects
      /\ thread \in [Threads -> State] /\ thread[t].e \in DOMAIN list
      /\ doc = Gone \/ doc \in Seq(Version)
    BY DEF Refresh, TypesInv, Working
<1>2. PICK e \in DOMAIN list, v \in Version : e = thread[t].e /\ v = thread[t].version
    BY <1>1, States DEF Upload
<1>3. PICK o \in Object : o = list[e] /\ o.arr \in DOMAIN arrays /\ o.len <= Len(arrays[o.arr])
    BY <1>1 DEF Objects
<1>4. PICK s \in Seq(Version) : s = arrays[o.arr]
    BY <1>1, <1>3 DEF Objects
<1>5. CASE /\ doc # Gone /\ arrays' = Append(arrays, doc)
           /\ list' = [list EXCEPT ![e].arr = Len(arrays) + 1, ![e].len = Len(doc)]
           /\ SaveSnapshot /\ UNCHANGED <<suspect, misnumbered>>
  <2>1. PICK d \in Seq(Version), m \in Nat, n \in Nat :
          d = doc /\ m = Len(arrays) /\ n = Len(d) /\ arrays \in Seq(Seq(Version))
    <3>1. \A r \in Seq(Version) : Len(r) \in Nat
      OBVIOUS
    <3> QED  BY <1>1, <1>5, <3>1, LengthsAre DEF Objects
  <2>2. PICK q \in Object : q = [o EXCEPT !.arr = m + 1, !.len = n]
    <3>4. PICK k \in Nat, l \in Nat : k = m + 1 /\ l = n
      <4>1. m \in Nat /\ n \in Nat
        OBVIOUS
      <4>2. m + 1 \in Nat
        BY <4>1
      <4> QED  BY <4>1, <4>2
    <3>1. PICK q1 \in Object : q1 = [o EXCEPT !.arr = k]
      <4>1. [o EXCEPT !.arr = k] \in Object
        BY DEF Object
      <4> QED  BY <4>1
    <3>2. [q1 EXCEPT !.len = l] \in Object
      BY DEF Object
    <3>3. [o EXCEPT !.arr = m + 1, !.len = n] = [q1 EXCEPT !.len = l]
      BY <3>1, <3>4
    <3> QED  BY <3>2, <3>3
  <2>3. q.arr = m + 1 /\ q.len = n
    BY <2>2 DEF Object
  <2>4. list' = [list EXCEPT ![e] = q]
    BY <1>3, <1>5, <2>1, <2>2
  <2>5. /\ arrays' \in Seq(Seq(Version)) /\ m + 1 \in DOMAIN arrays' /\ arrays'[m + 1] = d
        /\ m + 1 \notin DOMAIN arrays
        /\ \A a \in DOMAIN arrays : a \in DOMAIN arrays' /\ arrays'[a] = arrays[a]
    BY <1>5, <2>1
  <2>6. \A a \in DOMAIN arrays : Len(arrays[a]) <= Len(arrays'[a])
    <3>1. \A a \in DOMAIN arrays : arrays[a] \in Seq(Version)
      BY <2>1
    <3>2. \A r \in Seq(Version) : Len(r) <= Len(r)
      OBVIOUS
    <3> QED  BY <2>5, <3>1, <3>2
  <2>7. Objects' /\ Grows
    <3>1. q.arr \in DOMAIN arrays' /\ q.len <= Len(arrays'[q.arr]) /\ q.arr \notin DOMAIN arrays
      BY <2>1, <2>3, <2>5
    <3> QED  BY <1>1, <2>4, <2>5, <2>6, <3>1, ObjectOn
  <2>8. DOMAIN list' = DOMAIN list /\ list'[e] = q /\ \A f \in DOMAIN list \ {e} : list'[f] = list[f]
    BY <1>1, <2>4 DEF Objects
  <2>9. Refreshed(e)
    BY <1>5, <2>1, <2>3, <2>8 DEF Refreshed
  <2> QED  BY <1>2, <1>5, <2>7, <2>9
<1>6. CASE /\ arrays' = [arrays EXCEPT ![o.arr] =
                            IF o.len < Len(@) THEN [@ EXCEPT ![o.len + 1] = v] ELSE Append(@, v)]
           /\ list' = [list EXCEPT ![e].len = @ + 1]
           /\ suspect' = suspect \cup {v.up} /\ misnumbered' = TRUE
           /\ disk' = disk
  <2>1. PICK n \in Nat : n = o.len /\ n <= Len(s)
    BY <1>3, <1>4 DEF Object
  <2>2. PICK i \in 1..(Len(s) + 1) : i = n + 1
    BY <2>1
  <2>3. i <= Len(s) <=> n < Len(s)
    BY <2>1, <2>2
  <2>4. arrays' = [arrays EXCEPT ![o.arr] = IF i <= Len(arrays[o.arr])
                                            THEN [arrays[o.arr] EXCEPT ![i] = v]
                                            ELSE Append(arrays[o.arr], v)]
    BY <1>4, <1>6, <2>1, <2>2, <2>3
  <2>5. Writes(o.arr, i, v)
    BY <1>1, <1>3, <1>4, <2>4, WriteOn
  <2>6. PICK q \in Object : q = [o EXCEPT !.len = n + 1]
    <3>1. [o EXCEPT !.len = n + 1] \in Object
      BY <2>1 DEF Object
    <3> QED  BY <3>1
  <2>7. q.arr = o.arr /\ q.len = n + 1
    BY <2>6 DEF Object
  <2>8. list' = [list EXCEPT ![e] = q]
    BY <1>3, <1>6, <2>1, <2>6
  <2>9. q.len <= Len(arrays'[q.arr]) /\ q.arr \in DOMAIN arrays'
    <3>1. i \in DOMAIN arrays'[o.arr] /\ arrays'[o.arr] \in Seq(Version) /\ o.arr \in DOMAIN arrays'
      BY <1>3, <2>5 DEF Writes
    <3> QED  BY <2>2, <2>7, <3>1
  <2>10. Objects' /\ Grows
    BY <1>1, <1>3, <2>5, <2>7, <2>8, <2>9, ObjectOn DEF Writes
  <2>11. DOMAIN list' = DOMAIN list /\ list'[e] = q /\ \A f \in DOMAIN list \ {e} : list'[f] = list[f]
    BY <1>1, <2>8 DEF Objects
  <2>12. Extended(e, v)
    BY <1>3, <2>1, <2>2, <2>5, <2>7, <2>11 DEF Extended
  <2> QED  BY <1>2, <1>6, <2>10, <2>12
<1>7. QED
    BY <1>2, <1>3, <1>5, <1>6 DEF Refresh

\* The versions behind the removed one move up in the array.
MovesUp(a, i, n) ==
    /\ a \in DOMAIN arrays /\ i \in Nat \ {0} /\ n \in Nat /\ i <= n /\ n <= Len(arrays[a])
    /\ arrays' = [arrays EXCEPT ![a] =
                     [k \in DOMAIN arrays[a] |-> IF k \in i..(n - 1) THEN arrays[a][k + 1]
                                                 ELSE arrays[a][k]]]

\* The arrays keep their lengths.
LEMMA MovesUpOn ==
    ASSUME Objects, NEW a, NEW i, NEW n, MovesUp(a, i, n)
    PROVE  /\ arrays' \in Seq(Seq(Version)) /\ DOMAIN arrays' = DOMAIN arrays
           /\ DOMAIN arrays'[a] = DOMAIN arrays[a]
           /\ \A k \in DOMAIN arrays[a] :
                 /\ k \in i..(n - 1) => k + 1 \in DOMAIN arrays[a] /\ arrays'[a][k] = arrays[a][k + 1]
                 /\ k \notin i..(n - 1) => arrays'[a][k] = arrays[a][k]
           /\ \A b \in DOMAIN arrays \ {a} : arrays'[b] = arrays[b]
           /\ \A b \in DOMAIN arrays : Len(arrays[b]) <= Len(arrays'[b])
<1>1. PICK s \in Seq(Version) : s = arrays[a] /\ a \in DOMAIN arrays
    BY DEF Objects, MovesUp
<1>2. PICK r : r = [k \in DOMAIN s |-> IF k \in i..(n - 1) THEN s[k + 1] ELSE s[k]]
    OBVIOUS
<1>3. n \in Nat /\ i \in Nat /\ n <= Len(s) /\ 1 <= i
    BY <1>1 DEF MovesUp
<1>4. DOMAIN s = 1..Len(s) /\ \A k \in DOMAIN s : s[k] \in Version
    OBVIOUS
<1>5. \A k \in i..(n - 1) : k + 1 \in DOMAIN s
    BY <1>3, <1>4
<1>6. r \in [1..Len(s) -> Version]
    BY <1>2, <1>4, <1>5
<1>7. r \in Seq(Version) /\ Len(r) = Len(s) /\ DOMAIN r = DOMAIN s
    BY <1>6
<1>8. arrays' = [arrays EXCEPT ![a] = r]
    BY <1>1, <1>2, Zenon DEF MovesUp
<1>9. arrays' \in Seq(Seq(Version)) /\ DOMAIN arrays' = DOMAIN arrays
    BY <1>1, <1>7, <1>8 DEF Objects
<1>10. arrays'[a] = r /\ \A b \in DOMAIN arrays \ {a} : arrays'[b] = arrays[b]
    BY <1>8 DEF Objects, MovesUp
<1>11. \A k \in DOMAIN s : /\ k \in i..(n - 1) => r[k] = s[k + 1]
                           /\ k \notin i..(n - 1) => r[k] = s[k]
    BY <1>2
<1>12. ASSUME NEW b \in DOMAIN arrays  PROVE Len(arrays[b]) <= Len(arrays'[b])
  <2>1. Len(arrays[b]) \in Nat
    BY LengthsAre
  <2> QED  BY <1>1, <1>7, <1>10, <2>1
<1> QED
    BY <1>1, <1>5, <1>7, <1>9, <1>10, <1>11, <1>12

\* The version is cut out, if it is in the object still.
LEMMA RemoveVersionObjects ==
    ASSUME TypesInv, NEW t \in Threads, RemoveVersion(t)
    PROVE  /\ Objects' /\ Grows /\ Shorter
           /\ \/ UNCHANGED renterVars
              \/ /\ MovesUp(list[thread[t].e].arr, thread[t].slot[2], list[thread[t].e].len)
                 /\ SaveSnapshot
                 /\ list' = [list EXCEPT ![thread[t].e].len = @ - 1]
<1>1. /\ thread[t].pc = "removeVersion" /\ Objects /\ thread \in [Threads -> State]
      /\ thread[t].e \in DOMAIN list /\ IsSlot(thread[t].slot)
    BY DEF RemoveVersion, TypesInv, Working
<1>2. PICK e \in DOMAIN list, i \in Nat : e = thread[t].e /\ i = thread[t].slot[2] /\ 1 <= i
  <2>1. arrays[thread[t].slot[1]] \in Seq(Version)
    BY <1>1 DEF Objects, IsSlot
  <2>2. thread[t].slot[2] \in 1..Len(arrays[thread[t].slot[1]])
    BY <1>1, <2>1 DEF IsSlot
  <2> QED  BY <1>1, <2>2
<1>3. PICK n \in Nat, a \in DOMAIN arrays :
        n = list[e].len /\ a = list[e].arr /\ n <= Len(arrays[a]) /\ arrays[a] \in Seq(Version)
    BY <1>1, LengthsAre
<1>4. CASE i > n
  <2>1. UNCHANGED renterVars
    BY <1>2, <1>3, <1>4 DEF RemoveVersion
  <2>2. Objects' /\ Grows
    <3>1. arrays' = arrays /\ list' = list /\ arrays \in Seq(Seq(Version))
      BY <1>1, <2>1 DEF renterVars, Objects
    <3>2. \A b \in DOMAIN arrays : Len(arrays[b]) <= Len(arrays[b])
      <4>1. \A b \in DOMAIN arrays : Len(arrays[b]) \in Nat
        BY <1>1, LengthsAre
      <4> QED  BY <4>1
    <3> QED  BY <1>1, <3>1, <3>2, SameObjects
  <2>3. Shorter
    <3>1. \A f \in DOMAIN list : list[f].len \in Nat
      BY <1>1, LengthsAre
    <3> QED  BY <2>1, <3>1 DEF renterVars, Shorter
  <2> QED  BY <2>1, <2>2, <2>3
<1>5. CASE i <= n
  <2>1. /\ SaveSnapshot
        /\ list' = [list EXCEPT ![e].len = @ - 1]
        /\ arrays' = [arrays EXCEPT ![a] =
                        [k \in DOMAIN @ |-> IF k \in i..(n - 1) THEN @[k + 1] ELSE @[k]]]
    <3>1. ~(i > n)
      BY <1>5
    <3> QED  BY <1>2, <1>3, <3>1 DEF RemoveVersion
  <2>2. arrays' = [arrays EXCEPT ![a] =
                     [k \in DOMAIN arrays[a] |-> IF k \in i..(n - 1) THEN arrays[a][k + 1]
                                                 ELSE arrays[a][k]]]
    BY <2>1
  <2>3. MovesUp(a, i, n)
    BY <1>2, <1>3, <1>5, <2>2 DEF MovesUp
  <2>4. PICK m \in Nat : m = n - 1 /\ m <= n
    BY <1>2, <1>5
  <2>5. list' = [list EXCEPT ![e].len = m]
    BY <1>3, <2>1, <2>4
  <2>6. /\ arrays' \in Seq(Seq(Version)) /\ DOMAIN arrays' = DOMAIN arrays
        /\ \A b \in DOMAIN arrays : Len(arrays[b]) <= Len(arrays'[b])
    BY <1>1, <2>3, MovesUpOn
  <2>7. Objects' /\ Grows /\ Shorter
    BY <1>1, <1>3, <2>4, <2>5, <2>6, ShorterOn DEF Shorter
  <2> QED  BY <1>2, <1>3, <2>1, <2>3, <2>7
<1>6. i > n \/ i <= n
    OBVIOUS
<1> QED
    BY <1>4, <1>5, <1>6

\* The file goes from the list; nothing else of the objects changes.
LEMMA RemoveFileObjects ==
    ASSUME TypesInv, NEW t \in Threads, RemoveFileContents(t)
    PROVE  /\ Objects' /\ Grows /\ Shorter /\ arrays' = arrays
           /\ disk' = disk \/ SaveSnapshot
<1>1. Objects
    BY DEF TypesInv
<1>2. /\ arrays' = arrays /\ (disk' = disk \/ SaveSnapshot)
      /\ list' = list \/ list' = [list EXCEPT ![Len(list)].there = FALSE]
    BY DEF RemoveFileContents, renterVars
<1>3. /\ arrays' \in Seq(Seq(Version))
      /\ \A b \in DOMAIN arrays : Len(arrays[b]) \in Nat /\ Len(arrays[b]) <= Len(arrays'[b])
  <2>1. \A b \in DOMAIN arrays : Len(arrays[b]) \in Nat
    BY <1>1, LengthsAre
  <2> QED  BY <1>1, <1>2, <2>1 DEF Objects
<1>4. \A f \in DOMAIN list : list[f].len \in Nat
    BY <1>1, LengthsAre
<1>5. CASE list' = list
    BY <1>1, <1>2, <1>3, <1>4, <1>5, SameObjects DEF Shorter
<1>6. CASE list' = [list EXCEPT ![Len(list)].there = FALSE]
  <2>1. PICK e \in DOMAIN list : e = Len(list)
    BY <1>1, CacheIs
  <2>2. PICK o \in Object : o = list[e] /\ o.arr \in DOMAIN arrays /\ o.len <= Len(arrays[o.arr])
    BY <1>1, LengthsAre
  <2>3. PICK q \in Object : q = [o EXCEPT !.there = FALSE]
    <3>1. [o EXCEPT !.there = FALSE] \in Object
      BY DEF Object
    <3> QED  BY <3>1
  <2>4. q.arr = o.arr /\ q.len = o.len
    BY <2>3 DEF Object
  <2>5. list' = [list EXCEPT ![e] = q]
    BY <1>6, <2>1, <2>2, <2>3
  <2>6. q.arr \in DOMAIN arrays' /\ q.len <= Len(arrays'[q.arr])
    BY <1>2, <2>2, <2>4
  <2>7. Objects' /\ Grows
    BY <1>1, <1>2, <1>3, <2>2, <2>4, <2>5, <2>6, ObjectOn
  <2>8. Shorter
    <3>1. DOMAIN list' = DOMAIN list /\ list'[e] = q /\ \A f \in DOMAIN list \ {e} : list'[f] = list[f]
      BY <1>1, <2>5 DEF Objects
    <3> QED  BY <1>4, <2>2, <2>4, <3>1 DEF Shorter
  <2> QED  BY <1>2, <2>7, <2>8
<1> QED
    BY <1>2, <1>5, <1>6

\* The sender of the file keeps the objects, and may save them.
LEMMA UpdateFileObjects ==
    ASSUME TypesInv, NEW t \in Threads, UpdateFile(t)
    PROVE  /\ Objects' /\ Grows /\ Shorter /\ arrays' = arrays
           /\ disk' = disk \/ SaveSnapshot
<1>1. Objects
    BY DEF TypesInv
<1>2. arrays' = arrays /\ (disk' = disk \/ SaveSnapshot) /\ list' = list
    BY DEF UpdateFile, renterVars
<1>3. /\ arrays' \in Seq(Seq(Version))
      /\ \A b \in DOMAIN arrays : Len(arrays[b]) \in Nat /\ Len(arrays[b]) <= Len(arrays'[b])
  <2>1. \A b \in DOMAIN arrays : Len(arrays[b]) \in Nat
    BY <1>1, LengthsAre
  <2> QED  BY <1>1, <1>2, <2>1 DEF Objects
<1>4. \A f \in DOMAIN list : list[f].len \in Nat
    BY <1>1, LengthsAre
<1> QED
    BY <1>1, <1>2, <1>3, <1>4, SameObjects DEF Shorter

\* What was pulled is one more object, and the cache.
LEMMA PullFilesObjects ==
    ASSUME TypesInv, NEW t \in Threads, PullFiles(t)
    PROVE  /\ Objects' /\ Grows /\ SaveSnapshot
           /\ thread[t] \in Pulling /\ arrays' = Append(arrays, thread[t].body)
           /\ DOMAIN list' = DOMAIN list \cup {Len(list) + 1}
           /\ \A f \in DOMAIN list : list'[f] = list[f]
           /\ list'[Len(list) + 1].arr = Len(arrays) + 1
           /\ list'[Len(list) + 1].len = Len(thread[t].body)
<1>1. Objects /\ thread[t].pc = "pull" /\ thread \in [Threads -> State] /\ SaveSnapshot
    BY DEF TypesInv, PullFiles
<1>2. PICK s \in Pulling : s = thread[t]
    BY <1>1, States
<1>3. PICK body \in Seq(Version), there \in BOOLEAN : body = s.body /\ there = s.there
    BY DEF Pulling
<1>4. PICK m \in Nat, n \in Nat, k \in Nat :
        m = Len(arrays) /\ n = Len(body) /\ k = Len(list)
        /\ arrays \in Seq(Seq(Version)) /\ list \in Seq(Object)
  <2>1. Len(arrays) \in Nat /\ Len(body) \in Nat /\ Len(list) \in Nat
    BY <1>1, LengthsAre DEF Objects
  <2> QED  BY <1>1, <2>1 DEF Objects
<1>5. PICK o \in Object : o.arr = m + 1 /\ o.len = n /\ list' = Append(list, o)
  <2>1. [there |-> there, arr |-> m + 1, len |-> n] \in Object
    BY DEF Object
  <2>2. list' = Append(list, [there |-> there, arr |-> m + 1, len |-> n])
    BY <1>2, <1>3, <1>4 DEF PullFiles
  <2> QED  BY <2>1, <2>2
<1>6. arrays' = Append(arrays, body)
    BY <1>2, <1>3 DEF PullFiles
<1>7. /\ arrays' \in Seq(Seq(Version)) /\ m + 1 \in DOMAIN arrays' /\ arrays'[m + 1] = body
      /\ m + 1 \notin DOMAIN arrays
      /\ \A a \in DOMAIN arrays : a \in DOMAIN arrays' /\ arrays'[a] = arrays[a]
    BY <1>4, <1>6
<1>8. /\ list' \in Seq(Object) /\ DOMAIN list' = DOMAIN list \cup {k + 1} /\ list' # <<>>
      /\ list'[k + 1] = o /\ \A f \in DOMAIN list : list'[f] = list[f]
    BY <1>4, <1>5
<1>9. \A f \in DOMAIN list : list[f].arr \in DOMAIN arrays /\ list[f].len <= Len(arrays[list[f].arr])
    BY <1>1 DEF Objects
<1>10. n <= Len(arrays'[m + 1])
    BY <1>4, <1>7
<1>11. ASSUME NEW f \in DOMAIN list'
       PROVE  list'[f].arr \in DOMAIN arrays' /\ list'[f].len <= Len(arrays'[list'[f].arr])
  <2>1. CASE f = k + 1
    BY <1>5, <1>7, <1>8, <1>10, <2>1
  <2>2. CASE f \in DOMAIN list
    BY <1>7, <1>8, <1>9, <2>2
  <2> QED  BY <1>8, <2>1, <2>2
<1>12. ASSUME NEW f \in DOMAIN list', NEW g \in DOMAIN list', list'[f].arr = list'[g].arr
       PROVE  f = g
  <2>1. CASE f \in DOMAIN list /\ g \in DOMAIN list
    BY <1>1, <1>8, <1>12, <2>1 DEF Objects
  <2>2. CASE ~(f \in DOMAIN list /\ g \in DOMAIN list)
    BY <1>5, <1>7, <1>8, <1>9, <1>12, <2>2
  <2> QED  BY <2>1, <2>2
<1>13. Objects'
    BY <1>7, <1>8, <1>11, <1>12 DEF Objects
<1>14. Grows
  <2>1. \A a \in DOMAIN arrays : Len(arrays[a]) \in Nat
    BY <1>1, LengthsAre
  <2> QED  BY <1>7, <1>8, <2>1 DEF Grows
<1> QED
    BY <1>1, <1>2, <1>3, <1>4, <1>5, <1>6, <1>8, <1>13, <1>14

\* The uploads of a list of versions.
LEMMA UpsTypes ==
    ASSUME NEW s \in Seq(Version)
    PROVE  Ups(s) \subseteq Uploads
<1>1. \A i \in DOMAIN s : s[i] \in Version
    OBVIOUS
<1>2. \A v \in Version : v.up \in Uploads
    BY DEF Version
<1> QED
    BY <1>1, <1>2 DEF Ups

\* The slots that requests point to are slots still.
LEMMA SlotsStay ==
    ASSUME Objects, Grows, arrays' \in Seq(Seq(Version)), NEW slot, IsSlot(slot)
    PROVE  /\ IsSlot(slot)' /\ arrays[slot[1]][slot[2]] \in Version
           /\ arrays'[slot[1]][slot[2]] \in Version
<1>1. PICK a \in DOMAIN arrays, s \in Seq(Version), r \in Seq(Version) :
        a = slot[1] /\ s = arrays[a] /\ r = arrays'[a] /\ a \in DOMAIN arrays'
    BY DEF IsSlot, Objects, Grows
<1>2. slot[2] \in DOMAIN s /\ Len(s) <= Len(r)
    BY <1>1 DEF IsSlot, Grows
<1>3. slot[2] \in DOMAIN r /\ s[slot[2]] \in Version /\ r[slot[2]] \in Version
    BY <1>2
<1> QED
    BY <1>1, <1>3 DEF IsSlot

\* What is removed under a pointer is noted, if it is not what was deleted.
LEMMA SlippedOn ==
    ASSUME TypesInv, NEW t \in Threads, RemovePrevious(t) \/ RemoveVersion(t)
    PROVE  /\ suspect' = suspect \cup Slipped(t) /\ Slipped(t) \subseteq Uploads
           /\ thread[t].pc \in {"removePrevious", "removeVersion"} /\ IsSlot(thread[t].slot)
           /\ \/ At(thread[t].slot).num = thread[t].num
              \/ At(thread[t].slot).up \in suspect'
<1>1. /\ suspect' = suspect \cup Slipped(t)
      /\ thread[t].pc \in {"removePrevious", "removeVersion"} /\ IsSlot(thread[t].slot)
    BY DEF RemovePrevious, RemoveVersion, TypesInv, Working
<1>2. At(thread[t].slot).up \in Uploads
    BY <1>1, AtSlot DEF TypesInv, Version
<1> QED
    BY <1>1, <1>2 DEF Slipped

\* The restorer's new version goes into the cached object, and the object is
\* sent.
Replaces ==
    LET versions == Slice(Cached)
        slot == Slot(versions, restorer.num)
    IN  /\ restorer.num \in Nums(versions) /\ slot \in DOMAIN versions
        /\ Writes(Cached.arr, slot, restorer.new)
        /\ restorer' \in Writing
        /\ restorer'.body = [versions EXCEPT ![slot] = restorer.new]
        /\ restorer'.e = Len(list) /\ restorer'.slot = slot /\ restorer'.old = versions[slot]

\* The restorer replaces the version, or finds the file or the number gone.
LEMMA UpdateFileVersionObjects ==
    ASSUME TypesInv, UpdateFileVersion
    PROVE  /\ Objects' /\ Grows /\ list' = list /\ disk' = disk
           /\ restorer \in Storing
           /\ \/ Replaces
              \/ restorer' = [pc |-> "idle"] /\ UNCHANGED arrays
<1>1. /\ Objects /\ list' = list /\ disk' = disk /\ restorer.pc = "round"
      /\ restorer \in Storing
    BY DEF TypesInv, UpdateFileVersion, Storing, Resting, Writing
<1>2. Len(list) \in DOMAIN list /\ Cached = list[Len(list)]
    BY <1>1, CacheIs
<1>3. CASE restorer' = [pc |-> "idle"] /\ UNCHANGED arrays
  <2>1. arrays' \in Seq(Seq(Version)) /\ \A b \in DOMAIN arrays : Len(arrays[b]) \in Nat
    BY <1>1, <1>3, LengthsAre DEF Objects
  <2>2. Objects' /\ Grows
    BY <1>1, <1>3, <2>1, SameObjects
  <2> QED  BY <1>1, <1>3, <2>2
<1>4. CASE Cached.there /\ restorer.num \in Nums(Slice(Cached))
  <2>1. PICK s \in Seq(Version), a \in DOMAIN arrays, n \in Nat :
          /\ s = Slice(Cached) /\ a = Cached.arr /\ n = Len(s) /\ n <= Len(arrays[a])
          /\ arrays[a] \in Seq(Version)
    <3>1. /\ Slice(Cached) \in Seq(Version) /\ Cached.arr \in DOMAIN arrays
          /\ Len(Slice(Cached)) = Cached.len /\ Cached.len \in Nat
          /\ Cached.len <= Len(arrays[Cached.arr])
          /\ arrays[Cached.arr] \in Seq(Version)
      BY <1>1, <1>2, SliceOf, LengthsAre
    <3> QED  BY <3>1
  <2>2. PICK i \in DOMAIN s : i = Slot(s, restorer.num)
    BY <1>4, <2>1, SlotOf
  <2>3. /\ arrays' = [arrays EXCEPT ![a][i] = restorer.new]
        /\ restorer' = [pc |-> "put", body |-> [s EXCEPT ![i] = restorer.new], e |-> Len(list),
                        slot |-> i, old |-> s[i]]
    BY <1>4, <2>1, <2>2, Zenon DEF UpdateFileVersion
  <2>4. restorer.new \in Version
    BY <1>1 DEF Storing
  <2>5. i \in 1..(Len(arrays[a]) + 1) /\ i <= Len(arrays[a]) /\ i \in Nat
    BY <2>1
  <2>6. Writes(a, i, restorer.new)
    <3>1. arrays' = [arrays EXCEPT ![a] = IF i <= Len(arrays[a])
                                          THEN [arrays[a] EXCEPT ![i] = restorer.new]
                                          ELSE Append(arrays[a], restorer.new)]
      BY <2>3, <2>5
    <3> QED  BY <1>1, <2>4, <2>5, <3>1, WriteOn
  <2>7. [s EXCEPT ![i] = restorer.new] \in Seq(Version) /\ s[i] \in Version /\ Len(list) \in Nat
    BY <1>1, <2>4 DEF Objects
  <2>8. restorer' \in Writing /\ restorer'.body = [s EXCEPT ![i] = restorer.new]
        /\ restorer'.e = Len(list) /\ restorer'.slot = i /\ restorer'.old = s[i]
    BY <2>3, <2>5, <2>7 DEF Writing
  <2>9. Objects' /\ Grows
    BY <1>1, <2>6, SameObjects DEF Writes
  <2>10. Replaces
    BY <1>4, <2>1, <2>2, <2>3, <2>6, <2>8 DEF Replaces
  <2> QED  BY <1>1, <2>9, <2>10
<1> QED
    BY <1>3, <1>4 DEF UpdateFileVersion

\* A restart has the file of the snapshot in one object.
LEMMA RestartOn ==
    ASSUME TypesInv, Restart
    PROVE  /\ Objects' /\ disk' = disk /\ disk.versions \in Seq(Version)
           /\ arrays' = <<disk.versions>> /\ DOMAIN list' = {1}
           /\ list'[1].arr = 1 /\ list'[1].len = Len(disk.versions)
           /\ thread' = [t \in Threads |-> [pc |-> "idle"]]
           /\ restorer' = [pc |-> "idle"] /\ queue' = {}
<1>1. PICK versions \in Seq(Version), there \in BOOLEAN :
        versions = disk.versions /\ there = disk.there
    BY DEF TypesInv, Snapshot
<1>2. PICK o \in Object : /\ o.arr = 1 /\ o.len = Len(versions) /\ list' = <<o>>
  <2>1. Len(versions) \in Nat
    OBVIOUS
  <2>2. [there |-> there, arr |-> 1, len |-> Len(versions)] \in Object
    BY <2>1 DEF Object
  <2> QED  BY <1>1, <2>2 DEF Restart
<1>3. arrays' = <<versions>> /\ arrays' \in Seq(Seq(Version)) /\ DOMAIN arrays' = {1}
      /\ arrays'[1] = versions
    BY <1>1 DEF Restart
<1>4. list' \in Seq(Object) /\ DOMAIN list' = {1} /\ list'[1] = o /\ list' # <<>>
    BY <1>2
<1>5. Len(versions) <= Len(versions)
    OBVIOUS
<1>6. Objects'
    BY <1>2, <1>3, <1>4, <1>5 DEF Objects
<1> QED
    BY <1>1, <1>2, <1>3, <1>4, <1>6 DEF Restart

\* The old version goes back into the slot.
GoesBack ==
    /\ restorer.slot \in DOMAIN Slice(list[restorer.e])
    /\ Writes(list[restorer.e].arr, restorer.slot, restorer.old)
    /\ misnumbered' = (misnumbered \/
          arrays[list[restorer.e].arr][restorer.slot].num # restorer.old.num)

\* The answer to the restorer: it may write its old version back, or die.
LEMMA RestoredPutOn ==
    ASSUME TypesInv, RestoredPut
    PROVE  /\ restorer \in Writing /\ restorer.e \in DOMAIN list
           /\ spent' \in Spending /\ spent'.uploads = spent.uploads
           /\ \/ Restart /\ misnumbered' = misnumbered
              \/ /\ Objects' /\ Grows
                 /\ UNCHANGED <<list, disk, thread, queue>> /\ restorer' = [pc |-> "idle"]
                 /\ \/ arrays' = arrays /\ misnumbered' = misnumbered
                    \/ GoesBack
           /\ suspect \subseteq suspect' /\ suspect' \subseteq Uploads
           /\ \/ doc' = doc /\ dropped' = dropped
              \/ /\ doc # Gone /\ doc' = restorer.body
                 /\ Ups(restorer.body) \ Ups(doc) \subseteq suspect'
                 /\ dropped' = dropped \cup (Ups(doc) \ Ups(restorer.body))
<1>1. /\ restorer.pc = "put" /\ Objects /\ restorer \in Writing
      /\ restorer.e \in DOMAIN list /\ restorer.slot # 0 /\ spent \in Spending
      /\ suspect \subseteq Uploads
    BY DEF TypesInv, RestoredPut, Writing, Storing, Resting, Restoring
<1>2. PICK e \in DOMAIN list, i \in Nat, v \in Version, body \in Seq(Version) :
        /\ e = restorer.e /\ i = restorer.slot /\ v = restorer.old /\ body = restorer.body
        /\ 1 <= i
    BY <1>1 DEF Writing
<1>3. PICK a \in DOMAIN arrays, n \in Nat :
        a = list[e].arr /\ n = list[e].len /\ n <= Len(arrays[a]) /\ arrays[a] \in Seq(Version)
    BY <1>1, LengthsAre
<1>4. PICK reply \in Replies, failed \in BOOLEAN, back \in BOOLEAN :
        /\ (failed <=> (doc = Gone \/ reply # "ok")) /\ (back <=> (failed /\ i <= n))
        /\ Reply(reply)
        /\ IF failed /\ ~back
           THEN Restart /\ UNCHANGED misnumbered
           ELSE /\ arrays' = IF back THEN [arrays EXCEPT ![a][i] = v] ELSE arrays
                /\ misnumbered' = (misnumbered \/ (back /\ arrays[a][i].num # v.num))
                /\ restorer' = [pc |-> "idle"]
                /\ UNCHANGED <<list, disk, free, slack, since, thread, queue>>
        /\ IF doc # Gone /\ reply # "refused"
           THEN PutDocument(body)
           ELSE UNCHANGED <<doc, suspect, dropped>>
    BY <1>2, <1>3 DEF RestoredPut
<1>5. spent' \in Spending /\ spent'.uploads = spent.uploads
    BY <1>1, <1>4, ReplyOn
<1>6. /\ suspect \subseteq suspect'
      /\ \/ doc' = doc /\ dropped' = dropped
         \/ /\ doc # Gone /\ doc' = restorer.body
            /\ Ups(restorer.body) \ Ups(doc) \subseteq suspect'
            /\ dropped' = dropped \cup (Ups(doc) \ Ups(restorer.body))
    BY <1>2, <1>4 DEF PutDocument
<1>7. Ups(body) \subseteq Uploads
    BY UpsTypes
<1>8. CASE failed /\ ~back
  <2>1. suspect' \subseteq Uploads
    BY <1>1, <1>4, <1>7, <1>8 DEF PutDocument
  <2> QED  BY <1>1, <1>4, <1>5, <1>6, <1>8, <2>1
<1>9. CASE ~failed
  <2>1. /\ arrays' = arrays /\ misnumbered' = misnumbered /\ restorer' = [pc |-> "idle"]
        /\ UNCHANGED <<list, disk, thread, queue>>
    BY <1>4, <1>9 DEF TypesInv
  <2>2. Objects' /\ Grows
    <3>1. arrays' \in Seq(Seq(Version)) /\ \A b \in DOMAIN arrays : Len(arrays[b]) \in Nat
      BY <1>1, <2>1, LengthsAre DEF Objects
    <3> QED  BY <1>1, <2>1, <3>1, SameObjects
  <2>3. suspect' \subseteq Uploads
    BY <1>1, <1>4, <1>7, <1>9 DEF PutDocument
  <2> QED  BY <1>1, <1>5, <1>6, <2>1, <2>2, <2>3
<1>10. CASE back
  <2>1. /\ arrays' = [arrays EXCEPT ![a][i] = v]
        /\ misnumbered' = (misnumbered \/ arrays[a][i].num # v.num)
        /\ restorer' = [pc |-> "idle"]
        /\ UNCHANGED <<list, disk, thread, queue>>
        /\ i <= n /\ failed
    BY <1>4, <1>10
  <2>2. i \in 1..(Len(arrays[a]) + 1) /\ i <= Len(arrays[a])
    BY <1>2, <1>3, <2>1
  <2>3. Writes(a, i, v)
    <3>1. arrays' = [arrays EXCEPT ![a] = IF i <= Len(arrays[a]) THEN [arrays[a] EXCEPT ![i] = v]
                                          ELSE Append(arrays[a], v)]
      BY <2>1, <2>2
    <3> QED  BY <1>1, <2>2, <3>1, WriteOn
  <2>4. Objects' /\ Grows
    BY <1>1, <2>1, <2>3, SameObjects DEF Writes
  <2>5. suspect' \subseteq Uploads
    BY <1>1, <1>4, <1>7 DEF PutDocument
  <2>6. i \in DOMAIN Slice(list[e])
    <3>1. Slice(list[e]) \in Seq(Version) /\ Len(Slice(list[e])) = n
      BY <1>1, <1>3, SliceOf
    <3> QED  BY <1>2, <2>1, <3>1
  <2>8. GoesBack
    BY <1>2, <1>3, <2>1, <2>3, <2>6 DEF GoesBack
  <2> QED  BY <1>1, <1>5, <1>6, <2>1, <2>4, <2>5, <2>8
<1> QED
    BY <1>4, <1>8, <1>9, <1>10

\* A moved version is the version, its blocks where they were or landed.
LEMMA RelocateIs ==
    ASSUME restorer \in Storing, NEW at, NEW result, Rounds(at, result), NEW v \in Version
    PROVE  /\ Relocate(at, result, v) \in Version
           /\ Relocate(at, result, v).num = v.num /\ Relocate(at, result, v).up = v.up
           /\ \A i \in Blocks :
                 \/ Relocate(at, result, v).at[i] = v.at[i]
                 \/ /\ v.up = restorer.new.up
                    /\ \E k \in DOMAIN restorer.todo :
                          /\ restorer.todo[k] = i /\ result[k] = "ok"
                          /\ Relocate(at, result, v).at[i] = at[k]
<1>1. PICK w \in [Blocks -> Providers] : w = v.at
    BY DEF Version
<1>2. PICK z : z = Relocated(at, result, w)
    OBVIOUS
<1>3. ASSUME NEW i \in Blocks
      PROVE  /\ z[i] \in Providers
             /\ \/ z[i] = w[i]
                \/ \E k \in DOMAIN restorer.todo :
                      restorer.todo[k] = i /\ result[k] = "ok" /\ z[i] = at[k]
  <2>1. z[i] = IF Landed(result, i) = {} THEN w[i]
               ELSE at[CHOOSE k \in Landed(result, i) : TRUE]
    BY <1>2 DEF Relocated
  <2>2. CASE Landed(result, i) = {}
    BY <2>1, <2>2
  <2>3. CASE Landed(result, i) # {}
    <3>1. PICK k \in Landed(result, i) : k = CHOOSE l \in Landed(result, i) : TRUE
      BY <2>3
    <3>2. k \in DOMAIN restorer.todo /\ restorer.todo[k] = i /\ result[k] = "ok"
      BY DEF Landed
    <3>3. at[k] \in Providers
      <4>1. restorer.todo \in Seq(Blocks) /\ at \in [1..Len(restorer.todo) -> Providers]
        BY DEF Storing, Rounds
      <4> QED  BY <3>2, <4>1
    <3> QED  BY <2>1, <2>3, <3>1, <3>2, <3>3
  <2> QED  BY <2>2, <2>3
<1>4. z \in [Blocks -> Providers]
    BY <1>2, <1>3 DEF Relocated
<1>5. CASE v.up = restorer.new.up
  <2>1. Relocate(at, result, v) = [v EXCEPT !.at = z]
    BY <1>1, <1>2, <1>5 DEF Relocate
  <2>2. [v EXCEPT !.at = z] \in Version
    BY <1>4 DEF Version
  <2>3. /\ [v EXCEPT !.at = z].num = v.num /\ [v EXCEPT !.at = z].up = v.up
        /\ [v EXCEPT !.at = z].at = z
    BY DEF Version
  <2> QED  BY <1>1, <1>3, <1>5, <2>1, <2>2, <2>3
<1>6. CASE v.up # restorer.new.up
    BY <1>6 DEF Relocate
<1> QED
    BY <1>5, <1>6

\* A round moves blocks in the array of the version, and in the new version.
Moves(at, result) ==
    /\ DOMAIN arrays' = DOMAIN arrays
    /\ \A a \in DOMAIN arrays : DOMAIN arrays'[a] = DOMAIN arrays[a]
    /\ \A a \in DOMAIN arrays, k \in Nat :
          k \in DOMAIN arrays[a] =>
              arrays'[a][k] \in {arrays[a][k], Relocate(at, result, arrays[a][k])}
    /\ restorer' \in Storing /\ restorer'.num = restorer.num
    /\ restorer'.new = Relocate(at, result, restorer.new)

\* A round keeps the objects and their lengths.
LEMMA StoreRoundObjects ==
    ASSUME TypesInv, NEW at, NEW result, Rounds(at, result), restorer \in Storing,
           restorer.arr \in DOMAIN arrays, list' = list
    PROVE  /\ Objects' /\ Grows /\ Moves(at, result) /\ restorer'.arr = restorer.arr
           /\ IsInjective(restorer.todo) => IsInjective(restorer'.todo)
<1>1. Objects
    BY DEF TypesInv
<1>2. PICK a \in DOMAIN arrays, s \in Seq(Version) : a = restorer.arr /\ s = arrays[a]
    BY <1>1 DEF Objects
<1>3. PICK r : r = [k \in DOMAIN s |-> Relocate(at, result, s[k])]
    OBVIOUS
<1>4. arrays' = [arrays EXCEPT ![a] = r]
    BY <1>2, <1>3, Zenon DEF Rounds
<1>5. DOMAIN s = 1..Len(s) /\ \A k \in DOMAIN s : s[k] \in Version
    OBVIOUS
<1>6. \A k \in DOMAIN s : r[k] = Relocate(at, result, s[k]) /\ r[k] \in Version
    BY <1>3, <1>5, RelocateIs
<1>7. r \in [1..Len(s) -> Version]
    BY <1>3, <1>5, <1>6
<1>8. r \in Seq(Version) /\ Len(r) = Len(s) /\ DOMAIN r = DOMAIN s
    BY <1>7
<1>9. arrays' \in Seq(Seq(Version)) /\ DOMAIN arrays' = DOMAIN arrays
    BY <1>1, <1>4, <1>8 DEF Objects
<1>10. arrays'[a] = r /\ \A b \in DOMAIN arrays \ {a} : arrays'[b] = arrays[b]
    BY <1>1, <1>4 DEF Objects
<1>11. Objects' /\ Grows
  <2>1. \A b \in DOMAIN arrays : Len(arrays[b]) \in Nat
    BY <1>1, LengthsAre
  <2>2. \A b \in DOMAIN arrays : b \in DOMAIN arrays' /\ Len(arrays[b]) <= Len(arrays'[b])
    <3>1. Len(r) = Len(s) /\ Len(arrays[a]) \in Nat /\ arrays[a] = s /\ arrays'[a] = r
      BY <1>2, <1>8, <1>10, <2>1
    <3>2. Len(arrays[a]) <= Len(arrays'[a])
      BY <3>1
    <3>3. \A b \in DOMAIN arrays \ {a} : Len(arrays[b]) <= Len(arrays'[b])
      BY <1>10, <2>1
    <3> QED  BY <1>9, <3>2, <3>3
  <2> QED  BY <1>1, <1>9, <2>2, SameObjects
<1>12. PICK c \in Storing : c = restorer
    OBVIOUS
<1>13. PICK new \in Version, todo \in Seq(Blocks), excluded \in SUBSET Providers,
            back \in [Providers -> Nat] :
         /\ new = Relocate(at, result, c.new)
         /\ DOMAIN todo \subseteq DOMAIN c.todo /\ \A k \in DOMAIN todo : todo[k] = c.todo[k]
         /\ restorer' = [c EXCEPT !.new = new, !.todo = todo, !.excluded = excluded, !.back = back]
  <2>1. Relocate(at, result, c.new) \in Version
    BY <1>12, RelocateIs DEF Storing
  <2>2. PICK m \in Nat : /\ DOMAIN Failed(result) = 1..m /\ m <= Len(c.todo)
                         /\ c.todo \in Seq(Blocks) /\ Len(c.todo) \in Nat
    <3>1. c.todo \in Seq(Blocks)
      BY DEF Storing
    <3> QED  BY <1>12, <3>1, FailedIs
  <2>3. /\ StillBad(Failed(result), c.todo) \in Seq(Blocks)
        /\ DOMAIN StillBad(Failed(result), c.todo) \subseteq DOMAIN c.todo
        /\ \A k \in DOMAIN StillBad(Failed(result), c.todo) :
              StillBad(Failed(result), c.todo)[k] = c.todo[k]
    <3>1. StillBad(Failed(result), c.todo) = [k \in 1..m |-> c.todo[k]]
      BY <2>2 DEF StillBad
    <3>2. DOMAIN c.todo = 1..Len(c.todo) /\ 1..m \subseteq DOMAIN c.todo
          /\ \A k \in 1..m : c.todo[k] \in Blocks
      BY <2>2
    <3>3. StillBad(Failed(result), c.todo) \in Seq(Blocks)
      BY <3>1, <3>2
    <3>4. /\ DOMAIN StillBad(Failed(result), c.todo) = 1..m
          /\ \A k \in 1..m : StillBad(Failed(result), c.todo)[k] = c.todo[k]
      BY <3>1
    <3> QED  BY <3>2, <3>3, <3>4
  <2>4. /\ Returned(Failed(result), at) = [k \in 1..m |-> at[k]]
        /\ Range(Returned(Failed(result), at)) \subseteq Providers
    <3>1. Returned(Failed(result), at) = [k \in 1..m |-> at[k]]
      BY <2>2 DEF Returned, StillBad
    <3>2. \A k \in 1..m : at[k] \in Providers
      BY <1>12, <2>2 DEF Rounds
    <3> QED  BY <3>1, <3>2 DEF Range
  <2>5. c.excluded \cup Range(Returned(Failed(result), at)) \in SUBSET Providers
    BY <2>4 DEF Storing
  <2>6. [p \in Providers |-> c.back[p] + Share(Returned(Failed(result), at), p)]
          \in [Providers -> Nat]
    <3>1. \A p \in Providers : c.back[p] \in Nat /\ Share(Returned(Failed(result), at), p) \in Nat
      BY <1>12, RoundCounts DEF Storing
    <3> QED  BY <3>1
  <2>7. restorer' = [c EXCEPT
                      !.new = Relocate(at, result, c.new),
                      !.todo = StillBad(Failed(result), c.todo),
                      !.excluded = c.excluded \cup Range(Returned(Failed(result), at)),
                      !.back = [p \in Providers |->
                                   c.back[p] + Share(Returned(Failed(result), at), p)]]
    BY <1>12, Zenon DEF Rounds
  <2> QED  BY <2>1, <2>3, <2>5, <2>6, <2>7
<1>14. /\ restorer' \in Storing /\ restorer'.num = c.num /\ restorer'.new = new
       /\ restorer'.arr = c.arr /\ restorer'.todo = todo
  <2>1. PICK c1 \in Storing : c1 = [c EXCEPT !.new = new]
    <3>1. [c EXCEPT !.new = new] \in Storing
      BY DEF Storing
    <3> QED  BY <3>1
  <2>2. PICK c2 \in Storing : c2 = [c1 EXCEPT !.todo = todo]
    <3>1. [c1 EXCEPT !.todo = todo] \in Storing
      BY DEF Storing
    <3> QED  BY <3>1
  <2>3. PICK c3 \in Storing : c3 = [c2 EXCEPT !.excluded = excluded]
    <3>1. [c2 EXCEPT !.excluded = excluded] \in Storing
      BY DEF Storing
    <3> QED  BY <3>1
  <2>4. PICK c4 \in Storing : c4 = [c3 EXCEPT !.back = back]
    <3>1. [c3 EXCEPT !.back = back] \in Storing
      BY DEF Storing
    <3> QED  BY <3>1
  <2>5. restorer' = c4
    BY <1>13, <2>1, <2>2, <2>3, <2>4
  <2>6. /\ c1.num = c.num /\ c1.new = new /\ c1.arr = c.arr
        /\ c2.todo = todo /\ c3.todo = c2.todo /\ c4.todo = c3.todo
        /\ c2.num = c1.num /\ c2.new = c1.new /\ c2.arr = c1.arr
        /\ c3.num = c2.num /\ c3.new = c2.new /\ c3.arr = c2.arr
        /\ c4.num = c3.num /\ c4.new = c3.new /\ c4.arr = c3.arr
    BY <2>1, <2>2, <2>3, <2>4 DEF Storing
  <2> QED  BY <2>5, <2>6
<1>15. \A b \in DOMAIN arrays, k \in Nat :
          k \in DOMAIN arrays[b] =>
              arrays'[b][k] \in {arrays[b][k], Relocate(at, result, arrays[b][k])}
    BY <1>2, <1>6, <1>10
<1>16. \A b \in DOMAIN arrays : DOMAIN arrays'[b] = DOMAIN arrays[b]
    BY <1>2, <1>8, <1>10
<1>17. Moves(at, result) /\ restorer'.arr = restorer.arr
    BY <1>9, <1>12, <1>13, <1>14, <1>15, <1>16 DEF Moves
<1>18. IsInjective(restorer.todo) => IsInjective(restorer'.todo)
    BY <1>12, <1>13, <1>14 DEF IsInjective
<1> QED
    BY <1>11, <1>17, <1>18

-----------------------------------------------------------------------------
(* Every step keeps the types.                                             *)

\* The first part of a list.
LEMMA FirstOf ==
    ASSUME NEW s \in Seq(Version), NEW n \in Nat, n <= Len(s)
    PROVE  /\ SubSeq(s, 1, n) \in Seq(Version) /\ Len(SubSeq(s, 1, n)) = n
           /\ DOMAIN SubSeq(s, 1, n) = 1..n
           /\ \A i \in 1..n : i \in DOMAIN s /\ SubSeq(s, 1, n)[i] = s[i]
OBVIOUS

\* The objects' versions after a step.
LEMMA SliceNext ==
    ASSUME Objects', NEW e \in DOMAIN list'
    PROVE  /\ Slice(list[e])' = SubSeq(arrays'[list'[e].arr], 1, list'[e].len)
           /\ Slice(list[e])' \in Seq(Version)
           /\ DOMAIN (Slice(list[e])') = 1..list'[e].len
           /\ list'[e].arr \in DOMAIN arrays' /\ arrays'[list'[e].arr] \in Seq(Version)
           /\ list'[e].len \in Nat
           /\ \A i \in 1..list'[e].len : /\ i \in DOMAIN arrays'[list'[e].arr]
                                         /\ Slice(list[e])'[i] = arrays'[list'[e].arr][i]
<1>1. list'[e] \in Object /\ list'[e].arr \in DOMAIN arrays'
      /\ list'[e].len <= Len(arrays'[list'[e].arr]) /\ arrays'[list'[e].arr] \in Seq(Version)
    BY DEF Objects
<1>2. list'[e].len \in Nat
    BY <1>1 DEF Object
<1>3. Slice(list[e])' = SubSeq(arrays'[list'[e].arr], 1, list'[e].len)
    BY DEF Slice
<1> QED
    BY <1>1, <1>2, <1>3, FirstOf

\* A snapshot is one of the cached object.
LEMMA SnapshotIs ==
    ASSUME Objects', free' \in [Providers -> Nat], SaveSnapshot
    PROVE  /\ disk' \in Snapshot
           /\ \E e \in DOMAIN list' : disk'.versions = Slice(list[e])'
<1>1. PICK e \in DOMAIN list' : e = Len(list')
  <2>1. list' \in Seq(Object) /\ list' # <<>>
    BY DEF Objects
  <2>2. Len(list') \in DOMAIN list'
    BY <2>1
  <2> QED  BY <2>2
<1>2. list'[e].there \in BOOLEAN
  <2>1. list'[e] \in Object
    BY DEF Objects
  <2> QED  BY <2>1 DEF Object
<1>3. PICK s \in Seq(Version) : s = Slice(list[e])'
    BY <1>1, SliceNext
<1>4. s = SubSeq(arrays'[list'[e].arr], 1, list'[e].len)
    BY <1>1, <1>3, SliceNext
<1>5. disk' = [there |-> list'[e].there, versions |-> s, free |-> free']
    BY <1>1, <1>4 DEF SaveSnapshot
<1> QED
    BY <1>2, <1>3, <1>5 DEF Snapshot

\* The renter's objects and its snapshot.
LEMMA ObjectsStep ==
    ASSUME TypesInv, [Next]_vars, free' \in [Providers -> Nat]
    PROVE  Objects' /\ disk' \in Snapshot /\ (Grows \/ Restart)
<1>1. Objects /\ disk \in Snapshot
    BY DEF TypesInv
<1>2. Objects' /\ (Grows \/ Restart) /\ (disk' = disk \/ SaveSnapshot)
  <2>1. CASE UNCHANGED renterVars
    <3>1. arrays' = arrays /\ list' = list /\ disk' = disk /\ arrays \in Seq(Seq(Version))
      BY <1>1, <2>1 DEF renterVars, Objects
    <3>2. \A b \in DOMAIN arrays : Len(arrays[b]) \in Nat
      BY <1>1, LengthsAre
    <3> QED  BY <1>1, <3>1, <3>2, SameObjects
  <2>2. ASSUME NEW t \in Threads, RemovePrevious(t) \/ Refresh(t) \/ RemoveVersion(t)
        PROVE  Objects' /\ Grows /\ (disk' = disk \/ SaveSnapshot)
    BY <2>2, RemovePreviousObjects, RefreshObjects, RemoveVersionObjects DEF renterVars
  <2>3. ASSUME NEW t \in Threads, RemoveFileContents(t) \/ UpdateFile(t) \/ PullFiles(t)
        PROVE  Objects' /\ Grows /\ (disk' = disk \/ SaveSnapshot)
    BY <2>3, RemoveFileObjects, UpdateFileObjects, PullFilesObjects
  <2>4. CASE StoreRound
    <3>1. restorer \in Storing /\ restorer.arr \in DOMAIN arrays /\ list' = list /\ disk' = disk
      BY <2>4 DEF StoreRound, TypesInv, Restoring, Storing, Resting, Writing
    <3>2. PICK at, result : Rounds(at, result)
      BY <2>4, RoundOn
    <3> QED  BY <3>1, <3>2, StoreRoundObjects
  <2>5. CASE UpdateFileVersion
    BY <2>5, UpdateFileVersionObjects
  <2>6. CASE RestoredPut
    BY <2>6, RestoredPutOn, RestartOn
  <2>7. CASE Crash
    BY <2>7, RestartOn DEF Crash
  <2> QED  BY <2>1, <2>2, <2>3, <2>4, <2>5, <2>6, <2>7, WhoChangesObjects
<1>3. disk' \in Snapshot
    BY <1>1, <1>2, SnapshotIs
<1> QED
    BY <1>2, <1>3

\* What a request is about: an object there is, and a slot there is.
Points(s) ==
    /\ s.pc \notin {"idle", "put", "pull"} => s.e \in DOMAIN list
    /\ s.pc \in {"removePrevious", "deleteVersion", "removeVersion"} => IsSlot(s.slot)

\* A request's next state points to what there is.
LEMMA TurnsOn ==
    ASSUME TypesInv, NEW t \in Threads, StartUpload(t) \/ Opens(t) \/ Serve(t)
    PROVE  \E s \in State : Turns(t, s) /\ Points(s)
<1>1. /\ Objects /\ Len(list) \in DOMAIN list /\ thread \in [Threads -> State]
      /\ thread[t] \in State
    BY CacheIs DEF TypesInv
<1>2. thread[t] \in Upload \/ thread[t] \in Removal \/ thread[t] \in OfFile
        => thread[t].e \in DOMAIN list
    BY <1>1, States DEF TypesInv, Working
<1>3. \A s \in Idle : s \in State /\ Points(s)
    BY DEF State, Idle, Points
<1>4. \A s \in Sending \cup Pulling : s \in State /\ Points(s)
    BY DEF State, Sending, Pulling, Points
<1>5. \A s \in OfFile : s \in State /\ (s.e \in DOMAIN list => Points(s))
    BY DEF State, OfFile, Points
<1>6. \A s \in Upload \cup Removal :
          s \in State /\ (s.e \in DOMAIN list /\ IsSlot(s.slot) => Points(s))
    BY DEF State, Upload, Removal, Points
<1>7. \A s \in Upload :
          s.e \in DOMAIN list /\ s.pc # "removePrevious" => Points(s)
    BY DEF Upload, Points
<1>8. CASE StartUpload(t)
    BY <1>1, <1>6, <1>7, <1>8, StartUploadOn
<1>9. CASE Opens(t)
  <2>1. CASE StartRemoveVersion(t)
    BY <1>1, <1>6, <2>1, StartRemoveVersionOn
  <2>2. CASE StartRemoveFile(t) \/ StartRename(t)
    BY <1>1, <1>5, <2>2, StartOfFileOn
  <2>3. CASE ReadList(t)
    BY <1>4, <2>3, ReadListOn
  <2> QED  BY <1>9, <2>1, <2>2, <2>3 DEF Opens
<1>10. CASE DrawNumber(t)
    BY <1>2, <1>6, <1>7, <1>10, DrawNumberOn DEF Keeps
<1>11. CASE PushVersion(t)
    BY <1>2, <1>6, <1>7, <1>11, PushVersionOn DEF Keeps
<1>12. CASE DeletePrevious(t)
    BY <1>2, <1>3, <1>6, <1>7, <1>12, DeletePreviousOn DEF Keeps
<1>13. CASE RemovePrevious(t)
    BY <1>2, <1>3, <1>6, <1>7, <1>13, RemovePreviousOn DEF Keeps
<1>14. CASE DeleteVersion(t)
    BY <1>2, <1>3, <1>6, <1>14, DeleteVersionOn
<1>15. CASE DeleteFile(t)
    BY <1>2, <1>3, <1>5, <1>15, DeleteFileOn
<1>16. CASE SendFile(t)
    BY <1>4, <1>16, SendFileOn
<1>17. CASE \/ UndoUpload(t) \/ Refresh(t) \/ RemoveVersion(t) \/ RemoveFileContents(t)
            \/ UpdateFile(t) \/ PullFiles(t)
    BY <1>3, <1>17, EndsOn
<1> QED
    BY <1>8, <1>9, <1>10, <1>11, <1>12, <1>13, <1>14, <1>15, <1>16, <1>17 DEF Serve

\* What is pointed to stays.
LEMMA PointsStay ==
    ASSUME Objects, Objects', Grows, NEW s, Points(s)
    PROVE  /\ s.pc \notin {"idle", "put", "pull"} => s.e \in DOMAIN list'
           /\ s.pc \in {"removePrevious", "deleteVersion", "removeVersion"} => IsSlot(s.slot)'
<1>1. arrays' \in Seq(Seq(Version))
    BY DEF Objects
<1>2. ASSUME IsSlot(s.slot)  PROVE IsSlot(s.slot)'
    BY <1>1, <1>2, SlotsStay
<1>3. ASSUME s.e \in DOMAIN list  PROVE s.e \in DOMAIN list'
    BY <1>3 DEF Grows
<1> QED
    BY <1>2, <1>3 DEF Points

\* The requests.
LEMMA ThreadsStep ==
    ASSUME TypesInv, [Next]_vars, Objects', Grows \/ Restart
    PROVE  thread' \in [Threads -> State] /\ \A u \in Threads : Working(u)'
<1>1. /\ thread \in [Threads -> State] /\ Objects
      /\ \A u \in Threads : Points(thread[u])
    BY DEF TypesInv, Working, Points
<1>2. CASE Restart
  <2>1. thread' = [u \in Threads |-> [pc |-> "idle"]] /\ [pc |-> "idle"] \in State
    BY <1>2 DEF Restart, State, Idle
  <2> QED  BY <2>1 DEF Working
<1>3. CASE Grows /\ \E t \in Threads : StartUpload(t) \/ Opens(t) \/ Serve(t)
  <2>1. PICK t \in Threads, s \in State : Turns(t, s) /\ Points(s)
    BY <1>3, TurnsOn
  <2>2. thread' \in [Threads -> State]
    BY <2>1 DEF Turns
  <2>3. ASSUME NEW u \in Threads  PROVE Working(u)'
    <3>1. PICK r : r = thread'[u] /\ Points(r)
      BY <1>1, <2>1 DEF Turns
    <3>2. /\ r.pc \notin {"idle", "put", "pull"} => r.e \in DOMAIN list'
          /\ r.pc \in {"removePrevious", "deleteVersion", "removeVersion"} => IsSlot(r.slot)'
      BY <1>1, <1>3, <3>1, PointsStay
    <3> QED  BY <3>1, <3>2 DEF Working, IsSlot
  <2> QED  BY <2>2, <2>3
<1>4. CASE Grows /\ UNCHANGED thread
  <2>3. ASSUME NEW u \in Threads  PROVE Working(u)'
    <3>1. PICK r : r = thread[u] /\ Points(r)
      BY <1>1
    <3>2. /\ r.pc \notin {"idle", "put", "pull"} => r.e \in DOMAIN list'
          /\ r.pc \in {"removePrevious", "deleteVersion", "removeVersion"} => IsSlot(r.slot)'
      BY <1>1, <1>4, <3>1, PointsStay
    <3> QED  BY <1>4, <3>1, <3>2 DEF Working, IsSlot
  <2> QED  BY <1>1, <1>4, <2>3
<1>5. CASE RestoredPut \/ Crash
    BY <1>2, <1>4, <1>5, RestoredPutOn DEF Crash
<1> QED
    BY <1>2, <1>3, <1>4, <1>5, WhoServes

\* The whole object replaces the document, or nothing does.
Replaced(body) ==
    /\ doc # Gone /\ doc' = body
    /\ suspect' = suspect \cup (Ups(body) \ Ups(doc))
    /\ dropped' = dropped \cup (Ups(doc) \ Ups(body))

\* The answer to a whole-file PUT.
LEMMA UpdateFileOn ==
    ASSUME TypesInv, NEW t \in Threads, UpdateFile(t)
    PROVE  /\ thread[t] \in Sending /\ thread[t].pc = "put"
           /\ spent' \in Spending /\ spent'.uploads = spent.uploads
           /\ UNCHANGED <<doc, suspect, dropped>> \/ Replaced(thread[t].body)
<1>1. thread[t].pc = "put" /\ thread[t] \in State /\ spent \in Spending
    BY DEF TypesInv, UpdateFile
<1>2. thread[t] \in Sending
    BY <1>1, States
<1>3. PICK reply \in Replies :
        /\ Reply(reply)
        /\ IF doc # Gone /\ reply # "refused"
           THEN PutDocument(thread[t].body)
           ELSE UNCHANGED <<doc, suspect, dropped>>
    BY DEF UpdateFile
<1>4. spent' \in Spending /\ spent'.uploads = spent.uploads
    BY <1>1, <1>3, ReplyOn
<1> QED
    BY <1>1, <1>2, <1>3, <1>4 DEF PutDocument, Replaced

\* A version with the number is replaced by the auditor's.
Audited(v) ==
    /\ doc # Gone
    /\ \E i \in DOMAIN doc : doc[i].num = v.num /\ doc' = [doc EXCEPT ![i] = v]
    /\ suspect' = suspect \cup ({v.up} \ Ups(doc))

\* The auditor goes on with the version it read, or its run ends.
LEMMA AuditVersionOn ==
    ASSUME TypesInv, AuditVersion
    PROVE  /\ auditor # <<>> /\ Head(auditor) \in Version /\ Head(auditor) \in Range(auditor)
           /\ UNCHANGED <<doc, suspect>> \/ Audited(Head(auditor))
<1>1. auditor # <<>> /\ auditor \in Seq(Version)
    BY DEF AuditVersion, TypesInv
<1>2. PICK v \in Version : v = Head(auditor) /\ v = auditor[1] /\ 1 \in DOMAIN auditor
    BY <1>1
<1>3. CASE doc # Gone /\ v.num \in Nums(doc)
  <2>1. doc \in Seq(Version)
    BY <1>3 DEF TypesInv
  <2>2. PICK i \in DOMAIN doc : i = Slot(doc, v.num) /\ doc[i].num = v.num
    BY <1>3, <2>1, SlotOf
  <2>3. /\ doc' = [doc EXCEPT ![i] = v]
        /\ suspect' = suspect \cup ({v.up} \ Ups(doc))
    BY <1>2, <1>3, <2>2 DEF AuditVersion
  <2>4. Audited(v)
    BY <1>3, <2>2, <2>3 DEF Audited
  <2> QED  BY <1>1, <1>2, <2>4 DEF Range
<1>4. CASE ~(doc # Gone /\ v.num \in Nums(doc))
    BY <1>1, <1>2, <1>4 DEF AuditVersion, Range
<1> QED
    BY <1>3, <1>4

\* The versions that are left.
LEMMA PulledIs ==
    ASSUME doc \in Seq(Version), NEW num
    PROVE  /\ PullVersions(num) \in Seq(Version)
           /\ Range(PullVersions(num)) = {v \in Range(doc) : v.num # num}
<1>1. /\ Those(doc, {v \in Range(doc) : v.num # num}) \in Seq(Version)
      /\ ToSet(Those(doc, {v \in Range(doc) : v.num # num}))
           = ToSet(doc) \cap {v \in Range(doc) : v.num # num}
    BY ThoseOf
<1>2. ToSet(doc) = Range(doc)
    BY DEF ToSet, Range
<1>3. ToSet(PullVersions(num)) = Range(PullVersions(num))
    BY DEF ToSet, Range
<1> QED
    BY <1>1, <1>2, <1>3 DEF PullVersions

\* The document and its counter, and what the auditor has of it.
LEMMA DocumentStep ==
    ASSUME TypesInv, [Next]_vars
    PROVE  /\ doc' = Gone \/ doc' \in Seq(Version)
           /\ counter' \in Nat /\ auditor' \in Seq(Version)
<1>1. doc' = Gone \/ doc' \in Seq(Version)
  <2>1. doc = Gone \/ doc \in Seq(Version)
    BY DEF TypesInv
  <2>2. ASSUME NEW t \in Threads, PushVersion(t)  PROVE doc' = Gone \/ doc' \in Seq(Version)
    BY <2>1, <2>2, PushVersionOn
  <2>3. ASSUME NEW t \in Threads, DeletePrevious(t) \/ DeleteVersion(t) \/ DeleteFile(t)
        PROVE  doc' = Gone \/ doc' \in Seq(Version)
    <3>1. ASSUME NEW num, Deletes(num)  PROVE doc' \in Seq(Version)
      BY <2>1, <3>1, PulledIs DEF Deletes
    <3> QED  BY <2>1, <2>3, <3>1, DeletePreviousOn, DeleteVersionOn, DeleteFileOn
  <2>4. ASSUME NEW t \in Threads, UpdateFile(t)  PROVE doc' = Gone \/ doc' \in Seq(Version)
    BY <2>1, <2>4, UpdateFileOn DEF Replaced, Sending
  <2>5. CASE RestoredPut
    BY <2>1, <2>5, RestoredPutOn DEF Writing
  <2>6. CASE AuditVersion
    <3>1. CASE Audited(Head(auditor))
      <4>1. doc \in Seq(Version) /\ Head(auditor) \in Version
        BY <2>1, <2>6, <3>1, AuditVersionOn DEF Audited
      <4>2. PICK i \in DOMAIN doc : doc' = [doc EXCEPT ![i] = Head(auditor)]
        BY <3>1 DEF Audited
      <4> QED  BY <4>1, <4>2
    <3> QED  BY <2>1, <2>6, <3>1, AuditVersionOn
  <2> QED  BY <2>1, <2>2, <2>3, <2>4, <2>5, <2>6, WhoWrites
<1>2. counter' \in Nat
  <2>1. counter \in Nat
    BY DEF TypesInv
  <2> QED  BY <2>1, WhoDraws, DrawNumberOn
<1>3. auditor' \in Seq(Version)
  <2>1. auditor \in Seq(Version) /\ (doc = Gone \/ doc \in Seq(Version))
    BY DEF TypesInv
  <2>2. /\ <<>> \in Seq(Version)
        /\ \A s \in Seq(Version) : s # <<>> => Tail(s) \in Seq(Version)
    OBVIOUS
  <2> QED  BY <2>1, <2>2, WhoAudits
<1> QED
    BY <1>1, <1>2, <1>3

\* A batch taken up is of a version of the cached object.
LEMMA PickBatchOn ==
    ASSUME TypesInv, PickBatch
    PROVE  /\ restorer.pc = "idle"
           /\ \/ restorer' = [pc |-> "idle"]
              \/ /\ restorer' \in Storing /\ restorer'.arr \in DOMAIN arrays
                 /\ IsInjective(restorer'.todo)
                 /\ \E i \in DOMAIN Slice(Cached) : restorer'.new = Slice(Cached)[i]
                 /\ restorer'.new.num = restorer'.num
<1>1. Objects /\ Len(list) \in DOMAIN list /\ Cached = list[Len(list)] /\ queue \subseteq Batch
    BY CacheIs DEF TypesInv
<1>2. PICK s \in Seq(Version), a \in DOMAIN arrays : s = Slice(Cached) /\ a = Cached.arr
    BY <1>1, SliceOf
<1>3. PICK batch \in queue :
        LET num == batch.version.num
            slot == Slot(s, num)
        IN  restorer' =
                 IF /\ Cached.there /\ num \in Nums(s)
                    /\ s[slot].up = batch.version.up
                 THEN [pc |-> "round", num |-> num, new |-> s[slot],
                       arr |-> a,
                       todo |-> Those([i \in Blocks |-> i], batch.blocks),
                       excluded |-> {batch.version.at[i] : i \in batch.blocks},
                       back |-> [p \in Providers |-> 0]]
                 ELSE [pc |-> "idle"]
    BY <1>2, Zenon DEF PickBatch
<1>4. restorer.pc = "idle"
    BY DEF PickBatch
<1>5. PICK v \in Version, blocks \in SUBSET Blocks : v = batch.version /\ blocks = batch.blocks
    BY <1>1 DEF Batch
<1>6. CASE Cached.there /\ v.num \in Nums(s) /\ s[Slot(s, v.num)].up = v.up
  <2>1. PICK i \in DOMAIN s : i = Slot(s, v.num) /\ s[i].num = v.num
    BY <1>6, SlotOf
  <2>2. PICK new \in Version : new = s[i] /\ new.num = v.num
    BY <2>1
  <2>3. PICK todo \in Seq(Blocks) : todo = Those([j \in Blocks |-> j], blocks) /\ IsInjective(todo)
    <3>1. PICK n \in Nat : Blocks = 1..n
      BY FileAssumption DEF Blocks
    <3>2. [j \in Blocks |-> j] \in Seq(Blocks) /\ IsInjective([j \in Blocks |-> j])
      BY <3>1 DEF IsInjective
    <3> QED  BY <3>2, ThoseOf
  <2>4. PICK excluded \in SUBSET Providers : excluded = {v.at[j] : j \in blocks}
    BY DEF Version
  <2>5. PICK back \in [Providers -> Nat] : back = [p \in Providers |-> 0]
    OBVIOUS
  <2>6. PICK num \in Nat : num = v.num
    BY DEF Version
  <2>7. restorer' = [pc |-> "round", num |-> num, new |-> new, arr |-> a, todo |-> todo,
                     excluded |-> excluded, back |-> back]
    BY <1>3, <1>5, <1>6, <2>1, <2>2, <2>3, <2>4, <2>5, <2>6
  <2>8. a \in Nat
    BY <1>1 DEF Objects
  <2>9. /\ restorer' \in Storing /\ restorer'.arr = a /\ restorer'.todo = todo
        /\ restorer'.new = new /\ restorer'.num = num
    BY <2>7, <2>8 DEF Storing
  <2> QED  BY <1>2, <1>4, <2>1, <2>2, <2>3, <2>6, <2>9
<1>7. CASE ~(Cached.there /\ v.num \in Nums(s) /\ s[Slot(s, v.num)].up = v.up)
  <2>1. restorer' = [pc |-> "idle"]
    BY <1>3, <1>5, <1>7
  <2> QED  BY <1>4, <2>1
<1> QED
    BY <1>6, <1>7

\* The restorer.
LEMMA RestorerStep ==
    ASSUME TypesInv, [Next]_vars, Objects', Grows \/ Restart
    PROVE  restorer' \in Resting \cup Storing \cup Writing /\ Restoring'
<1>1. /\ restorer \in Resting \cup Storing \cup Writing /\ Restoring /\ Objects
    BY DEF TypesInv
<1>2. ASSUME restorer' = [pc |-> "idle"]
      PROVE  restorer' \in Resting \cup Storing \cup Writing /\ Restoring'
    BY <1>2 DEF Resting, Restoring
<1>3. CASE Restart
    BY <1>2, <1>3 DEF Restart
<1>4. CASE Grows /\ UNCHANGED restorer
    BY <1>1, <1>4 DEF Restoring, Grows
<1>5. CASE Grows /\ PickBatch
  <2>1. CASE restorer' = [pc |-> "idle"]
    BY <1>2, <2>1
  <2>2. CASE restorer' # [pc |-> "idle"]
    <3>1. restorer' \in Storing /\ restorer'.arr \in DOMAIN arrays /\ IsInjective(restorer'.todo)
      BY <1>5, <2>2, PickBatchOn
    <3>2. restorer'.pc = "round"
      BY <3>1 DEF Storing
    <3> QED  BY <1>5, <3>1, <3>2 DEF Restoring, Grows
  <2> QED  BY <2>1, <2>2
<1>6. CASE Grows /\ StoreRound
  <2>1. /\ restorer \in Storing /\ restorer.arr \in DOMAIN arrays /\ list' = list
        /\ IsInjective(restorer.todo)
    BY <1>6 DEF StoreRound, TypesInv, Restoring, Storing, Resting, Writing
  <2>2. PICK at, result : Rounds(at, result)
    BY <1>6, RoundOn
  <2>3. Moves(at, result) /\ restorer'.arr = restorer.arr /\ IsInjective(restorer'.todo)
    BY <2>1, <2>2, StoreRoundObjects
  <2>4. restorer' \in Storing /\ restorer'.arr \in DOMAIN arrays'
    BY <2>1, <2>3 DEF Moves
  <2>5. restorer'.pc = "round"
    BY <2>4 DEF Storing
  <2> QED  BY <2>3, <2>4, <2>5 DEF Restoring
<1>7. CASE Grows /\ UpdateFileVersion
  <2>1. CASE Replaces
    <3>1. restorer' \in Writing /\ restorer'.e = Len(list) /\ restorer'.slot \in DOMAIN Slice(Cached)
      BY <2>1 DEF Replaces
    <3>2. restorer'.e \in DOMAIN list' /\ restorer'.slot # 0 /\ restorer'.pc = "put"
      <4>1. Len(list) \in DOMAIN list /\ Slice(Cached) \in Seq(Version)
        BY <1>1, CacheIs, SliceOf
      <4> QED  BY <1>7, <3>1, <4>1 DEF Grows, Writing
    <3> QED  BY <3>1, <3>2 DEF Restoring
  <2>2. CASE restorer' = [pc |-> "idle"]
    BY <1>2, <2>2
  <2> QED  BY <1>7, <2>1, <2>2, UpdateFileVersionObjects
<1>8. CASE Grows /\ (RestoredPut \/ Crash)
    BY <1>2, <1>3, <1>8, RestoredPutOn DEF Crash
<1> QED
    BY <1>3, <1>4, <1>5, <1>6, <1>7, <1>8, WhoRestores

\* The bounds used up; only an upload takes a new ID.
LEMMA SpentStep ==
    ASSUME TypesInv, [Next]_vars
    PROVE  /\ spent' \in Spending
           /\ spent'.uploads = spent.uploads \/ \E t \in Threads : StartUpload(t)
<1>1. spent \in Spending
    BY DEF TypesInv
<1>2. ASSUME NEW t \in Threads, StartUpload(t)  PROVE spent' \in Spending
    BY <1>2, StartUploadOn
<1>3. ASSUME NEW t \in Threads, Opens(t)  PROVE spent' \in Spending /\ spent'.uploads = spent.uploads
    BY <1>1, <1>3, SpendOn DEF Opens, StartRemoveVersion, StartRemoveFile, StartRename, ReadList
<1>4. ASSUME NEW t \in Threads,
             \/ DrawNumber(t) \/ PushVersion(t) \/ DeletePrevious(t) \/ DeleteVersion(t)
             \/ DeleteFile(t) \/ UpdateFile(t)
      PROVE  spent' \in Spending /\ spent'.uploads = spent.uploads
    BY <1>4, DrawNumberOn, PushVersionOn, DeletePreviousOn, DeleteVersionOn, DeleteFileOn,
       UpdateFileOn
<1>5. ASSUME NEW t \in Threads,
             \/ UndoUpload(t) \/ RemovePrevious(t) \/ RemoveVersion(t) \/ RemoveFileContents(t)
      PROVE  spent' \in Spending /\ spent'.uploads = spent.uploads
  <2>1. \E versions, failed : RemoveContents(versions, failed)
    BY <1>5 DEF UndoUpload, RemovePrevious, RemoveVersion, RemoveFileContents
  <2> QED  BY <1>1, <2>1, RemoveOn
<1>6. ASSUME NEW t \in Threads, Refresh(t) \/ SendFile(t) \/ PullFiles(t)
      PROVE  spent' \in Spending /\ spent'.uploads = spent.uploads
  <2>1. UNCHANGED spent \/ \E reply : Reply(reply)
    BY <1>6 DEF Refresh, SendFile, PullFiles
  <2> QED  BY <1>1, <2>1, ReplyOn
<1>7. ASSUME SubmitBatch \/ StartAudit \/ CorruptBlock \/ Crash
      PROVE  spent' \in Spending /\ spent'.uploads = spent.uploads
    BY <1>1, <1>7, SpendOn DEF SubmitBatch, StartAudit, CorruptBlock, Crash
<1>8. ASSUME PickBatch \/ UpdateFileVersion \/ RestoredPut \/ AuditVersion \/ UNCHANGED vars
      PROVE  spent' \in Spending /\ spent'.uploads = spent.uploads
    BY <1>1, <1>8, RestoredPutOn DEF PickBatch, UpdateFileVersion, AuditVersion, vars
<1>9. ASSUME StoreRound  PROVE spent' \in Spending /\ spent'.uploads = spent.uploads
  <2>1. PICK at, result : Round(at, result)
    BY <1>9 DEF StoreRound
  <2>2. PICK faults : /\ faults = Cardinality({k \in DOMAIN restorer.todo : result[k] \in {"cut", "lost"}})
                      /\ spent' = [spent EXCEPT !.faults = @ + faults]
    BY <2>1, Zenon DEF Round
  <2>3. PICK todo \in Seq(Blocks) : todo = restorer.todo
    BY <1>9 DEF StoreRound, TypesInv, Storing, Resting, Writing
  <2>4. PICK n \in Nat : n = Len(todo) /\ DOMAIN todo = 1..n
    OBVIOUS
  <2>5. {k \in DOMAIN restorer.todo : result[k] \in {"cut", "lost"}} \subseteq 1..n
    BY <2>3, <2>4
  <2>6. faults \in Nat
    BY <2>2, <2>5, FinitelyPlaced
  <2> QED  BY <1>1, <2>2, <2>6 DEF Spending
<1> QED
    BY <1>2, <1>3, <1>4, <1>5, <1>6, <1>7, <1>8, <1>9 DEF Next, Serve, Restore, Opens

\* The history.
LEMMA HistoryStep ==
    ASSUME TypesInv, [Next]_vars, Objects', Grows \/ Restart
    PROVE  /\ acked' \subseteq Uploads /\ asked' \subseteq Uploads
           /\ suspect' \subseteq Uploads /\ dropped' \subseteq Uploads
           /\ overtaken' \subseteq Uploads /\ misnumbered' \in BOOLEAN
<1>1. /\ acked \subseteq Uploads /\ asked \subseteq Uploads
      /\ suspect \subseteq Uploads /\ dropped \subseteq Uploads /\ overtaken \subseteq Uploads
      /\ misnumbered \in BOOLEAN
      /\ thread \in [Threads -> State]
      /\ doc # Gone => Ups(doc) \subseteq Uploads
    BY UpsTypes DEF TypesInv
<1>2. ASSUME NEW t \in Threads, StartUpload(t) \/ StartRemoveVersion(t)
      PROVE  asked' \subseteq Uploads /\ UNCHANGED <<acked, suspect, dropped, overtaken, misnumbered>>
  <2>1. UNCHANGED <<acked, suspect, dropped, overtaken, misnumbered>>
    BY <1>2 DEF StartUpload, StartRemoveVersion
  <2> QED  BY <1>1, <1>2, <2>1, StartUploadAsks, StartRemoveVersionOn DEF Version
<1>3. CASE UNCHANGED history
    BY <1>1, <1>3 DEF history
<1>4. ASSUME NEW t \in Threads, PushVersion(t)
      PROVE  acked' \subseteq Uploads /\ suspect' \subseteq Uploads
             /\ UNCHANGED <<asked, dropped, overtaken, misnumbered>>
  <2>1. Pushed(t).up \in Uploads
    BY <1>4, PushVersionOn DEF Version
  <2> QED  BY <1>1, <1>4, <2>1, PushVersionOn DEF PushVersion
<1>5. ASSUME NEW t \in Threads, DeletePrevious(t)
      PROVE  overtaken' \subseteq Uploads /\ UNCHANGED <<acked, asked, suspect, dropped, misnumbered>>
    BY <1>5, DeletePreviousOn DEF DeletePrevious
<1>6. ASSUME NEW t \in Threads, Refresh(t)
      PROVE  /\ suspect' \subseteq Uploads /\ misnumbered' \in BOOLEAN
             /\ UNCHANGED <<acked, asked, dropped, overtaken>>
  <2>1. UNCHANGED <<acked, asked, dropped, overtaken>> /\ thread[t].pc = "refresh"
    BY <1>6 DEF Refresh
  <2>2. thread[t].version.up \in Uploads
    BY <1>1, <2>1, States DEF Upload, Version
  <2>3. misnumbered' \in BOOLEAN
    BY <1>1, <1>6 DEF Refresh
  <2> QED  BY <1>1, <1>6, <2>1, <2>2, <2>3, RefreshObjects
<1>7. ASSUME NEW t \in Threads, RemovePrevious(t) \/ RemoveVersion(t)
      PROVE  suspect' \subseteq Uploads /\ UNCHANGED <<acked, asked, dropped, overtaken, misnumbered>>
  <2>1. UNCHANGED <<acked, asked, dropped, overtaken, misnumbered>>
    BY <1>7 DEF RemovePrevious, RemoveVersion
  <2> QED  BY <1>1, <1>7, <2>1, SlippedOn
<1>8. ASSUME NEW t \in Threads, UpdateFile(t)
      PROVE  /\ suspect' \subseteq Uploads /\ dropped' \subseteq Uploads
             /\ UNCHANGED <<acked, asked, overtaken, misnumbered>>
  <2>1. UNCHANGED <<acked, asked, overtaken, misnumbered>>
    BY <1>8 DEF UpdateFile
  <2>2. Ups(thread[t].body) \subseteq Uploads
    BY <1>8, UpdateFileOn, UpsTypes DEF Sending
  <2> QED  BY <1>1, <1>8, <2>1, <2>2, UpdateFileOn DEF Replaced
<1>9. ASSUME StoreRound
      PROVE  suspect' \subseteq Uploads /\ UNCHANGED <<acked, asked, dropped, overtaken, misnumbered>>
  <2>1. restorer.new.up \in Uploads
    BY <1>9 DEF StoreRound, TypesInv, Storing, Resting, Writing, Version
  <2>2. PICK at, result : Rounds(at, result)
    BY <1>9, RoundOn
  <2>3. suspect' \subseteq suspect \cup {restorer.new.up}
    BY <2>2, Zenon DEF Rounds
  <2> QED  BY <1>1, <1>9, <2>1, <2>3 DEF StoreRound
<1>10. ASSUME RestoredPut
       PROVE  /\ suspect' \subseteq Uploads /\ dropped' \subseteq Uploads
              /\ misnumbered' \in BOOLEAN /\ UNCHANGED <<acked, asked, overtaken>>
  <2>1. UNCHANGED <<acked, asked, overtaken>>
    BY <1>10 DEF RestoredPut
  <2>2. suspect' \subseteq Uploads /\ dropped' \subseteq Uploads
    BY <1>1, <1>10, RestoredPutOn
  <2>3. misnumbered' \in BOOLEAN
    BY <1>1, <1>10, RestoredPutOn DEF GoesBack
  <2> QED  BY <2>1, <2>2, <2>3
<1>11. ASSUME AuditVersion
       PROVE  suspect' \subseteq Uploads /\ UNCHANGED <<acked, asked, dropped, overtaken, misnumbered>>
  <2>1. Head(auditor).up \in Uploads
    BY <1>11, AuditVersionOn DEF Version
  <2>2. suspect' \subseteq suspect \cup {Head(auditor).up}
    BY <1>11, AuditVersionOn DEF Audited
  <2> QED  BY <1>1, <1>11, <2>1, <2>2 DEF AuditVersion
<1> QED
    BY <1>1, <1>2, <1>3, <1>4, <1>5, <1>6, <1>7, <1>8, <1>9, <1>10, <1>11, WhoNotes

\* Every step keeps the types.
LEMMA TypesStep ==
    ASSUME TypesInv, StoreInv, SpaceInv, [Next]_vars
    PROVE  TypesInv'
<1>1. free' \in [Providers -> Nat]
    BY StoreStep DEF StoreInv
<1>2. Objects' /\ disk' \in Snapshot /\ (Grows \/ Restart)
    BY <1>1, ObjectsStep
<1>3. thread' \in [Threads -> State] /\ \A u \in Threads : Working(u)'
    BY <1>2, ThreadsStep
<1>4. restorer' \in Resting \cup Storing \cup Writing /\ Restoring'
    BY <1>2, RestorerStep
<1>5. /\ acked' \subseteq Uploads /\ asked' \subseteq Uploads
      /\ suspect' \subseteq Uploads /\ dropped' \subseteq Uploads
      /\ overtaken' \subseteq Uploads /\ misnumbered' \in BOOLEAN
    BY <1>2, HistoryStep
<1>6. spent' \in Spending
    BY SpentStep
<1>7. queue' \subseteq Batch
    BY WhoSubmits
<1> QED
    BY <1>2, <1>3, <1>4, <1>5, <1>6, <1>7, DocumentStep DEF TypesInv

\* They hold at first.
LEMMA TypesInit ==
    ASSUME Init
    PROVE  TypesInv
<1>1. PICK first \in Version : /\ first = [num |-> 0, up |-> 0, at |-> FirstAt]
                               /\ doc = <<first>> /\ arrays = <<<<first>>>>
                               /\ disk = [there |-> TRUE, versions |-> <<first>>, free |-> free]
  <2>1. FirstAt \in [Blocks -> Providers] /\ 0 \in Uploads
    BY FileAssumption DEF Blocks, Uploads
  <2>2. [num |-> 0, up |-> 0, at |-> FirstAt] \in Version
    BY <2>1 DEF Version
  <2> QED  BY <2>2 DEF Init
<1>2. PICK s \in Seq(Version) : s = <<first>> /\ Len(s) = 1
  <2>1. <<first>> \in Seq(Version)
    OBVIOUS
  <2>2. Len(<<first>>) = 1
    OBVIOUS
  <2> QED  BY <2>1, <2>2
<1>3. PICK o \in Object : o.arr = 1 /\ o.len = 1 /\ list = <<o>>
  <2>1. [there |-> TRUE, arr |-> 1, len |-> 1] \in Object
    BY DEF Object
  <2> QED  BY <2>1 DEF Init
<1>4. arrays = <<s>> /\ arrays \in Seq(Seq(Version)) /\ DOMAIN arrays = {1} /\ arrays[1] = s
    BY <1>1, <1>2
<1>5. list \in Seq(Object) /\ list # <<>> /\ DOMAIN list = {1} /\ list[1] = o
    BY <1>3
<1>6. Objects
    BY <1>2, <1>3, <1>4, <1>5 DEF Objects
<1>7. disk \in Snapshot
  <2>1. free \in [Providers -> Nat]
    BY StoreInit DEF StoreInv
  <2> QED  BY <1>1, <1>2, <2>1 DEF Snapshot
<1>8. thread \in [Threads -> State] /\ \A t \in Threads : Working(t)
  <2>1. thread = [t \in Threads |-> [pc |-> "idle"]] /\ [pc |-> "idle"] \in State
    BY DEF Init, State, Idle
  <2> QED  BY <2>1 DEF Working
<1>9. restorer \in Resting \cup Storing \cup Writing /\ Restoring
    BY DEF Init, Resting, Restoring
<1>10. 0 \in Uploads
    BY FileAssumption DEF Uploads
<1>11. spent \in Spending
    BY <1>10 DEF Init, Spending
<1>12. doc \in Seq(Version) /\ auditor \in Seq(Version) /\ counter \in Nat /\ queue \subseteq Batch
    BY <1>1 DEF Init
<1>13. /\ acked \subseteq Uploads /\ asked \subseteq Uploads
       /\ suspect \subseteq Uploads /\ dropped \subseteq Uploads /\ overtaken \subseteq Uploads
       /\ misnumbered \in BOOLEAN
    BY <1>10 DEF Init
<1> QED
    BY <1>6, <1>7, <1>8, <1>9, <1>11, <1>12, <1>13 DEF TypesInv

-----------------------------------------------------------------------------
(* The types and the count, for every number of requests, providers, blocks *)
(* and mishaps.                                                             *)

\* Both are kept together: what is counted depends on what the snapshot and
\* the restorer hold, and the other way round.
LEMMA TypesAndSpace == Spec => [](TypesInv /\ StoreInv /\ SpaceInv)
<1>1. Init => TypesInv /\ StoreInv /\ SpaceInv
    BY TypesInit, StoreInit
<1>2. TypesInv /\ StoreInv /\ SpaceInv /\ [Next]_vars => (TypesInv /\ StoreInv /\ SpaceInv)'
    BY TypesStep, StoreStep
<1> QED
    BY <1>1, <1>2, PTL DEF Spec

\* The type invariant: whatever the requests, the restorer and a restart do
\* to the renter's objects, an object's length is within its array, and what
\* a provider has counted covers the blocks it has.
THEOREM TypeCorrect == Spec => []TypeOK
<1>1. TypesInv /\ StoreInv => TypeOK
  <2> SUFFICES ASSUME TypesInv, StoreInv  PROVE TypeOK
    OBVIOUS
  <2>1. Objects
    BY DEF TypesInv
  <2>2. ASSUME NEW e \in DOMAIN list
        PROVE  list[e].arr \in DOMAIN arrays /\ list[e].len \in 0..Len(arrays[list[e].arr])
    <3>1. /\ list[e].len \in Nat /\ list[e].arr \in DOMAIN arrays
          /\ list[e].len <= Len(arrays[list[e].arr])
          /\ Len(arrays[list[e].arr]) \in Nat
      BY <2>1, LengthsAre
    <3> QED  BY <3>1
  <2>3. \A p \in Providers : bad[p] \subseteq has[p] /\ has[p] \subseteq Uploads \X Blocks
    BY DEF StoreInv
  <2>4. free \in [Providers -> Nat] /\ used \in [Providers -> Nat]
    BY DEF StoreInv
  <2>5. arrays \in Seq(Seq(Version))
    BY <2>1 DEF Objects
  <2> QED  BY <2>2, <2>3, <2>4, <2>5 DEF TypesInv, TypeOK
<1> QED
    BY <1>1, TypesAndSpace, PTL

\* SpaceIsReal: the freelist never offers space that a provider counts as
\* used, but for the slack; the restorer's blobs that it has not given back
\* yet, and the freelist of the snapshot, are part of what has to fit.
THEOREM SpaceReal == Spec => []SpaceIsReal
<1>1. TypesInv /\ StoreInv /\ SpaceInv => SpaceIsReal
  <2> SUFFICES ASSUME TypesInv, StoreInv, SpaceInv, NEW p \in Providers
               PROVE  free[p] + used[p] <= Capacity[p] + slack[p]
    BY DEF SpaceIsReal
  <2>1. Kept(p) \in Nat
    BY KeptIs DEF TypesInv
  <2>2. free[p] \in Nat /\ used[p] \in Nat /\ slack[p] \in Nat /\ Capacity[p] \in Nat
    BY FileAssumption DEF StoreInv
  <2> QED  BY <2>1, <2>2 DEF SpaceInv, Fits
<1> QED
    BY <1>1, TypesAndSpace, PTL

-----------------------------------------------------------------------------
(* Everybody's copies of versions.                                         *)

Copy(v) ==
    \/ doc # Gone /\ v \in Range(doc)
    \/ v \in Range(auditor)
    \/ \E a \in DOMAIN arrays : v \in Range(arrays[a])
    \/ v \in Range(disk.versions)
    \/ \E t \in Threads : thread[t].pc \in {"put", "pull"} /\ v \in Range(thread[t].body)
    \/ restorer.pc = "round" /\ v = restorer.new
    \/ restorer.pc = "put" /\ (v = restorer.old \/ v \in Range(restorer.body))

\* The blocks of a version are where it says.
Holds(v) == \A i \in Blocks : <<v.up, i>> \in has[v.at[i]]

\* Where a copy comes from: it was one, or the restorer moved its blocks; it
\* is pushed; or the renter made it, not knowing its number.
Source(v) ==
    \/ Copy(v)
    \/ \E w : /\ Copy(w) /\ v \in Version /\ v.num = w.num /\ v.up = w.up
              /\ Holds(w) => Holds(v)' \/ v.up \in suspect'
    \/ \E t \in Threads : PushVersion(t) /\ v = Pushed(t)
    \/ \E t \in Threads : /\ thread[t].pc = "refresh" /\ v = thread[t].version
                          /\ v.up \in suspect' /\ misnumbered'

\* A copy is a version.
LEMMA CopyIs ==
    ASSUME TypesInv, NEW v, Copy(v)
    PROVE  v \in Version
<1>1. \A s \in Seq(Version) : Range(s) \subseteq Version
    BY DEF Range
<1>2. CASE doc # Gone /\ v \in Range(doc)
    BY <1>1, <1>2 DEF TypesInv
<1>3. CASE v \in Range(auditor)
    BY <1>1, <1>3 DEF TypesInv
<1>4. CASE \E a \in DOMAIN arrays : v \in Range(arrays[a])
    BY <1>1, <1>4 DEF TypesInv, Objects
<1>5. CASE v \in Range(disk.versions)
    BY <1>1, <1>5 DEF TypesInv, Snapshot
<1>6. ASSUME NEW t \in Threads, thread[t].pc \in {"put", "pull"}, v \in Range(thread[t].body)
      PROVE  v \in Version
  <2>1. thread[t] \in State
    BY DEF TypesInv
  <2>2. thread[t].body \in Seq(Version)
    BY <1>6, <2>1, States DEF Sending, Pulling
  <2> QED  BY <1>1, <1>6, <2>2
<1>7. CASE restorer.pc = "round" /\ v = restorer.new
    BY <1>7 DEF TypesInv, Resting, Storing, Writing
<1>8. CASE restorer.pc = "put" /\ (v = restorer.old \/ v \in Range(restorer.body))
  <2>1. restorer.old \in Version /\ restorer.body \in Seq(Version)
    BY <1>8 DEF TypesInv, Resting, Storing, Writing
  <2> QED  BY <1>1, <1>8, <2>1
<1> QED
    BY <1>2, <1>3, <1>4, <1>5, <1>6, <1>7, <1>8 DEF Copy

\* What is in the renter's arrays, and in its objects, are copies.
LEMMA InArrays ==
    ASSUME TypesInv
    PROVE  /\ \A a \in DOMAIN arrays, k \in Nat : k \in DOMAIN arrays[a] => Copy(arrays[a][k])
           /\ \A e \in DOMAIN list : \A v \in Range(Slice(list[e])) : Copy(v)
           /\ \A slot : IsSlot(slot) => Copy(At(slot))
<1>1. \A a \in DOMAIN arrays, k \in Nat : k \in DOMAIN arrays[a] => Copy(arrays[a][k])
    BY DEF Copy, Range
<1>2. ASSUME NEW e \in DOMAIN list, NEW v \in Range(Slice(list[e]))
      PROVE  Copy(v)
  <2>a. Objects
    BY DEF TypesInv
  <2>b. /\ list[e].arr \in DOMAIN arrays /\ arrays[list[e].arr] \in Seq(Version)
        /\ Slice(list[e]) \in Seq(Version) /\ Len(Slice(list[e])) = list[e].len
        /\ list[e].len <= Len(arrays[list[e].arr])
        /\ \A i \in 1..list[e].len : Slice(list[e])[i] = arrays[list[e].arr][i]
    BY <2>a, SliceOf
  <2>1. PICK s \in Seq(Version), r \in Seq(Version), a \in DOMAIN arrays :
          /\ s = Slice(list[e]) /\ a = list[e].arr /\ r = arrays[a] /\ Len(s) <= Len(r)
          /\ \A i \in 1..Len(s) : s[i] = r[i]
    BY <2>b
  <2>2. PICK i \in DOMAIN s : v = s[i]
    BY <2>1 DEF Range
  <2>3. i \in DOMAIN r /\ v = r[i]
    BY <2>1, <2>2
  <2> QED  BY <2>1, <2>3 DEF Copy, Range
<1>3. ASSUME NEW slot, IsSlot(slot)  PROVE Copy(At(slot))
    BY <1>3 DEF IsSlot, At, Copy, Range
<1> QED
    BY <1>1, <1>2, <1>3

\* What the document gets.
LEMMA DocumentSource ==
    ASSUME TypesInv, [Next]_vars, doc' # Gone, NEW v \in Range(doc')
    PROVE  Source(v)
<1>1. doc # Gone => doc \in Seq(Version) /\ \A w \in Range(doc) : Copy(w)
    BY DEF TypesInv, Copy
<1>2. CASE UNCHANGED doc
    BY <1>1, <1>2 DEF Source
<1>3. ASSUME NEW t \in Threads, PushVersion(t)  PROVE Source(v)
  <2>1. doc # Gone /\ doc' = Append(doc, Pushed(t))
    BY <1>3, PushVersionOn
  <2>2. Range(doc') \subseteq Range(doc) \cup {Pushed(t)}
    BY <1>1, <2>1 DEF Range
  <2> QED  BY <1>1, <1>3, <2>1, <2>2 DEF Source
<1>4. ASSUME NEW num, Deletes(num)  PROVE Source(v)
  <2>1. v \in Range(doc) /\ doc # Gone
    BY <1>1, <1>4, PulledIs DEF Deletes
  <2> QED  BY <1>1, <2>1 DEF Source
<1>5. ASSUME NEW t \in Threads, DeletePrevious(t) \/ DeleteVersion(t) \/ DeleteFile(t)
      PROVE  Source(v)
    BY <1>2, <1>4, <1>5, DeletePreviousOn, DeleteVersionOn, DeleteFileOn
<1>6. ASSUME NEW t \in Threads, UpdateFile(t)  PROVE Source(v)
  <2>1. CASE doc' = doc
    BY <1>2, <2>1
  <2>2. CASE doc' = thread[t].body
    BY <1>6, <2>2, UpdateFileOn DEF Source, Copy
  <2> QED  BY <1>6, <2>1, <2>2, UpdateFileOn DEF Replaced
<1>7. CASE RestoredPut
  <2>1. CASE doc' = restorer.body
    BY <1>7, <2>1, RestoredPutOn DEF Source, Copy, Writing
  <2> QED  BY <1>2, <1>7, <2>1, RestoredPutOn
<1>8. CASE AuditVersion
  <2>1. CASE Audited(Head(auditor))
    <3>1. Range(doc') \subseteq Range(doc) \cup {Head(auditor)} /\ doc # Gone
      BY <2>1 DEF Audited, Range
    <3>2. Copy(Head(auditor))
      BY <1>8, AuditVersionOn DEF Copy
    <3> QED  BY <1>1, <3>1, <3>2 DEF Source
  <2> QED  BY <1>2, <1>8, <2>1, AuditVersionOn
<1> QED
    BY <1>2, <1>3, <1>5, <1>6, <1>7, <1>8, WhoWrites

\* What the auditor gets.
LEMMA AuditorSource ==
    ASSUME TypesInv, [Next]_vars, NEW v \in Range(auditor')
    PROVE  Source(v)
<1>1. auditor \in Seq(Version)
    BY DEF TypesInv
<1>2. \A s \in Seq(Version) : s # <<>> => Range(Tail(s)) \subseteq Range(s)
  <2>1. ASSUME NEW s \in Seq(Version), s # <<>>, NEW w \in Range(Tail(s))  PROVE w \in Range(s)
    <3>1. PICK i \in DOMAIN Tail(s) : w = Tail(s)[i]
      BY <2>1 DEF Range
    <3>2. i + 1 \in DOMAIN s /\ w = s[i + 1]
      BY <2>1, <3>1
    <3> QED  BY <3>2 DEF Range
  <2> QED  BY <2>1
<1>3. Range(<<>>) = {}
    BY DEF Range
<1> QED
    BY <1>1, <1>2, <1>3, WhoAudits DEF Source, Copy

\* A round leaves the blocks where they were or lands them elsewhere; but a
\* store that is cut off over a block's own file loses it.
LEMMA RoundHolds ==
    ASSUME restorer \in Storing, IsInjective(restorer.todo), NEW at, NEW result,
           Rounds(at, result), NEW w \in Version, Holds(w), w.up \notin suspect'
    PROVE  Holds(w)' /\ \A v : v = Relocate(at, result, w) => Holds(v)'
<1>1. ASSUME NEW i \in Blocks  PROVE <<w.up, i>> \in has'[w.at[i]]
  <2>1. PICK p \in Providers : p = w.at[i]
    BY DEF Version
  <2>2. <<w.up, i>> \in has[p]
    BY <2>1 DEF Holds
  <2>3. <<w.up, i>> \notin Ids(Cut(at, result, p))
    <3>1. SUFFICES ASSUME <<w.up, i>> \in Ids(Cut(at, result, p))  PROVE FALSE
      OBVIOUS
    <3>2. w.up = restorer.new.up
      BY <3>1 DEF Ids
    <3>3. suspect' = suspect \cup {restorer.new.up}
      <4>1. Ids(Cut(at, result, p)) \cap has[p] # {}
        BY <2>2, <3>1
      <4> QED  BY <4>1, Zenon DEF Rounds
    <3> QED  BY <3>2, <3>3
  <2>4. has'[p] = (has[p] \cup Ids(Landing(at, result, p))) \ Ids(Cut(at, result, p))
    BY Zenon DEF Rounds
  <2> QED  BY <2>1, <2>2, <2>3, <2>4
<1>2. ASSUME NEW i \in Blocks
      PROVE  <<w.up, i>> \in has'[Relocate(at, result, w).at[i]]
  <2>1. CASE Relocate(at, result, w).at[i] = w.at[i]
    BY <1>1, <2>1
  <2>2. CASE Relocate(at, result, w).at[i] # w.at[i]
    <3>1. PICK k \in DOMAIN restorer.todo :
            /\ w.up = restorer.new.up /\ restorer.todo[k] = i /\ result[k] = "ok"
            /\ Relocate(at, result, w).at[i] = at[k]
      BY <2>2, RelocateIs
    <3>2. restorer.todo \in Seq(Blocks)
      BY DEF Storing
    <3>3. k \in 1..Len(restorer.todo) /\ at \in [1..Len(restorer.todo) -> Providers]
      BY <3>2 DEF Rounds
    <3>4. PICK p \in Providers : p = at[k]
      BY <3>3
    <3>5. <<w.up, i>> \in Ids(Landing(at, result, p))
      BY <3>1, <3>3, <3>4 DEF Ids, Landing
    <3>6. <<w.up, i>> \notin Ids(Cut(at, result, p))
      BY <3>1 DEF Ids, Cut, IsInjective
    <3>7. has'[p] = (has[p] \cup Ids(Landing(at, result, p))) \ Ids(Cut(at, result, p))
      BY Zenon DEF Rounds
    <3> QED  BY <3>1, <3>4, <3>5, <3>6, <3>7
  <2> QED  BY <2>1, <2>2
<1>3. Relocate(at, result, w).up = w.up
    BY RelocateIs
<1>4. ASSUME NEW v, v = Relocate(at, result, w)  PROVE Holds(v)'
    BY <1>2, <1>3, <1>4 DEF Holds
<1> QED
    BY <1>1, <1>4 DEF Holds

\* A round starts from a new version and an array there are.
LEMMA RoundStarts ==
    ASSUME TypesInv, StoreRound
    PROVE  /\ restorer \in Storing /\ restorer.pc = "round" /\ restorer.new \in Version
           /\ restorer.arr \in DOMAIN arrays
           /\ IsInjective(restorer.todo)
           /\ list' = list /\ disk' = disk /\ thread' = thread /\ doc' = doc
<1>1. restorer.pc = "round" /\ list' = list /\ disk' = disk /\ thread' = thread /\ doc' = doc
    BY DEF StoreRound
<1>2. restorer \in Storing
    BY <1>1 DEF TypesInv, Resting, Storing, Writing
<1> QED
    BY <1>1, <1>2 DEF TypesInv, Restoring, Storing

\* A copy that a round leaves or moves.
LEMMA MovedSource ==
    ASSUME TypesInv, restorer \in Storing, IsInjective(restorer.todo), NEW at, NEW result,
           Rounds(at, result), NEW w, Copy(w), NEW v, v \in {w, Relocate(at, result, w)}
    PROVE  Source(v) /\ v.num = w.num /\ v.up = w.up
<1>1. w \in Version
    BY CopyIs
<1>2. v \in Version /\ v.num = w.num /\ v.up = w.up
    BY <1>1, RelocateIs
<1>3. Holds(w) => Holds(v)' \/ v.up \in suspect'
    BY <1>1, <1>2, RoundHolds
<1> QED
    BY <1>2, <1>3 DEF Source

\* What is written into an array.
LEMMA WritesSource ==
    ASSUME TypesInv, NEW b, NEW i, NEW v, Writes(b, i, v), Source(v),
           NEW a \in DOMAIN arrays', NEW k \in Nat, k \in DOMAIN arrays'[a],
           NEW x, x = arrays'[a][k]
    PROVE  Source(x)
<1>1. CASE <<a, k>> = <<b, i>>
    BY <1>1 DEF Writes
<1>2. CASE <<a, k>> # <<b, i>>
  <2>1. a \in DOMAIN arrays /\ k \in DOMAIN arrays[a] /\ arrays'[a][k] = arrays[a][k]
    BY <1>2 DEF Writes
  <2> QED  BY <2>1, InArrays DEF Source
<1> QED
    BY <1>1, <1>2

\* What an array appended has.
LEMMA AppendSource ==
    ASSUME TypesInv, NEW s \in Seq(Version), arrays' = Append(arrays, s),
           \A v \in Range(s) : Copy(v),
           NEW a \in DOMAIN arrays', NEW k \in Nat, k \in DOMAIN arrays'[a],
           NEW x, x = arrays'[a][k]
    PROVE  Source(x)
<1>1. arrays \in Seq(Seq(Version))
    BY DEF TypesInv, Objects
<1>2. CASE a \in DOMAIN arrays
  <2>1. arrays'[a] = arrays[a]
    BY <1>1, <1>2
  <2> QED  BY <1>2, <2>1, InArrays DEF Source
<1>3. CASE a \notin DOMAIN arrays
  <2>1. arrays'[a] = s
    BY <1>1, <1>3
  <2> QED  BY <2>1 DEF Range, Source
<1> QED
    BY <1>2, <1>3

\* What the renter's arrays get.
LEMMA ArraysSource ==
    ASSUME TypesInv, [Next]_vars,
           NEW a \in DOMAIN arrays', NEW k \in Nat, k \in DOMAIN arrays'[a],
           NEW x, x = arrays'[a][k]
    PROVE  Source(x)
<1>1. CASE arrays' = arrays
    BY <1>1, InArrays DEF Source
<1>2. ASSUME NEW t \in Threads, Refresh(t)  PROVE Source(x)
  <2>1. CASE Refreshed(thread[t].e)
    <3>1. doc # Gone /\ doc \in Seq(Version) /\ arrays' = Append(arrays, doc)
      BY <2>1 DEF Refreshed, TypesInv
    <3>2. \A v \in Range(doc) : Copy(v)
      BY <3>1 DEF Copy
    <3> QED  BY <3>1, <3>2, AppendSource
  <2>2. CASE /\ Extended(thread[t].e, thread[t].version)
             /\ suspect' = suspect \cup {thread[t].version.up} /\ misnumbered'
    <3>1. PICK v : v = thread[t].version
      OBVIOUS
    <3>2. thread[t].pc = "refresh"
      BY <1>2 DEF Refresh
    <3>3. Source(v)
      BY <2>2, <3>1, <3>2 DEF Source
    <3> QED  BY <2>2, <3>1, <3>3, WritesSource DEF Extended
  <2> QED  BY <1>2, <2>1, <2>2, RefreshObjects
<1>3. ASSUME NEW t \in Threads, RemoveVersion(t)  PROVE Source(x)
  <2>1. CASE arrays' # arrays
    <3>1. PICK b, i, n : MovesUp(b, i, n)
      BY <1>3, <2>1, RemoveVersionObjects DEF renterVars
    <3>2. a \in DOMAIN arrays /\ k \in DOMAIN arrays[a]
      BY <3>1, MovesUpOn DEF TypesInv
    <3>3. \/ arrays'[a][k] = arrays[a][k]
          \/ k + 1 \in DOMAIN arrays[a] /\ arrays'[a][k] = arrays[a][k + 1]
      BY <3>1, <3>2, MovesUpOn DEF TypesInv
    <3> QED  BY <3>2, <3>3, InArrays DEF Source
  <2> QED  BY <1>1, <2>1
<1>4. ASSUME NEW t \in Threads, PullFiles(t)  PROVE Source(x)
  <2>1. thread[t] \in Pulling /\ arrays' = Append(arrays, thread[t].body)
    BY <1>4, PullFilesObjects
  <2>2. thread[t].body \in Seq(Version) /\ \A v \in Range(thread[t].body) : Copy(v)
    BY <2>1 DEF Pulling, Copy
  <2> QED  BY <2>1, <2>2, AppendSource
<1>5. CASE StoreRound
  <2>1. PICK at, result : Rounds(at, result)
    BY <1>5, RoundOn
  <2>2. /\ a \in DOMAIN arrays /\ k \in DOMAIN arrays[a]
        /\ arrays'[a][k] \in {arrays[a][k], Relocate(at, result, arrays[a][k])}
    BY <1>5, <2>1, RoundStarts, StoreRoundObjects DEF Moves
  <2>3. PICK w : w = arrays[a][k]
    OBVIOUS
  <2>4. Copy(w)
    BY <2>2, <2>3, InArrays
  <2> QED  BY <1>5, <2>1, <2>2, <2>3, <2>4, RoundStarts, MovedSource
<1>6. CASE UpdateFileVersion
  <2>1. CASE Replaces
    <3>1. PICK v : v = restorer.new /\ restorer.pc = "round"
      BY <1>6 DEF UpdateFileVersion
    <3>2. Source(v)
      BY <3>1 DEF Source, Copy
    <3> QED  BY <2>1, <3>1, <3>2, WritesSource DEF Replaces
  <2> QED  BY <1>1, <1>6, <2>1, UpdateFileVersionObjects
<1>7. CASE Restart
  <2>1. arrays' = <<disk.versions>> /\ disk.versions \in Seq(Version)
    BY <1>7 DEF Restart, TypesInv, Snapshot
  <2>2. arrays'[a] = disk.versions
    BY <2>1
  <2> QED  BY <2>2 DEF Source, Copy, Range
<1>8. CASE RestoredPut
  <2>1. CASE GoesBack
    <3>1. PICK v : v = restorer.old /\ restorer.pc = "put"
      BY <1>8 DEF RestoredPut
    <3>2. Source(v)
      BY <3>1 DEF Source, Copy
    <3> QED  BY <2>1, <3>1, <3>2, WritesSource DEF GoesBack
  <2> QED  BY <1>1, <1>7, <1>8, <2>1, RestoredPutOn
<1>9. ASSUME NEW t \in Threads, RemovePrevious(t) \/ RemoveFileContents(t) \/ UpdateFile(t)
      PROVE  Source(x)
    BY <1>1, <1>9, RemovePreviousObjects, RemoveFileObjects, UpdateFileObjects
<1> QED
    BY <1>1, <1>2, <1>3, <1>4, <1>5, <1>6, <1>7, <1>8, <1>9, WhoChangesObjects DEF renterVars, Crash

\* What the renter's objects get.
LEMMA SliceSource ==
    ASSUME TypesInv, [Next]_vars, Objects', NEW e \in DOMAIN list',
           NEW x, x \in Range(Slice(list[e])')
    PROVE  Source(x)
<1>1. PICK i \in DOMAIN (Slice(list[e])') : x = Slice(list[e])'[i]
    BY DEF Range
<1>2. PICK a \in DOMAIN arrays' : a = list'[e].arr
    BY SliceNext
<1>3. i \in Nat /\ i \in DOMAIN arrays'[a] /\ x = arrays'[a][i]
    BY <1>1, <1>2, SliceNext
<1> QED
    BY <1>2, <1>3, ArraysSource

\* A snapshot is new only when it is saved.
LEMMA DiskOn ==
    ASSUME TypesInv, [Next]_vars
    PROVE  disk' = disk \/ SaveSnapshot
<1>1. CASE UNCHANGED renterVars
    BY <1>1 DEF renterVars
<1>2. ASSUME NEW t \in Threads,
             \/ RemovePrevious(t) \/ Refresh(t) \/ RemoveVersion(t)
             \/ RemoveFileContents(t) \/ UpdateFile(t) \/ PullFiles(t)
      PROVE  disk' = disk \/ SaveSnapshot
    BY <1>2, RemovePreviousObjects, RefreshObjects, RemoveVersionObjects, RemoveFileObjects,
       UpdateFileObjects, PullFilesObjects DEF renterVars
<1>3. CASE StoreRound \/ UpdateFileVersion \/ RestoredPut \/ Crash
    BY <1>3, UpdateFileVersionObjects, RestoredPutOn, RestartOn DEF StoreRound, Crash
<1> QED
    BY <1>1, <1>2, <1>3, WhoChangesObjects

\* What the snapshot gets.
LEMMA SnapshotSource ==
    ASSUME TypesInv, [Next]_vars, Objects', free' \in [Providers -> Nat],
           NEW x, x \in Range(disk'.versions)
    PROVE  Source(x)
<1>1. CASE disk' = disk
    BY <1>1 DEF Source, Copy
<1>2. CASE SaveSnapshot
  <2>1. PICK e \in DOMAIN list' : disk'.versions = Slice(list[e])'
    BY <1>2, SnapshotIs
  <2>2. x \in Range(Slice(list[e])')
    BY <2>1 DEF Range
  <2> QED  BY <2>2, SliceSource
<1> QED
    BY <1>1, <1>2, DiskOn

\* What a request sends or received: the same, an object, or the document.
LEMMA BodyOn ==
    ASSUME TypesInv, [Next]_vars, NEW u \in Threads, thread'[u].pc \in {"put", "pull"}
    PROVE  \/ thread'[u] = thread[u]
           \/ \E e \in DOMAIN list : thread'[u].body = Slice(list[e])
           \/ thread'[u].body = IF doc = Gone THEN <<>> ELSE doc
<1>1. thread \in [Threads -> State]
    BY DEF TypesInv
<1>3. ASSUME NEW t \in Threads, NEW s \in Idle \cup Upload \cup Removal \cup OfFile, Turns(t, s)
      PROVE  thread'[u] = thread[u]
  <2>1. s.pc \notin {"put", "pull"}
    BY DEF Idle, Upload, Removal, OfFile
  <2>2. u # t
    BY <1>3, <2>1 DEF Turns
  <2> QED  BY <1>3, <2>2 DEF Turns
<1>4. ASSUME NEW t \in Threads, SendFile(t)
      PROVE  thread'[u] = thread[u] \/ \E e \in DOMAIN list : thread'[u].body = Slice(list[e])
    BY <1>4, SendFileOn DEF Turns
<1>5. ASSUME NEW t \in Threads, ReadList(t)
      PROVE  thread'[u] = thread[u] \/ thread'[u].body = IF doc = Gone THEN <<>> ELSE doc
    BY <1>5, ReadListOn DEF Turns
<1>6. ASSUME NEW t \in Threads, StartUpload(t) \/ StartRemoveVersion(t)
      PROVE  thread'[u] = thread[u]
    BY <1>3, <1>6, StartUploadOn, StartRemoveVersionOn
<1>7. ASSUME NEW t \in Threads, StartRemoveFile(t) \/ StartRename(t)
      PROVE  thread'[u] = thread[u]
    BY <1>3, <1>7, StartOfFileOn
<1>8. ASSUME NEW t \in Threads, DrawNumber(t) \/ PushVersion(t)  PROVE thread'[u] = thread[u]
    BY <1>3, <1>8, DrawNumberOn, PushVersionOn
<1>9. ASSUME NEW t \in Threads, DeletePrevious(t) \/ RemovePrevious(t)
      PROVE  thread'[u] = thread[u]
    BY <1>3, <1>9, DeletePreviousOn, RemovePreviousOn DEF Keeps
<1>10. ASSUME NEW t \in Threads, DeleteVersion(t) \/ DeleteFile(t)  PROVE thread'[u] = thread[u]
    BY <1>3, <1>10, DeleteVersionOn, DeleteFileOn
<1>11. ASSUME NEW t \in Threads,
              \/ UndoUpload(t) \/ Refresh(t) \/ RemoveVersion(t) \/ RemoveFileContents(t)
              \/ UpdateFile(t) \/ PullFiles(t)
       PROVE  thread'[u] = thread[u]
    BY <1>3, <1>11, EndsOn
<1>12. ~Restart
  <2>1. SUFFICES ASSUME Restart  PROVE FALSE
    OBVIOUS
  <2>2. thread'[u].pc = "idle"
    BY <2>1 DEF Restart
  <2> QED  BY <2>2
<1>13. ASSUME RestoredPut \/ Crash  PROVE thread'[u] = thread[u]
    BY <1>12, <1>13, RestoredPutOn DEF Crash
<1> QED
    BY <1>4, <1>5, <1>6, <1>7, <1>8, <1>9, <1>10, <1>11, <1>13, WhoServes DEF Opens, Serve

\* The versions a request sends or received.
LEMMA BodySource ==
    ASSUME TypesInv, [Next]_vars, NEW u \in Threads, thread'[u].pc \in {"put", "pull"},
           NEW x, x \in Range(thread'[u].body)
    PROVE  Source(x)
<1>1. CASE thread'[u] = thread[u]
    BY <1>1 DEF Source, Copy
<1>2. ASSUME NEW e \in DOMAIN list, thread'[u].body = Slice(list[e])  PROVE Source(x)
    BY <1>2, InArrays DEF Source
<1>3. CASE thread'[u].body = IF doc = Gone THEN <<>> ELSE doc
  <2>1. Range(<<>>) = {}
    BY DEF Range
  <2> QED  BY <1>3, <2>1 DEF Source, Copy
<1> QED
    BY <1>1, <1>2, <1>3, BodyOn

\* What the restorer gets: a cached version, a moved one, or what it sends.
LEMMA RestorerSource ==
    ASSUME TypesInv, [Next]_vars, NEW x,
           \/ restorer'.pc = "round" /\ x = restorer'.new
           \/ restorer'.pc = "put" /\ (x = restorer'.old \/ x \in Range(restorer'.body))
    PROVE  Source(x)
<1>1. CASE restorer' = restorer
    BY <1>1 DEF Source, Copy
<1>2. CASE restorer' = [pc |-> "idle"]
    BY <1>2
<1>3. CASE PickBatch
  <2>1. CASE restorer' \in Storing /\ \E i \in DOMAIN Slice(Cached) : restorer'.new = Slice(Cached)[i]
    <3>1. x = restorer'.new
      BY <2>1 DEF Storing
    <3>2. x \in Range(Slice(Cached))
      BY <2>1, <3>1 DEF Range
    <3>3. Len(list) \in DOMAIN list /\ Cached = list[Len(list)]
      BY CacheIs DEF TypesInv
    <3> QED  BY <3>2, <3>3, InArrays DEF Source
  <2> QED  BY <1>2, <1>3, <2>1, PickBatchOn
<1>4. CASE StoreRound
  <2>1. PICK at, result : Rounds(at, result)
    BY <1>4, RoundOn
  <2>2. restorer' \in Storing /\ restorer'.new = Relocate(at, result, restorer.new)
    BY <1>4, <2>1, RoundStarts, StoreRoundObjects DEF Moves
  <2>3. x = Relocate(at, result, restorer.new)
    BY <2>2 DEF Storing
  <2>4. PICK w : w = restorer.new /\ Copy(w)
    BY <1>4, RoundStarts DEF Copy
  <2> QED  BY <1>4, <2>1, <2>3, <2>4, RoundStarts, MovedSource
<1>5. CASE UpdateFileVersion
  <2>1. CASE Replaces
    <3>1. PICK s \in Seq(Version), i \in Nat :
            /\ s = Slice(Cached) /\ i \in DOMAIN s /\ i = Slot(s, restorer.num)
            /\ restorer'.body = [s EXCEPT ![i] = restorer.new] /\ restorer'.old = s[i]
            /\ restorer' \in Writing
      <4>1. Slice(Cached) \in Seq(Version)
        BY CacheIs, SliceOf DEF TypesInv
      <4> QED  BY <2>1, <4>1 DEF Replaces
    <3>2. \A w \in Range(s) : Copy(w)
      <4>1. Len(list) \in DOMAIN list /\ Cached = list[Len(list)]
        BY CacheIs DEF TypesInv
      <4> QED  BY <3>1, <4>1, InArrays
    <3>3. Copy(restorer.new)
      BY <1>5 DEF Copy, UpdateFileVersion
    <3>4. Range(restorer'.body) \subseteq Range(s) \cup {restorer.new} /\ s[i] \in Range(s)
      BY <3>1 DEF Range
    <3>5. x = restorer'.old \/ x \in Range(restorer'.body)
      BY <3>1 DEF Writing
    <3> QED  BY <3>1, <3>2, <3>3, <3>4, <3>5 DEF Source
  <2> QED  BY <1>2, <1>5, <2>1, UpdateFileVersionObjects
<1>6. CASE RestoredPut \/ Crash
    BY <1>2, <1>6, RestoredPutOn, RestartOn DEF Crash
<1> QED
    BY <1>1, <1>3, <1>4, <1>5, <1>6, WhoRestores

\* Every copy there is after a step comes from somewhere.
LEMMA CopiesStep ==
    ASSUME TypesInv, StoreInv, SpaceInv, [Next]_vars, NEW v, Copy(v)'
    PROVE  Source(v)
<1>1. Objects' /\ free' \in [Providers -> Nat]
    BY TypesStep, StoreStep DEF TypesInv, StoreInv
<1>2. CASE doc' # Gone /\ v \in Range(doc')
    BY <1>2, DocumentSource
<1>3. CASE v \in Range(auditor')
    BY <1>3, AuditorSource
<1>4. ASSUME NEW a \in DOMAIN arrays', v \in Range(arrays'[a])  PROVE Source(v)
  <2>1. arrays'[a] \in Seq(Version)
    BY <1>1 DEF Objects
  <2>2. PICK k \in DOMAIN arrays'[a] : v = arrays'[a][k] /\ k \in Nat
    BY <1>4, <2>1 DEF Range
  <2> QED  BY <2>2, ArraysSource
<1>5. CASE v \in Range(disk'.versions)
    BY <1>1, <1>5, SnapshotSource
<1>6. ASSUME NEW t \in Threads, thread'[t].pc \in {"put", "pull"}, v \in Range(thread'[t].body)
      PROVE  Source(v)
    BY <1>6, BodySource
<1>7. CASE restorer'.pc = "round" /\ v = restorer'.new
    BY <1>7, RestorerSource
<1>8. CASE restorer'.pc = "put" /\ (v = restorer'.old \/ v \in Range(restorer'.body))
    BY <1>8, RestorerSource
<1> QED
    BY <1>2, <1>3, <1>4, <1>5, <1>6, <1>7, <1>8 DEF Copy

-----------------------------------------------------------------------------
(* What the metaserver lists, and what was noted.                          *)

Listed == IF doc = Gone THEN {} ELSE Ups(doc)

\* The uploads listed that no mishap hit.
Sound == Listed \ suspect

\* A request has a version that nobody else has.
Unposted(t) == thread[t].pc \in {"draw", "push"}

\* What is noted stays noted.
LEMMA NotesStay ==
    ASSUME TypesInv, [Next]_vars
    PROVE  suspect \subseteq suspect' /\ (misnumbered => misnumbered')
<1>1. ASSUME NEW t \in Threads, PushVersion(t)
      PROVE  suspect \subseteq suspect' /\ misnumbered' = misnumbered
  <2>1. misnumbered' = misnumbered
    BY <1>1 DEF PushVersion
  <2> QED  BY <1>1, <2>1, PushVersionOn
<1>2. ASSUME NEW t \in Threads, StartUpload(t) \/ StartRemoveVersion(t) \/ DeletePrevious(t)
      PROVE  suspect' = suspect /\ misnumbered' = misnumbered
    BY <1>2 DEF StartUpload, StartRemoveVersion, DeletePrevious
<1>3. ASSUME NEW t \in Threads, Refresh(t)
      PROVE  suspect \subseteq suspect' /\ (misnumbered => misnumbered')
    BY <1>3, RefreshObjects
<1>4. ASSUME NEW t \in Threads, RemovePrevious(t) \/ RemoveVersion(t)
      PROVE  suspect \subseteq suspect' /\ misnumbered' = misnumbered
  <2>1. misnumbered' = misnumbered
    BY <1>4 DEF RemovePrevious, RemoveVersion
  <2> QED  BY <1>4, <2>1, SlippedOn
<1>5. ASSUME NEW t \in Threads, UpdateFile(t)
      PROVE  suspect \subseteq suspect' /\ misnumbered' = misnumbered
  <2>1. misnumbered' = misnumbered
    BY <1>5 DEF UpdateFile
  <2> QED  BY <1>5, <2>1, UpdateFileOn DEF Replaced
<1>6. CASE StoreRound
  <2>1. PICK at, result : Rounds(at, result)
    BY <1>6, RoundOn
  <2>2. suspect \subseteq suspect'
    BY <2>1 DEF Rounds
  <2> QED  BY <1>6, <2>2 DEF StoreRound
<1>7. CASE RestoredPut
  <2>1. suspect \subseteq suspect'
    BY <1>7, RestoredPutOn
  <2>2. misnumbered' = misnumbered \/ GoesBack
    BY <1>7, RestoredPutOn
  <2>3. GoesBack => (misnumbered => misnumbered')
    BY Zenon DEF GoesBack
  <2> QED  BY <2>1, <2>2, <2>3
<1>8. CASE AuditVersion
  <2>1. misnumbered' = misnumbered
    BY <1>8 DEF AuditVersion
  <2> QED  BY <1>8, <2>1, AuditVersionOn DEF Audited
<1>9. CASE UNCHANGED history
    BY <1>9 DEF history
<1> QED
    BY <1>1, <1>2, <1>3, <1>4, <1>5, <1>6, <1>7, <1>8, <1>9, WhoNotes

\* The uploads of a list's versions.
LEMMA UpsOf ==
    ASSUME NEW s
    PROVE  Ups(s) = {v.up : v \in Range(s)}
BY DEF Ups, Range

\* An upload comes to be listed only by being pushed, or by a mishap.
LEMMA ListedStep ==
    ASSUME TypesInv, [Next]_vars, NEW u \in Sound'
    PROVE  u \in Sound \/ \E t \in Threads : PushVersion(t) /\ u = thread[t].version.up
<1>1. doc' # Gone /\ u \in Ups(doc') /\ u \notin suspect' /\ u \notin suspect
    BY NotesStay DEF Sound, Listed
<1>2. PICK v \in Range(doc') : u = v.up
    BY <1>1, UpsOf
<1>3. doc # Gone => doc \in Seq(Version)
    BY DEF TypesInv
<1>4. ASSUME doc # Gone, u \in Ups(doc)  PROVE u \in Sound
    BY <1>1, <1>4 DEF Sound, Listed
<1>5. ASSUME doc # Gone, v \in Range(doc)  PROVE u \in Sound
    BY <1>2, <1>4, <1>5, UpsOf
<1>6. ASSUME doc' = doc  PROVE u \in Sound
    BY <1>1, <1>4, <1>6
<1>7. ASSUME NEW t \in Threads, PushVersion(t)
      PROVE  u \in Sound \/ u = thread[t].version.up
  <2>1. /\ doc # Gone /\ doc' = Append(doc, Pushed(t))
        /\ Pushed(t).up = thread[t].version.up
    BY <1>1, <1>7, PushVersionOn
  <2>2. Range(doc') \subseteq Range(doc) \cup {Pushed(t)}
    BY <1>3, <2>1 DEF Range
  <2> QED  BY <1>2, <1>5, <2>1, <2>2
<1>8. ASSUME NEW num, Deletes(num)  PROVE u \in Sound
  <2>1. v \in Range(doc) /\ doc # Gone
    BY <1>2, <1>3, <1>8, PulledIs DEF Deletes
  <2> QED  BY <1>5, <2>1
<1>9. ASSUME NEW t \in Threads, DeletePrevious(t) \/ DeleteVersion(t) \/ DeleteFile(t)
      PROVE  u \in Sound
  <2>1. CASE DeletePrevious(t)
    BY <1>6, <1>8, <2>1, DeletePreviousOn
  <2>2. CASE DeleteVersion(t)
    BY <1>6, <1>8, <2>2, DeleteVersionOn
  <2>3. CASE DeleteFile(t)
    BY <1>1, <1>6, <2>3, DeleteFileOn
  <2> QED  BY <1>9, <2>1, <2>2, <2>3
<1>10. ASSUME NEW t \in Threads, UpdateFile(t)  PROVE u \in Sound
    BY <1>1, <1>4, <1>6, <1>10, UpdateFileOn DEF Replaced
<1>11. CASE RestoredPut
    BY <1>1, <1>4, <1>6, <1>11, RestoredPutOn
<1>12. CASE AuditVersion
  <2>1. CASE Audited(Head(auditor))
    <3>1. PICK h : h = Head(auditor)
      OBVIOUS
    <3>2. Range(doc') \subseteq Range(doc) \cup {h} /\ doc # Gone
      BY <2>1, <3>1 DEF Audited, Range
    <3>3. {h.up} \ Ups(doc) \subseteq suspect'
      BY <2>1, <3>1 DEF Audited
    <3> QED  BY <1>1, <1>2, <1>4, <1>5, <3>2, <3>3
  <2> QED  BY <1>6, <1>12, <2>1, AuditVersionOn
<1> QED
    BY <1>6, <1>7, <1>9, <1>10, <1>11, <1>12, WhoWrites

-----------------------------------------------------------------------------
(* Who removes blocks.                                                     *)

\* A step that may remove blocks of an upload: the request that undoes it,
\* that removes a version or the file, and the restorer.
Removes(u) ==
    \/ \E t \in Threads : UndoUpload(t) /\ u = thread[t].version.up
    \/ \E t \in Threads : /\ RemovePrevious(t) \/ RemoveVersion(t)
                          /\ u = At(thread[t].slot).up
    \/ \E t \in Threads : /\ RemoveFileContents(t)
                          /\ \E w \in Range(Slice(list[thread[t].e])) : u = w.up
    \/ StoreRound /\ u = restorer.new.up /\ u \in suspect'

\* Blocks that are there stay there, unless they are removed.
LEMMA HoldsStay ==
    ASSUME TypesInv, [Next]_vars, NEW v \in Version, Holds(v)
    PROVE  Holds(v)' \/ Removes(v.up)
<1>1. \A i \in Blocks : v.at[i] \in Providers /\ v.up \in Uploads
    BY DEF Version
<1>2. ASSUME \A p \in Providers : has[p] \subseteq has'[p]  PROVE Holds(v)'
    BY <1>1, <1>2 DEF Holds
<1>3. ASSUME NEW versions, NEW failed, RemoveContents(versions, failed),
             \A w \in versions : v.up # w.up
      PROVE  Holds(v)'
  <2>1. PICK g : /\ Takes(g)
                 /\ \A p \in Providers : \A b \in g[p] :
                       \E w \in versions : w.up = b[1] /\ w.at[b[2]] = p
    BY <1>3, RemoveOn DEF TypesInv
  <2>2. ASSUME NEW i \in Blocks  PROVE <<v.up, i>> \in has'[v.at[i]]
    <3>1. PICK p \in Providers : p = v.at[i]
      BY <1>1
    <3>2. <<v.up, i>> \in has[p]
      BY <3>1 DEF Holds
    <3>3. <<v.up, i>> \notin g[p]
      BY <1>3, <2>1
    <3> QED  BY <2>1, <3>1, <3>2, <3>3 DEF Takes
  <2> QED  BY <2>2 DEF Holds
<1>4. ASSUME NEW t \in Threads, StartUpload(t)  PROVE Holds(v)'
    BY <1>2, <1>4, StartUploadOn
<1>5. ASSUME NEW t \in Threads, UndoUpload(t)  PROVE Holds(v)' \/ Removes(v.up)
    BY <1>3, <1>5 DEF UndoUpload, Removes
<1>6. ASSUME NEW t \in Threads, RemovePrevious(t) \/ RemoveVersion(t)
      PROVE  Holds(v)' \/ Removes(v.up)
  <2>1. PICK failed : RemoveContents({At(thread[t].slot)}, failed)
    BY <1>6 DEF RemovePrevious, RemoveVersion
  <2>2. v.up # At(thread[t].slot).up => Holds(v)'
    BY <1>3, <2>1
  <2> QED  BY <1>6, <2>2 DEF Removes
<1>7. ASSUME NEW t \in Threads, RemoveFileContents(t)  PROVE Holds(v)' \/ Removes(v.up)
    BY <1>3, <1>7 DEF RemoveFileContents, Removes
<1>8. ASSUME has' = has  PROVE Holds(v)'
    BY <1>2, <1>8
<1>9. ASSUME NEW t \in Threads, Refresh(t) \/ UpdateFile(t) \/ PullFiles(t)  PROVE Holds(v)'
    BY <1>8, <1>9 DEF Refresh, UpdateFile, PullFiles
<1>10. CASE UpdateFileVersion \/ RestoredPut \/ Crash \/ CorruptBlock
    BY <1>8, <1>10 DEF UpdateFileVersion, RestoredPut, Crash, CorruptBlock
<1>11. CASE UNCHANGED storeVars
    BY <1>8, <1>11 DEF storeVars
<1>12. CASE StoreRound
  <2>1. PICK at, result : Rounds(at, result)
    BY <1>12, RoundOn
  <2>2. CASE v.up \notin suspect'
    BY <1>12, <2>1, <2>2, RoundStarts, RoundHolds
  <2>3. CASE v.up # restorer.new.up
    <3>1. ASSUME NEW i \in Blocks  PROVE <<v.up, i>> \in has'[v.at[i]]
      <4>1. PICK p \in Providers : p = v.at[i]
        BY <1>1
      <4>2. has'[p] = (has[p] \cup Ids(Landing(at, result, p))) \ Ids(Cut(at, result, p))
        BY <2>1, Zenon DEF Rounds
      <4>3. <<v.up, i>> \notin Ids(Cut(at, result, p))
        BY <2>3 DEF Ids
      <4>4. <<v.up, i>> \in has[p]
        BY <4>1 DEF Holds
      <4> QED  BY <4>1, <4>2, <4>3, <4>4
    <3> QED  BY <3>1 DEF Holds
  <2> QED  BY <1>12, <2>2, <2>3 DEF Removes
<1> QED
    BY <1>4, <1>5, <1>6, <1>7, <1>9, <1>10, <1>11, <1>12, WhoStores

-----------------------------------------------------------------------------
(* What a request has next.                                                *)

\* An upload begins: its version is new, and its blocks are where it says.
Begins(t, s) ==
    /\ StartUpload(t) /\ s \in Upload /\ s.pc = "draw" /\ thread[t].pc = "idle"
    /\ s.version.num = 0 /\ s.version.up = spent.uploads + 1
    /\ spent'.uploads = spent.uploads + 1
    /\ \A p \in Providers : BlocksAt(s.version, p) \subseteq has'[p]

\* It draws its number, or does not.
Draws(t, s) ==
    /\ thread[t].pc = "draw" /\ Keeps(t, s)
    /\ \/ s.pc = "push" /\ s.num = counter + 1 /\ counter' = counter + 1
       \/ s.pc = "undo"

\* It posts its version, or does not, or does not know that it did.
Posts(t, s) ==
    /\ thread[t].pc = "push" /\ Keeps(t, s)
    /\ s.pc \in {"undo", "deletePrevious", "refresh"}
    /\ s.pc = "undo" => doc' = Gone \/ s.version.up \in suspect'

\* A version is asked to be removed, by the number of what a slot has.
Asks(s) ==
    /\ s.pc = "deleteVersion" /\ IsSlot(s.slot) /\ s.num = At(s.slot).num
    /\ At(s.slot).up \in asked'

\* A version, or the file, is not listed any more; its blocks are removed next.
Unlists(t, s) ==
    \/ /\ s.pc = "removePrevious" /\ IsSlot(s.slot) /\ s.num = At(s.slot).num
       /\ Deletes(s.num)
    \/ /\ s.pc = "removeVersion" /\ thread[t].pc = "deleteVersion" /\ s.num = thread[t].num
       /\ Deletes(s.num)
    \/ s.pc = "removeFile" /\ doc' = Gone

Removing(t, s) == Asks(s) \/ Unlists(t, s)

\* Everything else.
Elsewhere(s) ==
    s.pc \notin {"draw", "push", "undo", "removePrevious", "deleteVersion", "removeVersion",
                 "removeFile"}

\* What a request has next.
LEMMA RequestStep ==
    ASSUME TypesInv, [Next]_vars, NEW u \in Threads
    PROVE  \/ thread'[u] = thread[u]
           \/ \E s \in State :
                /\ Turns(u, s) \/ (s.pc = "idle" /\ thread'[u] = s)
                /\ \/ Begins(u, s) \/ Draws(u, s) \/ Posts(u, s)
                   \/ (s \in Upload => Keeps(u, s)) /\ (Removing(u, s) \/ Elsewhere(s))
<1> DEFINE Goes == \E s \in State :
                     /\ Turns(u, s) \/ (s.pc = "idle" /\ thread'[u] = s)
                     /\ \/ Begins(u, s) \/ Draws(u, s) \/ Posts(u, s)
                        \/ (s \in Upload => Keeps(u, s)) /\ (Removing(u, s) \/ Elsewhere(s))
<1>1. thread \in [Threads -> State] /\ \A s : Turns(u, s) => s \in State
    BY DEF TypesInv, Turns
<1>2. \A s \in Idle \cup Sending \cup Pulling : s \notin Upload /\ Elsewhere(s)
    BY DEF Idle, Sending, Pulling, Upload, Elsewhere
<1>3. \A s \in Removal : s \notin Upload
    BY DEF Removal, Upload
<1>4. \A s \in OfFile : s \notin Upload /\ (s.pc \in {"deleteFile", "send"} => Elsewhere(s))
    BY DEF OfFile, Upload, Elsewhere
<1>5. \A s : s.pc = "refresh" => Elsewhere(s)
    BY DEF Elsewhere
<1>6. CASE StartUpload(u)
  <2>1. PICK s \in Upload :
              /\ Turns(u, s) /\ s.pc = "draw" /\ thread[u].pc = "idle"
              /\ s.version.num = 0 /\ s.version.up = spent.uploads + 1
              /\ spent'.uploads = spent.uploads + 1
              /\ has' = [p \in Providers |-> has[p] \cup BlocksAt(s.version, p)]
    BY <1>6, StartUploadOn
  <2>2. \A p \in Providers : BlocksAt(s.version, p) \subseteq has'[p]
    BY <2>1
  <2> QED  BY <1>1, <1>6, <2>1, <2>2 DEF Begins
<1>7. CASE StartRemoveVersion(u)
  <2>1. PICK s \in Removal : /\ Turns(u, s) /\ s.pc = "deleteVersion" /\ IsSlot(s.slot)
                             /\ s.num = At(s.slot).num /\ asked' = asked \cup {At(s.slot).up}
    BY <1>7, StartRemoveVersionOn
  <2>2. Removing(u, s)
    BY <2>1 DEF Removing, Asks
  <2> QED  BY <1>1, <1>3, <2>1, <2>2
<1>8. CASE StartRemoveFile(u) \/ StartRename(u)
    BY <1>1, <1>4, <1>8, StartOfFileOn
<1>9. CASE ReadList(u) \/ SendFile(u)
    BY <1>1, <1>2, <1>9, ReadListOn, SendFileOn
<1>10. CASE DrawNumber(u)
    BY <1>1, <1>10, DrawNumberOn DEF Draws
<1>11. CASE PushVersion(u)
    BY <1>1, <1>11, PushVersionOn DEF Posts
<1>12. CASE DeletePrevious(u)
  <2>1. PICK s \in State :
                 /\ Turns(u, s)
                 /\ \/ s \in Idle
                    \/ Keeps(u, s) /\ s.pc = "refresh"
                    \/ /\ Keeps(u, s) /\ s.pc = "removePrevious" /\ IsSlot(s.slot)
                       /\ s.num = At(s.slot).num /\ Deletes(s.num)
    BY <1>12, DeletePreviousOn
  <2> QED  BY <1>2, <1>5, <2>1 DEF Removing, Unlists
<1>13. CASE RemovePrevious(u)
  <2>1. PICK s \in State : Turns(u, s) /\ (s \in Idle \/ (Keeps(u, s) /\ s.pc = "refresh"))
    BY <1>13, RemovePreviousOn
  <2> QED  BY <1>2, <1>5, <2>1
<1>14. CASE DeleteVersion(u)
  <2>1. PICK s \in State :
                 /\ Turns(u, s)
                 /\ \/ s \in Idle
                    \/ /\ s \in Removal /\ s.pc = "removeVersion" /\ thread[u].pc = "deleteVersion"
                       /\ s.num = thread[u].num /\ Deletes(s.num)
    BY <1>14, DeleteVersionOn
  <2> QED  BY <1>2, <1>3, <2>1 DEF Removing, Unlists
<1>15. CASE DeleteFile(u)
  <2>1. PICK s \in State :
                 Turns(u, s) /\ (s \in Idle \/ (s \in OfFile /\ s.pc = "removeFile" /\ doc' = Gone))
    BY <1>15, DeleteFileOn
  <2> QED  BY <1>2, <1>4, <2>1 DEF Removing, Unlists
<1>16. CASE \/ UndoUpload(u) \/ Refresh(u) \/ RemoveVersion(u) \/ RemoveFileContents(u)
            \/ UpdateFile(u) \/ PullFiles(u)
    BY <1>1, <1>2, <1>16, EndsOn
<1>17. ASSUME StartUpload(u) \/ Opens(u) \/ Serve(u)  PROVE thread'[u] = thread[u] \/ Goes
    BY <1>6, <1>7, <1>8, <1>9, <1>10, <1>11, <1>12, <1>13, <1>14, <1>15, <1>16, <1>17, Zenon
       DEF Opens, Serve
<1>18. ASSUME NEW t \in Threads, StartUpload(t) \/ Opens(t) \/ Serve(t), u # t
       PROVE  thread'[u] = thread[u]
    BY <1>18, TurnsOn DEF Turns
<1>19. CASE Restart
  <2>1. PICK s \in Idle : s = [pc |-> "idle"]
    BY DEF Idle
  <2>2. thread'[u] = s /\ s \in State /\ s.pc = "idle"
    BY <1>19, <2>1 DEF Restart, State
  <2> QED  BY <1>2, <2>2
<1>20. CASE RestoredPut \/ Crash
    BY <1>19, <1>20, RestoredPutOn DEF Crash
<1> QED
    BY <1>17, <1>18, <1>20, WhoServes

\* The version of an upload is the same, or it begins.
LEMMA VersionOn ==
    ASSUME TypesInv, [Next]_vars, NEW u \in Threads, thread'[u] \in Upload
    PROVE  \/ thread[u] \in Upload /\ thread'[u].version = thread[u].version
           \/ Begins(u, thread'[u]) /\ \A t \in Threads \ {u} : thread'[t] = thread[t]
<1>1. thread'[u].pc # "idle"
    BY DEF Upload
<1>2. CASE thread'[u] = thread[u]
    BY <1>2
<1>3. ASSUME NEW s \in State, Turns(u, s),
             \/ Begins(u, s) \/ Draws(u, s) \/ Posts(u, s) \/ (s \in Upload => Keeps(u, s))
      PROVE  \/ thread[u] \in Upload /\ s.version = thread[u].version
             \/ Begins(u, s)
    BY <1>3 DEF Draws, Posts, Keeps, Turns
<1> QED
    BY <1>1, <1>2, <1>3, RequestStep DEF Turns

-----------------------------------------------------------------------------
(* IDs and numbers: who has a version of which upload, under which number. *)

\* A copy is of an upload that was begun, under a number that was drawn.
CopiesDrawn == \A v : Copy(v) => v.up <= spent.uploads /\ v.num <= counter

\* The copies of an upload have one number, unless a mishap hit it.
OneNumber ==
    \A v, w : Copy(v) /\ Copy(w) /\ v.up = w.up => v.num = w.num \/ v.up \in suspect

\* No two requests have an upload, and its version gets its number later.
UploadsApart ==
    \A t \in Threads : thread[t] \in Upload =>
        /\ thread[t].version.up <= spent.uploads /\ thread[t].version.num = 0
        /\ \A u \in Threads :
              thread[u] \in Upload /\ thread[u].version.up = thread[t].version.up => u = t

\* Nobody has a copy of a version that is not posted, and a version is undone
\* only if it is not listed, or if a mishap hit it.
PostedOnce ==
    \A t \in Threads :
        /\ Unposted(t) => \A v : Copy(v) => v.up # thread[t].version.up
        /\ thread[t].pc = "undo" => thread[t].version.up \notin Sound

\* A number drawn is nobody else's.
NumbersDrawn ==
    \A t \in Threads : thread[t].pc = "push" =>
        /\ 0 < thread[t].num /\ thread[t].num <= counter
        /\ \A v : Copy(v) => v.num # thread[t].num
        /\ \A u \in Threads : thread[u].pc = "push" /\ thread[u].num = thread[t].num => u = t

\* Neither is it one that a removal names.
NumbersNamed ==
    \A t \in Threads : thread[t].pc \in {"removePrevious", "deleteVersion", "removeVersion"} =>
        /\ thread[t].num \in Nat /\ thread[t].num <= counter
        /\ \A u \in Threads : thread[u].pc = "push" => thread[u].num # thread[t].num

IdsInv == CopiesDrawn /\ OneNumber /\ UploadsApart /\ PostedOnce /\ NumbersDrawn /\ NumbersNamed

\* The numbers of a version.
LEMMA VersionIs ==
    ASSUME NEW v \in Version  PROVE v.num \in Nat /\ v.up \in Nat /\ v.up \in Uploads
BY FileAssumption DEF Version, Uploads

\* The counters.
LEMMA CountersAre ==
    ASSUME TypesInv  PROVE counter \in Nat /\ spent.uploads \in Nat
BY FileAssumption DEF TypesInv, Spending, Uploads

\* They only go up.
LEMMA CountersGrow ==
    ASSUME TypesInv, [Next]_vars
    PROVE  /\ counter' \in Nat /\ spent'.uploads \in Nat
           /\ counter <= counter' /\ spent.uploads <= spent'.uploads
<1>1. counter \in Nat /\ spent.uploads \in Nat
    BY CountersAre
<1>2. counter' = counter \/ counter' = counter + 1
    BY WhoDraws, DrawNumberOn
<1>3. spent'.uploads = spent.uploads \/ spent'.uploads = spent.uploads + 1
    BY SpentStep, StartUploadOn
<1> QED
    BY <1>1, <1>2, <1>3

\* A version has the number and the upload of a copy.
Like(v) == \E w : Copy(w) /\ v.num = w.num /\ v.up = w.up

\* It is just pushed.
New(v) ==
    \E t \in Threads : /\ PushVersion(t) /\ thread[t] \in Upload /\ thread[t].pc = "push"
                       /\ v.up = thread[t].version.up /\ v.num = thread[t].num

\* The renter made it up.
MadeUp(v) ==
    \E t \in Threads : /\ thread[t] \in Upload /\ thread[t].pc = "refresh"
                       /\ v.up = thread[t].version.up /\ v.num = thread[t].version.num
                       /\ v.up \in suspect' /\ misnumbered'

\* The copies after a step.
LEMMA CopyNext ==
    ASSUME TypesInv, StoreInv, SpaceInv, IdsInv, [Next]_vars, NEW v, Copy(v)'
    PROVE  /\ Like(v) \/ New(v) \/ MadeUp(v)
           /\ v \in Version
           /\ v.up <= spent.uploads /\ v.num <= counter
<1>1. Like(v) \/ New(v) \/ MadeUp(v)
  <2>1. Source(v)
    BY CopiesStep
  <2>2. ASSUME NEW t \in Threads, PushVersion(t), v = Pushed(t)  PROVE New(v)
    <3>1. thread[t].pc = "push" /\ thread[t] \in State
      BY <2>2 DEF PushVersion, TypesInv
    <3> QED  BY <2>2, <3>1, PushVersionOn, States DEF New
  <2>3. ASSUME NEW t \in Threads, thread[t].pc = "refresh", v = thread[t].version,
               v.up \in suspect', misnumbered'
        PROVE  MadeUp(v)
    <3>1. thread[t] \in State
      BY DEF TypesInv
    <3> QED  BY <2>3, <3>1, States DEF MadeUp
  <2> QED  BY <2>1, <2>2, <2>3 DEF Source, Like
<1>2. v \in Version
  <2>1. Source(v)
    BY CopiesStep
  <2>2. ASSUME NEW t \in Threads, thread[t].pc = "refresh"  PROVE thread[t].version \in Version
    <3>1. thread[t] \in State
      BY DEF TypesInv
    <3> QED  BY <2>2, <3>1, States DEF Upload
  <2> QED  BY <2>1, <2>2, CopyIs, PushVersionOn DEF Source
<1>3. CASE Like(v)
    BY <1>1, <1>2, <1>3 DEF Like, IdsInv, CopiesDrawn
<1>4. CASE New(v)
    BY <1>1, <1>2, <1>4 DEF New, IdsInv, UploadsApart, NumbersDrawn
<1>5. CASE MadeUp(v)
  <2>1. counter \in Nat
    BY CountersAre
  <2> QED  BY <1>1, <1>2, <1>5, <2>1 DEF MadeUp, IdsInv, UploadsApart
<1> QED
    BY <1>1, <1>2, <1>3, <1>4, <1>5

\* The parts, one by one: what is drawn stays below the counters.
LEMMA CopiesDrawnStep ==
    ASSUME TypesInv, StoreInv, SpaceInv, IdsInv, [Next]_vars
    PROVE  CopiesDrawn'
<1>1. ASSUME NEW v, Copy(v)'  PROVE v.up <= spent'.uploads /\ v.num <= counter'
  <2>1. v \in Version /\ v.up <= spent.uploads /\ v.num <= counter
    BY <1>1, CopyNext
  <2>2. PICK up \in Nat, num \in Nat : up = v.up /\ num = v.num
    BY <2>1, VersionIs
  <2> QED  BY <2>1, <2>2, CountersAre, CountersGrow
<1> QED
    BY <1>1 DEF CopiesDrawn

\* A version that is pushed is one that nobody has.
LEMMA OneNumberStep ==
    ASSUME TypesInv, StoreInv, SpaceInv, IdsInv, [Next]_vars
    PROVE  OneNumber'
<1>1. ASSUME NEW v, NEW w, Copy(v)', Copy(w)', v.up = w.up, v.up \notin suspect'
      PROVE  v.num = w.num
  <2>1. (Like(v) \/ New(v)) /\ (Like(w) \/ New(w)) /\ v.up \notin suspect
    BY <1>1, CopyNext, NotesStay DEF MadeUp
  <2>2. CASE Like(v) /\ Like(w)
    BY <1>1, <2>1, <2>2 DEF Like, IdsInv, OneNumber
  <2>3. ASSUME NEW x, NEW y, Like(x), New(y)  PROVE x.up # y.up
    BY <2>3 DEF Like, New, IdsInv, PostedOnce, Unposted
  <2>4. CASE New(v) /\ New(w)
    BY <1>1, <2>4 DEF New, IdsInv, UploadsApart
  <2> QED  BY <1>1, <2>1, <2>2, <2>3, <2>4
<1> QED
    BY <1>1 DEF OneNumber

\* An upload that begins gets the next ID.
LEMMA UploadsApartStep ==
    ASSUME TypesInv, StoreInv, SpaceInv, IdsInv, [Next]_vars
    PROVE  UploadsApart'
<1>1. \A t \in Threads : thread[t] \in Upload =>
          thread[t].version.up \in Nat /\ thread[t].version.up <= spent.uploads
    BY VersionIs DEF Upload, IdsInv, UploadsApart
<1>2. ASSUME NEW t \in Threads, thread'[t] \in Upload
      PROVE  thread'[t].version.up <= spent'.uploads /\ thread'[t].version.num = 0
  <2>1. CASE thread[t] \in Upload /\ thread'[t].version = thread[t].version
    <3>1. PICK up \in Nat : up = thread'[t].version.up /\ up <= spent.uploads
      BY <1>1, <2>1
    <3> QED  BY <2>1, <3>1, CountersAre, CountersGrow DEF IdsInv, UploadsApart
  <2>2. CASE Begins(t, thread'[t])
    BY <2>2, CountersAre DEF Begins
  <2> QED  BY <1>2, <2>1, <2>2, VersionOn
<1>3. ASSUME NEW t \in Threads, NEW u \in Threads, t # u,
             thread'[t] \in Upload, thread'[u] \in Upload,
             Begins(t, thread'[t]), \A w \in Threads \ {t} : thread'[w] = thread[w]
      PROVE  thread'[u].version.up # thread'[t].version.up
  <2>1. PICK up \in Nat : up = thread'[u].version.up /\ up <= spent.uploads
    BY <1>1, <1>3
  <2>2. thread'[t].version.up = spent.uploads + 1
    BY <1>3 DEF Begins
  <2> QED  BY <2>1, <2>2, CountersAre
<1>4. ASSUME NEW t \in Threads, NEW u \in Threads, thread'[t] \in Upload, thread'[u] \in Upload,
             thread'[u].version.up = thread'[t].version.up
      PROVE  u = t
  <2>1. CASE /\ thread[t] \in Upload /\ thread'[t].version = thread[t].version
             /\ thread[u] \in Upload /\ thread'[u].version = thread[u].version
    BY <1>4, <2>1 DEF IdsInv, UploadsApart
  <2> QED  BY <1>3, <1>4, <2>1, VersionOn
<1> QED
    BY <1>2, <1>4 DEF UploadsApart

\* A version is nobody's until it is posted, and is not undone when it is.
LEMMA PostedOnceStep ==
    ASSUME TypesInv, StoreInv, SpaceInv, IdsInv, [Next]_vars
    PROVE  PostedOnce'
<1>1. \A u \in Threads : Unposted(u)' => thread'[u] \in Upload
  <2>1. TypesInv'
    BY TypesStep
  <2> QED  BY <2>1, States DEF TypesInv, Unposted
<1>2. ASSUME NEW t \in Threads, Unposted(t)', NEW v, Copy(v)'
      PROVE  v.up # thread'[t].version.up
  <2>1. /\ Like(v) \/ New(v) \/ MadeUp(v)
        /\ v \in Version /\ v.up <= spent.uploads
    BY <1>2, CopyNext
  <2>2. CASE Begins(t, thread'[t])
    <3>1. PICK up \in Nat : up = v.up
      BY <2>1, VersionIs
    <3> QED  BY <2>1, <2>2, <3>1, CountersAre DEF Begins
  <2>3. CASE Unposted(t) /\ thread[t] \in Upload /\ thread'[t].version = thread[t].version
    <3>1. CASE Like(v)
      BY <2>3, <3>1 DEF Like, IdsInv, PostedOnce
    <3>2. CASE MadeUp(v)
      BY <2>3, <3>2 DEF MadeUp, Unposted, IdsInv, UploadsApart
    <3>3. ASSUME NEW u \in Threads, PushVersion(u), thread[u] \in Upload,
                 v.up = thread[u].version.up
          PROVE  v.up # thread'[t].version.up
      <4>1. thread'[u].pc \notin {"draw", "push"}
        BY <3>3, PushVersionOn DEF Turns
      <4>2. u # t
        BY <1>2, <4>1 DEF Unposted
      <4> QED  BY <2>3, <3>3, <4>2 DEF IdsInv, UploadsApart
    <3> QED  BY <2>1, <3>1, <3>2, <3>3 DEF New
  <2>4. \/ Begins(t, thread'[t])
        \/ Unposted(t) /\ thread[t] \in Upload /\ thread'[t].version = thread[t].version
    <3>1. CASE thread'[t] = thread[t]
      BY <1>1, <1>2, <3>1 DEF Unposted
    <3>2. ASSUME NEW s \in State, Begins(t, s) \/ Draws(t, s) \/ Posts(t, s)
                   \/ ((s \in Upload => Keeps(t, s)) /\ (Removing(t, s) \/ Elsewhere(s))),
                 s = thread'[t]
          PROVE  \/ Begins(t, thread'[t])
                 \/ Unposted(t) /\ thread[t] \in Upload /\ thread'[t].version = thread[t].version
      BY <1>2, <3>2 DEF Unposted, Draws, Posts, Removing, Asks, Unlists, Elsewhere, Keeps
    <3> QED  BY <3>1, <3>2, RequestStep DEF Turns
  <2> QED  BY <2>2, <2>3, <2>4
<1>3. ASSUME NEW t \in Threads, thread'[t].pc = "undo", thread'[t].version.up \in Sound'
      PROVE  FALSE
  <2>1. /\ doc' # Gone /\ thread'[t].version.up \notin suspect'
        /\ \/ thread'[t].version.up \in Sound
           \/ \E u \in Threads : PushVersion(u) /\ thread'[t].version.up = thread[u].version.up
    BY <1>3, ListedStep DEF Sound, Listed
  <2>2. /\ thread[t] \in Upload /\ thread'[t].version = thread[t].version
        /\ thread[t].pc \in {"draw", "undo"} \/ Posts(t, thread'[t])
    <3>1. CASE thread'[t] = thread[t]
      <4>1. thread[t] \in State
        BY DEF TypesInv
      <4> QED  BY <1>3, <3>1, <4>1, States
    <3>2. ASSUME NEW s \in State, Begins(t, s) \/ Draws(t, s) \/ Posts(t, s)
                   \/ ((s \in Upload => Keeps(t, s)) /\ (Removing(t, s) \/ Elsewhere(s))),
                 s = thread'[t]
          PROVE  /\ thread[t] \in Upload /\ thread'[t].version = thread[t].version
                 /\ thread[t].pc \in {"draw", "undo"} \/ Posts(t, thread'[t])
      BY <1>3, <3>2 DEF Begins, Draws, Posts, Removing, Asks, Unlists, Elsewhere, Keeps
    <3> QED  BY <3>1, <3>2, RequestStep DEF Turns
  <2>3. ~Posts(t, thread'[t])
    BY <1>3, <2>1 DEF Posts
  <2>4. thread[t].version.up \notin Sound
    <3>1. CASE thread[t].pc = "undo"
      BY <3>1 DEF IdsInv, PostedOnce
    <3>2. CASE thread[t].pc = "draw" /\ thread[t].version.up \in Sound
      <4>1. PICK v \in Range(doc) : v.up = thread[t].version.up /\ doc # Gone
        BY <3>2, UpsOf DEF Sound, Listed
      <4>2. Copy(v)
        BY <4>1 DEF Copy
      <4> QED  BY <3>2, <4>1, <4>2 DEF IdsInv, PostedOnce, Unposted
    <3> QED  BY <2>2, <2>3, <3>1, <3>2
  <2>5. ASSUME NEW u \in Threads, PushVersion(u)
        PROVE  thread'[t].version.up # thread[u].version.up
    <3>1. thread[u].pc = "push" /\ thread[u] \in State
      BY <2>5, PushVersionOn DEF TypesInv
    <3>2. thread[u] \in Upload /\ t # u
      BY <2>2, <2>3, <3>1, States
    <3> QED  BY <2>2, <3>2 DEF IdsInv, UploadsApart
  <2> QED  BY <2>1, <2>2, <2>4, <2>5
<1> QED
    BY <1>2, <1>3 DEF PostedOnce

\* A number drawn is nobody's until the version is pushed.
LEMMA NumbersDrawnStep ==
    ASSUME TypesInv, StoreInv, SpaceInv, IdsInv, [Next]_vars
    PROVE  NumbersDrawn'
<1> DEFINE Drew(t) == /\ thread[t].pc = "draw" /\ thread'[t].num = counter + 1
                      /\ counter' = counter + 1
                      /\ \A u \in Threads \ {t} : thread'[u] = thread[u]
<1>1. \A t \in Threads : thread[t].pc = "push" => thread[t].num \in Nat /\ thread[t] \in Upload
  <2>1. \A t \in Threads : thread[t] \in State
    BY DEF TypesInv
  <2> QED  BY <2>1, States DEF Upload
<1>2. ASSUME NEW t \in Threads, thread'[t].pc = "push"
      PROVE  Drew(t) \/ thread'[t] = thread[t]
  <2>1. ASSUME NEW s \in State, Turns(t, s) \/ (s.pc = "idle" /\ thread'[t] = s),
                Begins(t, s) \/ Draws(t, s) \/ Posts(t, s)
                  \/ ((s \in Upload => Keeps(t, s)) /\ (Removing(t, s) \/ Elsewhere(s)))
        PROVE  Drew(t)
    BY <1>2, <2>1 DEF Begins, Draws, Posts, Removing, Asks, Unlists, Elsewhere, Turns
  <2> QED  BY <2>1, RequestStep
<1>3. ASSUME NEW t \in Threads, thread'[t].pc = "push"
      PROVE  0 < thread'[t].num /\ thread'[t].num <= counter'
    BY <1>1, <1>2, <1>3, CountersAre, CountersGrow DEF IdsInv, NumbersDrawn
<1>4. ASSUME NEW t \in Threads, thread'[t].pc = "push", NEW v, Copy(v)'
      PROVE  v.num # thread'[t].num
  <2>1. /\ Like(v) \/ New(v) \/ MadeUp(v)
        /\ v \in Version /\ v.num <= counter
    BY <1>4, CopyNext
  <2>2. CASE Drew(t)
    <3>1. PICK num \in Nat : num = v.num
      BY <2>1, VersionIs
    <3> QED  BY <2>1, <2>2, <3>1, CountersAre
  <2>3. CASE thread'[t] = thread[t]
    <3>1. CASE Like(v)
      BY <1>4, <2>3, <3>1 DEF Like, IdsInv, NumbersDrawn
    <3>2. CASE MadeUp(v)
      <4>1. v.num = 0
        BY <3>2 DEF MadeUp, IdsInv, UploadsApart
      <4> QED  BY <1>1, <1>4, <2>3, <4>1 DEF IdsInv, NumbersDrawn
    <3>3. ASSUME NEW u \in Threads, PushVersion(u), thread[u].pc = "push", v.num = thread[u].num
          PROVE  v.num # thread'[t].num
      <4>1. thread'[u].pc # "push"
        BY <3>3, PushVersionOn DEF Turns
      <4>2. u # t
        BY <1>4, <4>1
      <4> QED  BY <1>4, <2>3, <3>3, <4>2 DEF IdsInv, NumbersDrawn
    <3> QED  BY <2>1, <3>1, <3>2, <3>3 DEF New
  <2> QED  BY <1>2, <1>4, <2>2, <2>3
<1>5. ASSUME NEW t \in Threads, NEW u \in Threads, t # u, Drew(t), thread'[u].pc = "push"
      PROVE  thread'[u].num # thread'[t].num
  <2>1. thread'[u] = thread[u]
    BY <1>5
  <2>2. PICK num \in Nat : num = thread'[u].num /\ num <= counter
    BY <1>1, <1>5, <2>1 DEF IdsInv, NumbersDrawn
  <2> QED  BY <1>5, <2>2, CountersAre
<1>6. ASSUME NEW t \in Threads, NEW u \in Threads, thread'[t].pc = "push", thread'[u].pc = "push",
             thread'[u].num = thread'[t].num
      PROVE  u = t
    BY <1>2, <1>5, <1>6 DEF IdsInv, NumbersDrawn
<1> QED
    BY <1>3, <1>4, <1>6 DEF NumbersDrawn

\* A removal names the number of a version that somebody has.
LEMMA NumbersNamedStep ==
    ASSUME TypesInv, StoreInv, SpaceInv, IdsInv, [Next]_vars
    PROVE  NumbersNamed'
<1> DEFINE Names(t, num) ==
             /\ num \in Nat /\ num <= counter
             /\ \A u \in Threads : thread[u].pc = "push" => thread[u].num # num
<1>1. ASSUME NEW v, Copy(v), NEW t \in Threads  PROVE Names(t, v.num)
    BY <1>1, CopyIs, VersionIs DEF IdsInv, CopiesDrawn, NumbersDrawn
<1>2. ASSUME NEW t \in Threads,
             thread'[t].pc \in {"removePrevious", "deleteVersion", "removeVersion"}
      PROVE  Names(t, thread'[t].num)
  <2>1. CASE thread'[t] = thread[t]
    BY <1>2, <2>1 DEF IdsInv, NumbersNamed
  <2>2. ASSUME NEW slot, IsSlot(slot), thread'[t].num = At(slot).num
        PROVE  Names(t, thread'[t].num)
    <3>1. PICK v : v = At(slot) /\ Copy(v)
      BY <2>2, InArrays
    <3> QED  BY <1>1, <2>2, <3>1
  <2>3. ASSUME thread[t].pc = "deleteVersion", thread'[t].num = thread[t].num
        PROVE  Names(t, thread'[t].num)
    BY <2>3 DEF IdsInv, NumbersNamed
  <2>4. ASSUME NEW s \in State, Begins(t, s) \/ Draws(t, s) \/ Posts(t, s)
                   \/ ((s \in Upload => Keeps(t, s)) /\ (Removing(t, s) \/ Elsewhere(s))),
               s = thread'[t]
        PROVE  \/ \E slot : IsSlot(slot) /\ s.num = At(slot).num
               \/ thread[t].pc = "deleteVersion" /\ s.num = thread[t].num
    BY <1>2, <2>4 DEF Begins, Draws, Posts, Removing, Asks, Unlists, Elsewhere
  <2> QED  BY <2>1, <2>2, <2>3, <2>4, RequestStep DEF Turns
<1>3. ASSUME NEW t \in Threads, thread'[t].pc = "push"
      PROVE  thread'[t] = thread[t] \/ thread'[t].num = counter + 1
  <2>1. ASSUME NEW s \in State, Begins(t, s) \/ Draws(t, s) \/ Posts(t, s)
                   \/ ((s \in Upload => Keeps(t, s)) /\ (Removing(t, s) \/ Elsewhere(s))),
               s = thread'[t]
        PROVE  s.num = counter + 1
    BY <1>3, <2>1 DEF Begins, Draws, Posts, Removing, Asks, Unlists, Elsewhere
  <2> QED  BY <2>1, RequestStep DEF Turns
<1>4. ASSUME NEW t \in Threads, NEW num \in Nat, Names(t, num)
      PROVE  /\ num <= counter'
             /\ \A u \in Threads : thread'[u].pc = "push" => thread'[u].num # num
    BY <1>3, <1>4, CountersAre, CountersGrow
<1> QED
    BY <1>2, <1>4 DEF NumbersNamed

\* A version that is pushed has not the number that a removal names.
LEMMA NamedApart ==
    ASSUME IdsInv, NEW v, New(v), NEW t \in Threads,
           thread[t].pc \in {"removePrevious", "deleteVersion", "removeVersion"}
    PROVE  v.num # thread[t].num
BY DEF New, IdsInv, NumbersNamed

\* IDs and numbers.
LEMMA IdsStep ==
    ASSUME TypesInv, StoreInv, SpaceInv, IdsInv, [Next]_vars
    PROVE  IdsInv'
BY CopiesDrawnStep, OneNumberStep, UploadsApartStep, PostedOnceStep, NumbersDrawnStep,
   NumbersNamedStep DEF IdsInv

-----------------------------------------------------------------------------
(* What is listed is stored.                                               *)

\* The copies of an upload that is listed have their blocks.
CopiesHeld == \A v : Copy(v) /\ v.up \in Sound => Holds(v)

\* So does a version that is not posted yet.
UnpostedHeld == \A t \in Threads : Unposted(t) => Holds(thread[t].version)

\* The number that a request deleted is not listed, unless a mishap hit it.
RemovedUnlisted ==
    \A t \in Threads :
        /\ thread[t].pc \in {"removePrevious", "removeVersion"} /\ doc # Gone =>
              \A v \in Range(doc) : v.num = thread[t].num => v.up \in suspect
        /\ thread[t].pc = "removeFile" => doc = Gone

StoredInv == CopiesHeld /\ UnpostedHeld /\ RemovedUnlisted

\* Blocks of what stays listed are not removed.
LEMMA SoundKept ==
    ASSUME TypesInv, IdsInv, StoredInv, [Next]_vars, NEW u \in Sound, u \notin suspect'
    PROVE  ~Removes(u)
<1>1. doc # Gone
    BY DEF Sound, Listed
<1>2. ASSUME NEW t \in Threads, UndoUpload(t)  PROVE u # thread[t].version.up
    BY <1>2 DEF UndoUpload, IdsInv, PostedOnce
<1>3. ASSUME NEW t \in Threads, RemovePrevious(t) \/ RemoveVersion(t)
      PROVE  u # At(thread[t].slot).up
  <2>1. SUFFICES ASSUME u = At(thread[t].slot).up  PROVE FALSE
    OBVIOUS
  <2>2. /\ thread[t].pc \in {"removePrevious", "removeVersion"} /\ IsSlot(thread[t].slot)
        /\ At(thread[t].slot).num = thread[t].num
    BY <1>3, <2>1, SlippedOn
  <2>3. PICK w : w = At(thread[t].slot) /\ Copy(w)
    BY <2>2, InArrays
  <2>4. PICK v \in Range(doc) : v.up = u
    BY UpsOf DEF Sound, Listed
  <2>5. Copy(v) /\ u \notin suspect
    BY <1>1 DEF Copy, Sound
  <2>6. v.num = thread[t].num
    BY <2>1, <2>2, <2>3, <2>4, <2>5 DEF IdsInv, OneNumber
  <2> QED  BY <1>1, <2>2, <2>4, <2>5, <2>6 DEF StoredInv, RemovedUnlisted
<1>4. \A t \in Threads : ~RemoveFileContents(t)
    BY <1>1 DEF RemoveFileContents, StoredInv, RemovedUnlisted
<1> QED
    BY <1>2, <1>3, <1>4 DEF Removes

\* Neither are those of a version that is not posted yet.
LEMMA UnpostedKept ==
    ASSUME TypesInv, IdsInv, [Next]_vars, NEW t \in Threads, Unposted(t)
    PROVE  ~Removes(thread[t].version.up)
<1>1. \A v : Copy(v) => v.up # thread[t].version.up
    BY DEF IdsInv, PostedOnce
<1>2. \A u \in Threads : thread[u] \in State
    BY DEF TypesInv
<1>3. ASSUME NEW u \in Threads, UndoUpload(u)
      PROVE  thread[t].version.up # thread[u].version.up
  <2>1. thread[u].pc = "undo" /\ thread[u] \in Upload /\ thread[t] \in Upload
    BY <1>2, <1>3, States DEF UndoUpload, Unposted
  <2> QED  BY <2>1 DEF IdsInv, UploadsApart, Unposted
<1>4. ASSUME NEW u \in Threads, RemovePrevious(u) \/ RemoveVersion(u)
      PROVE  thread[t].version.up # At(thread[u].slot).up
  <2>1. IsSlot(thread[u].slot)
    BY <1>4 DEF RemovePrevious, RemoveVersion, TypesInv, Working
  <2> QED  BY <1>1, <2>1, InArrays
<1>5. ASSUME NEW u \in Threads, RemoveFileContents(u), NEW w \in Range(Slice(list[thread[u].e]))
      PROVE  thread[t].version.up # w.up
  <2>1. thread[u].e \in DOMAIN list
    BY <1>5 DEF RemoveFileContents, TypesInv, Working
  <2> QED  BY <1>1, <2>1, InArrays
<1>6. StoreRound => restorer.new.up # thread[t].version.up
    BY <1>1 DEF StoreRound, Copy
<1> QED
    BY <1>3, <1>4, <1>5, <1>6 DEF Removes

\* The copies of a listed upload, after a step.
LEMMA CopiesHeldStep ==
    ASSUME TypesInv, StoreInv, SpaceInv, IdsInv, StoredInv, [Next]_vars
    PROVE  CopiesHeld'
<1>1. ASSUME NEW w, Copy(w), w.up \in Sound'
      PROVE  w \in Version /\ w.up \in Sound /\ Holds(w) /\ ~Removes(w.up)
  <2>1. \A t \in Threads : PushVersion(t) => w.up # thread[t].version.up
    BY <1>1 DEF PushVersion, IdsInv, PostedOnce, Unposted
  <2>2. w.up \in Sound /\ w.up \notin suspect'
    BY <1>1, <2>1, ListedStep DEF Sound
  <2> QED  BY <1>1, <2>2, CopyIs, SoundKept DEF StoredInv, CopiesHeld
<1>2. ASSUME NEW v, Copy(v)', v.up \in Sound'  PROVE Holds(v)'
  <2>1. Source(v) /\ v.up \notin suspect'
    BY <1>2, CopiesStep DEF Sound
  <2>2. CASE Copy(v)
    BY <1>1, <1>2, <2>2, HoldsStay
  <2>3. CASE \E w : /\ Copy(w) /\ v.up = w.up /\ (Holds(w) => Holds(v)' \/ v.up \in suspect')
    BY <1>1, <1>2, <2>1, <2>3
  <2>4. ASSUME NEW t \in Threads, PushVersion(t), v = Pushed(t)  PROVE Holds(v)'
    <3>1. /\ v \in Version /\ v.up = thread[t].version.up /\ v.at = thread[t].version.at
          /\ Unposted(t)
      BY <2>4, PushVersionOn DEF Unposted
    <3>2. Holds(v)
      BY <3>1 DEF StoredInv, UnpostedHeld, Holds
    <3> QED  BY <3>1, <3>2, HoldsStay, UnpostedKept
  <2> QED  BY <2>1, <2>2, <2>3, <2>4 DEF Source
<1> QED
    BY <1>2 DEF CopiesHeld

\* A version that is not posted before a step nor after it.
LEMMA UnpostedHeldStep ==
    ASSUME TypesInv, StoreInv, SpaceInv, IdsInv, StoredInv, [Next]_vars
    PROVE  UnpostedHeld'
<1>1. ASSUME NEW t \in Threads, Unposted(t)'
      PROVE  /\ thread'[t] \in Upload
             /\ \/ Begins(t, thread'[t])
                \/ Unposted(t) /\ thread'[t].version = thread[t].version
  <2>1. thread'[t] \in State
    BY TypesStep DEF TypesInv
  <2>2. thread'[t] \in Upload
    BY <1>1, <2>1, States DEF Unposted
  <2>3. CASE thread'[t] = thread[t]
    BY <1>1, <2>2, <2>3 DEF Unposted
  <2>4. ASSUME NEW s \in State, Begins(t, s) \/ Draws(t, s) \/ Posts(t, s)
                   \/ ((s \in Upload => Keeps(t, s)) /\ (Removing(t, s) \/ Elsewhere(s))),
               s = thread'[t]
        PROVE  Begins(t, thread'[t]) \/ (Unposted(t) /\ thread'[t].version = thread[t].version)
    BY <1>1, <2>4 DEF Unposted, Draws, Posts, Removing, Asks, Unlists, Elsewhere, Keeps
  <2> QED  BY <2>2, <2>3, <2>4, RequestStep DEF Turns
<1>2. ASSUME NEW t \in Threads, Unposted(t)', NEW v, v = thread'[t].version
      PROVE  Holds(v)'
  <2>1. v \in Version
    BY <1>1, <1>2 DEF Upload
  <2>2. CASE Begins(t, thread'[t])
    <3>1. ASSUME NEW i \in Blocks  PROVE <<v.up, i>> \in has'[v.at[i]]
      <4>1. PICK p \in Providers : p = v.at[i]
        BY <2>1 DEF Version
      <4>2. <<v.up, i>> \in BlocksAt(v, p)
        BY <4>1 DEF BlocksAt
      <4> QED  BY <1>2, <2>2, <4>1, <4>2 DEF Begins
    <3> QED  BY <3>1 DEF Holds
  <2>3. CASE Unposted(t) /\ v = thread[t].version
    BY <2>1, <2>3, HoldsStay, UnpostedKept DEF StoredInv, UnpostedHeld
  <2> QED  BY <1>1, <1>2, <2>2, <2>3
<1>3. ASSUME NEW t \in Threads, Unposted(t)'  PROVE Holds(thread[t].version)'
  <2>1. PICK v : v = thread'[t].version
    OBVIOUS
  <2>2. Holds(v)'
    BY <1>2, <1>3, <2>1
  <2> QED  BY <2>1, <2>2 DEF Holds
<1> QED
    BY <1>3 DEF UnpostedHeld

\* The file's document stays gone.
LEMMA GoneStays ==
    ASSUME TypesInv, [Next]_vars, doc = Gone
    PROVE  doc' = Gone
<1>1. ASSUME NEW t \in Threads, PushVersion(t)  PROVE doc' = Gone
    BY <1>1, PushVersionOn
<1>2. ASSUME NEW t \in Threads, DeletePrevious(t)  PROVE doc' = Gone
    BY <1>2, DeletePreviousOn DEF Deletes
<1>3. ASSUME NEW t \in Threads, DeleteVersion(t)  PROVE doc' = Gone
    BY <1>3, DeleteVersionOn DEF Deletes
<1>4. ASSUME NEW t \in Threads, DeleteFile(t) \/ UpdateFile(t)  PROVE doc' = Gone
    BY <1>4, DeleteFileOn, UpdateFileOn DEF Replaced
<1>5. CASE RestoredPut \/ AuditVersion
    BY <1>5, RestoredPutOn, AuditVersionOn DEF Audited
<1> QED
    BY <1>1, <1>2, <1>3, <1>4, <1>5, WhoWrites

\* What a request is about to remove.
LEMMA RemovedUnlistedStep ==
    ASSUME TypesInv, StoreInv, SpaceInv, IdsInv, StoredInv, [Next]_vars
    PROVE  RemovedUnlisted'
<1>1. ASSUME NEW t \in Threads, thread'[t].pc = "removeFile"  PROVE doc' = Gone
  <2>1. CASE thread'[t] = thread[t]
    BY <1>1, <2>1, GoneStays DEF StoredInv, RemovedUnlisted
  <2>2. ASSUME NEW s \in State, Begins(t, s) \/ Draws(t, s) \/ Posts(t, s)
                   \/ ((s \in Upload => Keeps(t, s)) /\ (Removing(t, s) \/ Elsewhere(s))),
               s = thread'[t]
        PROVE  doc' = Gone
    BY <1>1, <2>2 DEF Begins, Draws, Posts, Removing, Asks, Unlists, Elsewhere
  <2> QED  BY <2>1, <2>2, RequestStep DEF Turns
<1>2. ASSUME NEW t \in Threads, thread'[t].pc \in {"removePrevious", "removeVersion"},
             doc' # Gone, NEW v \in Range(doc'), v.num = thread'[t].num, v.up \notin suspect'
      PROVE  FALSE
  <2>1. doc # Gone /\ v.up \notin suspect
    BY <1>2, GoneStays, NotesStay
  <2>2. CASE thread'[t] = thread[t]
    <3>1. Copy(v)' /\ v.up \in Sound'
      <4>1. Copy(v)'
        BY <1>2 DEF Copy
      <4>2. v.up \in Sound'
        BY <1>2, UpsOf DEF Sound, Listed, Ups, Range
      <4> QED  BY <4>1, <4>2
    <3>2. Like(v)
      BY <1>2, <2>2, <3>1, CopyNext, NamedApart DEF MadeUp
    <3>3. PICK w : Copy(w) /\ w.num = v.num /\ w.up = v.up
      BY <3>2 DEF Like
    <3>4. \A u \in Threads : PushVersion(u) => v.up # thread[u].version.up
      BY <3>3 DEF PushVersion, IdsInv, PostedOnce, Unposted
    <3>5. v.up \in Sound
      BY <3>1, <3>4, ListedStep
    <3>6. PICK x \in Range(doc) : x.up = v.up
      BY <3>5, UpsOf DEF Sound, Listed
    <3>7. x.num = v.num
      BY <2>1, <3>3, <3>6 DEF Copy, IdsInv, OneNumber
    <3> QED  BY <1>2, <2>1, <2>2, <3>6, <3>7 DEF StoredInv, RemovedUnlisted
  <2>3. ASSUME Deletes(thread'[t].num)  PROVE FALSE
    <3>1. doc \in Seq(Version) /\ doc' = PullVersions(v.num)
      BY <1>2, <2>3 DEF Deletes, TypesInv
    <3> QED  BY <1>2, <3>1, PulledIs
  <2>4. ASSUME NEW s \in State, Begins(t, s) \/ Draws(t, s) \/ Posts(t, s)
                   \/ ((s \in Upload => Keeps(t, s)) /\ (Removing(t, s) \/ Elsewhere(s))),
               s = thread'[t]
        PROVE  Deletes(s.num)
    BY <1>2, <2>4 DEF Begins, Draws, Posts, Removing, Asks, Unlists, Elsewhere
  <2> QED  BY <2>2, <2>3, <2>4, RequestStep DEF Turns
<1> QED
    BY <1>1, <1>2 DEF RemovedUnlisted

\* What is listed is stored still.
LEMMA StoredStep ==
    ASSUME TypesInv, StoreInv, SpaceInv, IdsInv, StoredInv, [Next]_vars
    PROVE  StoredInv'
BY CopiesHeldStep, UnpostedHeldStep, RemovedUnlistedStep DEF StoredInv

\* At first everybody has the first version, and its blocks are stored.
LEMMA FirstCopy ==
    ASSUME Init
    PROVE  /\ \A v : Copy(v) => v.num = 0 /\ v.up = 0 /\ v.at = FirstAt
           /\ \A t \in Threads : thread[t].pc = "idle"
           /\ restorer.pc = "idle" /\ counter = 0 /\ spent.uploads = 0
<1>1. PICK first : /\ first = [num |-> 0, up |-> 0, at |-> FirstAt]
                   /\ doc = <<first>> /\ arrays = <<<<first>>>> /\ disk.versions = <<first>>
                   /\ auditor = <<>>
    BY DEF Init
<1>2. /\ \A t \in Threads : thread[t].pc = "idle"
      /\ restorer.pc = "idle" /\ counter = 0 /\ spent.uploads = 0
    BY DEF Init
<1>3. Range(<<first>>) = {first} /\ Range(<<>>) = {}
    BY DEF Range
<1>4. \A a \in DOMAIN arrays : Range(arrays[a]) = {first}
    BY <1>1, <1>3
<1>5. ASSUME NEW v, Copy(v)  PROVE v = first
    BY <1>1, <1>2, <1>3, <1>4, <1>5 DEF Copy
<1> QED
    BY <1>1, <1>2, <1>5

\* IDs, numbers and blocks at first.
LEMMA IdsInit ==
    ASSUME Init
    PROVE  IdsInv /\ StoredInv
<1>1. \A t \in Threads : thread[t] \notin Upload
    BY FirstCopy DEF Upload
<1>2. IdsInv
    BY <1>1, FirstCopy DEF IdsInv, CopiesDrawn, OneNumber, UploadsApart, PostedOnce, NumbersDrawn,
       NumbersNamed, Unposted
<1>3. ASSUME NEW v, Copy(v)  PROVE Holds(v)
  <2>1. ASSUME NEW i \in Blocks  PROVE <<0, i>> \in has[FirstAt[i]]
    <3>1. PICK p \in Providers : p = FirstAt[i]
      BY FileAssumption DEF Blocks
    <3>2. has[p] = FirstBlocks(p)
      BY DEF Init
    <3> QED  BY <3>1, <3>2 DEF FirstBlocks
  <2> QED  BY <1>3, <2>1, FirstCopy DEF Holds
<1> QED
    BY <1>2, <1>3, FirstCopy DEF StoredInv, CopiesHeld, UnpostedHeld, RemovedUnlisted, Unposted

\* The invariant that says who has which version, and that it is stored.
LEMMA Stored == Spec => [](TypesInv /\ IdsInv /\ StoredInv)
<1>1. Init => IdsInv /\ StoredInv
    BY IdsInit
<1>2. TypesInv /\ StoreInv /\ SpaceInv /\ IdsInv /\ StoredInv /\ [Next]_vars
        => (IdsInv /\ StoredInv)'
    BY IdsStep, StoredStep
<1> QED
    BY <1>1, <1>2, TypesAndSpace, PTL DEF Spec

\* ListedIsStored: whatever order the requests, the restorer and the auditor
\* write in, a version that the metaserver lists has its blocks where it says,
\* but for the mishaps noted.
THEOREM ListedStored == Spec => []ListedIsStored
<1>1. StoredInv => ListedIsStored
  <2> SUFFICES ASSUME StoredInv, doc # Gone, NEW v \in Range(doc), NEW i \in Blocks,
                      v.up \notin suspect
               PROVE  <<v.up, i>> \in has[v.at[i]]
    BY DEF ListedIsStored
  <2>1. Copy(v) /\ v.up \in Sound
    BY UpsOf DEF Copy, Sound, Listed
  <2> QED  BY <2>1 DEF StoredInv, CopiesHeld, Holds
<1> QED
    BY <1>1, Stored, PTL

-----------------------------------------------------------------------------
(* The numbers of the versions, as long as no object has a wrong one.      *)

\* A list has no number twice.
Apart(s) == \A i, j \in DOMAIN s : s[i].num = s[j].num => i = j

\* Neither has an object.
Unique(e) ==
    \A i, j \in 1..list[e].len :
        arrays[list[e].arr][i].num = arrays[list[e].arr][j].num => i = j

\* The restorer replaces a version by one with its number.
RoundNumber == restorer.pc = "round" => restorer.new.num = restorer.num

\* A number is one upload's.
OneUpload == \A v, w : Copy(v) /\ Copy(w) /\ v.num = w.num => v.up = w.up

ListsApart ==
    /\ doc # Gone => Apart(doc)
    /\ \A e \in DOMAIN list : Unique(e)
    /\ Apart(disk.versions)
    /\ \A t \in Threads : thread[t].pc \in {"put", "pull"} => Apart(thread[t].body)
    /\ restorer.pc = "put" => Apart(restorer.body)

\* What has a number that a removal is about to delete was asked to be removed.
NamedAsked ==
    \A t \in Threads : thread[t].pc = "deleteVersion" =>
        \A v : Copy(v) /\ v.num = thread[t].num => v.up \in asked

AckedKept == doc # Gone => acked \subseteq Ups(doc) \cup asked \cup dropped \cup overtaken

NumbersInv ==
    /\ RoundNumber
    /\ ~misnumbered => OneUpload /\ ListsApart /\ NamedAsked /\ AckedKept

\* The restorer's version keeps its number.
LEMMA RoundNumberStep ==
    ASSUME TypesInv, RoundNumber, [Next]_vars
    PROVE  RoundNumber'
<1>1. CASE restorer' = restorer
    BY <1>1 DEF RoundNumber
<1>2. CASE restorer'.pc # "round"
    BY <1>2 DEF RoundNumber
<1>3. restorer' = [pc |-> "idle"] => restorer'.pc # "round"
    OBVIOUS
<1>4. CASE PickBatch
    BY <1>2, <1>3, <1>4, PickBatchOn DEF RoundNumber
<1>5. CASE StoreRound
  <2>1. PICK at, result : Rounds(at, result)
    BY <1>5, RoundOn
  <2>2. restorer'.num = restorer.num /\ restorer'.new = Relocate(at, result, restorer.new)
    BY <1>5, <2>1, RoundStarts, StoreRoundObjects DEF Moves
  <2>3. restorer'.new.num = restorer.new.num
    BY <1>5, <2>1, <2>2, RoundStarts, RelocateIs
  <2> QED  BY <1>5, <2>2, <2>3, RoundStarts DEF RoundNumber
<1>6. CASE UpdateFileVersion
  <2>1. restorer' \in Writing => restorer'.pc # "round"
    BY DEF Writing
  <2> QED  BY <1>2, <1>3, <1>6, <2>1, UpdateFileVersionObjects DEF Replaces
<1>7. CASE RestoredPut \/ Crash
    BY <1>2, <1>3, <1>7, RestoredPutOn, RestartOn DEF Crash
<1> QED
    BY <1>1, <1>4, <1>5, <1>6, <1>7, WhoRestores

\* A number that is pushed is one that nobody has.
LEMMA OneUploadStep ==
    ASSUME TypesInv, StoreInv, SpaceInv, IdsInv, OneUpload, [Next]_vars, ~misnumbered'
    PROVE  OneUpload'
<1>1. ASSUME NEW v, NEW w, Copy(v)', Copy(w)', v.num = w.num  PROVE v.up = w.up
  <2>1. (Like(v) \/ New(v)) /\ (Like(w) \/ New(w))
    BY <1>1, CopyNext DEF MadeUp
  <2>2. CASE Like(v) /\ Like(w)
    BY <1>1, <2>2 DEF Like, OneUpload
  <2>3. ASSUME NEW x, NEW y, Like(x), New(y)  PROVE x.num # y.num
    BY <2>3 DEF Like, New, IdsInv, NumbersDrawn
  <2>4. CASE New(v) /\ New(w)
    BY <1>1, <2>4 DEF New, IdsInv, NumbersDrawn
  <2> QED  BY <1>1, <2>1, <2>2, <2>3, <2>4
<1> QED
    BY <1>1 DEF OneUpload

\* Some of the versions of a list.
LEMMA ApartThose ==
    ASSUME NEW s \in Seq(Version), Apart(s), NEW S
    PROVE  Apart(Those(s, S))
<1>1. PICK r \in Seq(Version) : r = Those(s, S) /\ ToSet(r) \subseteq ToSet(s) /\ IsInjective(r)
  <2>1. IsInjective(s)
    BY DEF Apart, IsInjective
  <2>2. /\ Those(s, S) \in Seq(Version) /\ ToSet(Those(s, S)) = ToSet(s) \cap S
        /\ IsInjective(Those(s, S))
    BY <2>1, ThoseOf
  <2> QED  BY <2>2
<1>2. ASSUME NEW i \in DOMAIN r, NEW j \in DOMAIN r, r[i].num = r[j].num  PROVE i = j
  <2>0. r[i] \in ToSet(s) /\ r[j] \in ToSet(s)
    <3>1. r[i] \in ToSet(r) /\ r[j] \in ToSet(r)
      BY DEF ToSet
    <3> QED  BY <1>1, <3>1
  <2>1. PICK x \in DOMAIN s, y \in DOMAIN s : s[x] = r[i] /\ s[y] = r[j]
    BY <2>0 DEF ToSet
  <2>2. r[i] = r[j]
    BY <1>2, <2>1 DEF Apart
  <2> QED  BY <1>1, <2>2 DEF IsInjective
<1> QED
    BY <1>1, <1>2 DEF Apart

\* A version takes the place of one with its number.
LEMMA ApartReplaced ==
    ASSUME NEW s \in Seq(Version), Apart(s), NEW i \in DOMAIN s, NEW v, s[i].num = v.num
    PROVE  Apart([s EXCEPT ![i] = v])
BY DEF Apart

\* A version is appended whose number nobody has.
LEMMA ApartAppended ==
    ASSUME NEW s \in Seq(Version), Apart(s), NEW v \in Version,
           \A w \in Range(s) : w.num # v.num
    PROVE  Apart(Append(s, v))
<1>1. PICK n \in Nat : n = Len(s) /\ DOMAIN s = 1..n
    OBVIOUS
<1>2. DOMAIN Append(s, v) = 1..(n + 1)
    BY <1>1
<1>3. Append(s, v)[n + 1] = v /\ \A i \in 1..n : Append(s, v)[i] = s[i]
    BY <1>1
<1>4. \A i \in 1..n : s[i].num # v.num
    BY <1>1 DEF Range
<1> QED
    BY <1>1, <1>2, <1>3, <1>4 DEF Apart

\* The metaserver's list.
LEMMA DocumentApart ==
    ASSUME TypesInv, IdsInv, ListsApart, [Next]_vars, doc' # Gone
    PROVE  Apart(doc')
<1>1. doc # Gone => doc \in Seq(Version) /\ Apart(doc)
    BY DEF TypesInv, ListsApart
<1>2. ASSUME doc' = doc  PROVE Apart(doc')
    BY <1>1, <1>2
<1>3. ASSUME NEW t \in Threads, PushVersion(t)  PROVE Apart(doc')
  <2>1. /\ doc # Gone /\ doc' = Append(doc, Pushed(t)) /\ Pushed(t) \in Version
        /\ Pushed(t).num = thread[t].num /\ thread[t].pc = "push"
    BY <1>3, PushVersionOn
  <2>2. \A w \in Range(doc) : w.num # thread[t].num
    BY <2>1 DEF Copy, IdsInv, NumbersDrawn
  <2> QED  BY <1>1, <2>1, <2>2, ApartAppended
<1>4. ASSUME NEW num, Deletes(num)  PROVE Apart(doc')
    BY <1>1, <1>4, ApartThose DEF Deletes, PullVersions
<1>5. ASSUME NEW t \in Threads, DeletePrevious(t)  PROVE Apart(doc')
    BY <1>2, <1>4, <1>5, DeletePreviousOn
<1>6. ASSUME NEW t \in Threads, DeleteVersion(t)  PROVE Apart(doc')
    BY <1>2, <1>4, <1>6, DeleteVersionOn
<1>7. ASSUME NEW t \in Threads, DeleteFile(t)  PROVE Apart(doc')
    BY <1>2, <1>7, DeleteFileOn
<1>8. ASSUME NEW t \in Threads, UpdateFile(t)  PROVE Apart(doc')
    BY <1>2, <1>8, UpdateFileOn DEF Replaced, ListsApart
<1>9. CASE RestoredPut
    BY <1>2, <1>9, RestoredPutOn DEF ListsApart, Writing
<1>10. CASE AuditVersion
  <2>1. CASE Audited(Head(auditor))
    <3>1. PICK h : h = Head(auditor)
      OBVIOUS
    <3>2. PICK i \in DOMAIN doc : doc[i].num = h.num /\ doc' = [doc EXCEPT ![i] = h]
      BY <2>1, <3>1 DEF Audited
    <3>3. doc \in Seq(Version) /\ Apart(doc)
      BY <1>1, <2>1 DEF Audited
    <3>4. Apart([doc EXCEPT ![i] = h])
      BY <3>2, <3>3, ApartReplaced
    <3> QED  BY <3>2, <3>4
  <2> QED  BY <1>2, <1>10, <2>1, AuditVersionOn
<1> QED
    BY <1>2, <1>3, <1>5, <1>6, <1>7, <1>8, <1>9, <1>10, WhoWrites

\* An object and its versions.
LEMMA UniqueIs ==
    ASSUME TypesInv, NEW e \in DOMAIN list, Unique(e)
    PROVE  Apart(Slice(list[e]))
<1>1. PICK n \in Nat, s \in Seq(Version) :
        /\ n = list[e].len /\ s = Slice(list[e]) /\ Len(s) = n
        /\ \A i \in 1..n : s[i] = arrays[list[e].arr][i]
  <2>1. list[e] \in Object
    BY SliceOf DEF TypesInv
  <2>2. list[e].len \in Nat
    BY <2>1 DEF Object
  <2> QED  BY <2>2, SliceOf DEF TypesInv
<1>2. DOMAIN s = 1..n
    BY <1>1
<1> QED
    BY <1>1, <1>2 DEF Apart, Unique

\* Every slot has a version with the number it had.
NumsStay ==
    \A a \in DOMAIN arrays, k \in Nat :
        k \in DOMAIN arrays[a] => arrays'[a][k].num = arrays[a][k].num

\* An object that gets no longer, in an array that keeps its numbers.
LEMMA UniqueStays ==
    ASSUME TypesInv, NEW e \in DOMAIN list, Unique(e), NumsStay, Objects', e \in DOMAIN list',
           list'[e].arr = list[e].arr, list'[e].len <= list[e].len
    PROVE  Unique(e)'
<1>1. PICK a \in DOMAIN arrays, n \in Nat :
        a = list[e].arr /\ n = list[e].len /\ \A k \in 1..n : k \in DOMAIN arrays[a]
  <2>1. /\ list[e] \in Object /\ list[e].arr \in DOMAIN arrays
        /\ arrays[list[e].arr] \in Seq(Version)
        /\ list[e].len <= Len(arrays[list[e].arr])
    BY SliceOf DEF TypesInv
  <2>2. list[e].len \in Nat
    BY <2>1 DEF Object
  <2> QED  BY <2>1, <2>2
<1>2. PICK m \in Nat : m = list'[e].len /\ m <= n
    BY <1>1, SliceNext
<1>3. ASSUME NEW i \in 1..m, NEW j \in 1..m, arrays'[a][i].num = arrays'[a][j].num
      PROVE  i = j
  <2>1. i \in 1..n /\ j \in 1..n
    BY <1>2
  <2>2. arrays[a][i].num = arrays[a][j].num
    BY <1>1, <1>3, <2>1 DEF NumsStay
  <2> QED  BY <1>1, <2>1, <2>2 DEF Unique
<1> QED
    BY <1>1, <1>2, <1>3 DEF Unique

\* An object of a list without a number twice.
LEMMA UniqueFrom ==
    ASSUME NEW e, NEW s \in Seq(Version), Apart(s),
           arrays'[list'[e].arr] = s, list'[e].len = Len(s)
    PROVE  Unique(e)'
BY DEF Unique, Apart

\* A version takes the place of one with its number.
LEMMA WritesNums ==
    ASSUME NEW a, NEW i, NEW v, Writes(a, i, v), arrays[a][i].num = v.num
    PROVE  NumsStay
BY DEF Writes, NumsStay

\* The versions behind one that is removed move up.
LEMMA UniqueMovesUp ==
    ASSUME TypesInv, NEW e \in DOMAIN list, Unique(e), NEW i,
           MovesUp(list[e].arr, i, list[e].len),
           list' = [list EXCEPT ![e].len = @ - 1], NEW f \in DOMAIN list, Unique(f), Objects'
    PROVE  Unique(f)'
<1>1. PICK a \in DOMAIN arrays, n \in Nat :
        /\ a = list[e].arr /\ n = list[e].len
        /\ \A k \in 1..n : k \in DOMAIN arrays[a]
  <2>1. /\ list[e] \in Object /\ list[e].arr \in DOMAIN arrays
        /\ arrays[list[e].arr] \in Seq(Version)
        /\ list[e].len <= Len(arrays[list[e].arr])
    BY SliceOf DEF TypesInv
  <2>2. list[e].len \in Nat
    BY <2>1 DEF Object
  <2> QED  BY <2>1, <2>2
<1>2. list \in Seq(Object) /\ Objects
    BY DEF TypesInv, Objects
<1>3. /\ \A k \in DOMAIN arrays[a] :
            /\ k \in i..(n - 1) => arrays'[a][k] = arrays[a][k + 1]
            /\ k \notin i..(n - 1) => arrays'[a][k] = arrays[a][k]
      /\ \A b \in DOMAIN arrays \ {a} : arrays'[b] = arrays[b]
    BY <1>1, <1>2, MovesUpOn
<1>4. i \in Nat \ {0} /\ i <= n
    BY <1>1 DEF MovesUp
<1>5. CASE f = e
  <2>1. PICK o \in Object : o = list[e] /\ o.len = n /\ o.arr = a
    BY <1>1, <1>2
  <2>2. list'[e] = [o EXCEPT !.len = n - 1]
    BY <1>2, <2>1
  <2>3. list'[e].len = n - 1 /\ list'[e].arr = a
    BY <2>1, <2>2 DEF Object
  <2>4. ASSUME NEW j \in 1..(n - 1), NEW k \in 1..(n - 1), arrays'[a][j].num = arrays'[a][k].num
        PROVE  j = k
    <3>1. \A x \in 1..(n - 1) : x \in DOMAIN arrays[a] /\ x \in 1..n /\ x + 1 \in 1..n
      BY <1>1
    <3>2. PICK x \in 1..n : /\ x = IF j \in i..(n - 1) THEN j + 1 ELSE j
                            /\ arrays'[a][j] = arrays[a][x]
      BY <1>3, <3>1
    <3>3. PICK y \in 1..n : /\ y = IF k \in i..(n - 1) THEN k + 1 ELSE k
                            /\ arrays'[a][k] = arrays[a][y]
      BY <1>3, <3>1
    <3>4. x = y
      BY <1>1, <2>4, <3>2, <3>3 DEF Unique
    <3> QED  BY <1>4, <3>2, <3>3, <3>4
  <2> QED  BY <1>5, <2>3, <2>4 DEF Unique
<1>6. CASE f # e
  <2>1. list'[f] = list[f] /\ list[f].arr # a /\ list[f].arr \in DOMAIN arrays
    BY <1>1, <1>2, <1>6 DEF Objects
  <2>2. PICK o \in Object, m \in Nat, b \in Nat :
          /\ o = list[f] /\ m = o.len /\ b = o.arr /\ list'[f] = o /\ arrays'[b] = arrays[b]
    <3>1. list[f] \in Object /\ list[f].len \in Nat /\ list[f].arr \in Nat
      BY <1>2, SliceOf DEF Object
    <3> QED  BY <1>3, <2>1, <3>1
  <2>3. \A j, k \in 1..m : arrays[b][j].num = arrays[b][k].num => j = k
    BY <2>2 DEF Unique
  <2>4. list'[f].len = m /\ list'[f].arr = b
    BY <2>2
  <2>5. \A j, k \in 1..m : arrays'[b][j].num = arrays'[b][k].num => j = k
    <3>1. PICK r : r = arrays'[b]
      OBVIOUS
    <3>2. r = arrays[b]
      BY <2>2, <3>1
    <3> QED  BY <2>3, <3>1, <3>2
  <2> QED  BY <2>4, <2>5 DEF Unique
<1> QED
    BY <1>5, <1>6

\* A list appended to the arrays leaves the others.
LEMMA AppendedNums ==
    ASSUME TypesInv, NEW s, arrays' = Append(arrays, s)
    PROVE  NumsStay /\ Len(arrays) + 1 \notin DOMAIN arrays
           /\ arrays'[Len(arrays) + 1] = s
<1>1. arrays \in Seq(Seq(Version))
    BY DEF TypesInv, Objects
<1>2. /\ \A a \in DOMAIN arrays : arrays'[a] = arrays[a]
      /\ Len(arrays) + 1 \notin DOMAIN arrays
      /\ arrays'[Len(arrays) + 1] = s
    BY <1>1
<1> QED
    BY <1>2 DEF NumsStay

\* The renter's objects.
LEMMA ObjectsUnique ==
    ASSUME TypesInv, StoreInv, SpaceInv, RoundNumber, ListsApart, [Next]_vars, ~misnumbered'
    PROVE  \A e \in DOMAIN list' : Unique(e)'
<1>1. Objects' /\ Objects /\ \A e \in DOMAIN list : Unique(e) /\ list[e].len \in Nat
  <2>1. Objects' /\ Objects
    BY TypesStep DEF TypesInv
  <2> QED  BY <2>1, LengthsAre DEF ListsApart
<1>2. ASSUME NumsStay, DOMAIN list' = DOMAIN list,
             \A e \in DOMAIN list :
                list'[e].arr = list[e].arr /\ list'[e].len <= list[e].len
      PROVE  \A e \in DOMAIN list' : Unique(e)'
    BY <1>1, <1>2, UniqueStays
<1>3. ASSUME NumsStay, list' = list
      PROVE  \A e \in DOMAIN list' : Unique(e)'
    BY <1>1, <1>2, <1>3
<1>4. arrays' = arrays => NumsStay
    BY DEF NumsStay
<1>5. CASE UNCHANGED renterVars
    BY <1>3, <1>4, <1>5 DEF renterVars
<1>6. ASSUME NEW t \in Threads, RemovePrevious(t) \/ RemoveFileContents(t) \/ UpdateFile(t)
      PROVE  \A e \in DOMAIN list' : Unique(e)'
  <2>1. Shorter /\ arrays' = arrays
    BY <1>6, RemovePreviousObjects, RemoveFileObjects, UpdateFileObjects
  <2> QED  BY <1>2, <1>4, <2>1 DEF Shorter
<1>7. ASSUME NEW t \in Threads, Refresh(t)  PROVE \A e \in DOMAIN list' : Unique(e)'
  <2>1. Refreshed(thread[t].e)
    BY <1>7, RefreshObjects
  <2>2. PICK f : f = thread[t].e
    OBVIOUS
  <2>3. /\ doc # Gone /\ doc \in Seq(Version) /\ Apart(doc) /\ arrays' = Append(arrays, doc)
        /\ DOMAIN list' = DOMAIN list
        /\ list'[f].arr = Len(arrays) + 1 /\ list'[f].len = Len(doc)
        /\ \A e \in DOMAIN list \ {f} : list'[e] = list[e]
    BY <2>1, <2>2 DEF Refreshed, TypesInv, ListsApart
  <2>4. NumsStay /\ arrays'[Len(arrays) + 1] = doc
    BY <2>3, AppendedNums
  <2>5. Unique(f)'
    BY <2>3, <2>4, UniqueFrom
  <2>6. ASSUME NEW e \in DOMAIN list \ {f}  PROVE Unique(e)'
    BY <1>1, <2>3, <2>4, UniqueStays
  <2> QED  BY <2>3, <2>5, <2>6
<1>8. ASSUME NEW t \in Threads, RemoveVersion(t)  PROVE \A e \in DOMAIN list' : Unique(e)'
  <2>1. PICK f \in DOMAIN list : f = thread[t].e
    BY <1>8 DEF RemoveVersion, TypesInv, Working
  <2>2. CASE /\ MovesUp(list[f].arr, thread[t].slot[2], list[f].len)
             /\ list' = [list EXCEPT ![f].len = @ - 1]
    <3>1. DOMAIN list' = DOMAIN list
      BY <1>1, <2>2 DEF Objects
    <3> QED  BY <1>1, <2>2, <3>1, UniqueMovesUp
  <2> QED  BY <1>5, <1>8, <2>1, <2>2, RemoveVersionObjects
<1>9. ASSUME NEW t \in Threads, PullFiles(t)  PROVE \A e \in DOMAIN list' : Unique(e)'
  <2>1. PICK s \in Seq(Version), f \in Nat :
          /\ s = thread[t].body /\ Apart(s) /\ arrays' = Append(arrays, s)
          /\ f = Len(list) + 1 /\ DOMAIN list' = DOMAIN list \cup {f}
          /\ \A e \in DOMAIN list : list'[e] = list[e]
          /\ list'[f].arr = Len(arrays) + 1 /\ list'[f].len = Len(s)
    <3>1. thread[t].body \in Seq(Version) /\ Apart(thread[t].body)
      BY <1>9, PullFilesObjects DEF Pulling, PullFiles, ListsApart
    <3>2. Len(list) + 1 \in Nat
      BY <1>1 DEF Objects
    <3> QED  BY <1>9, <3>1, <3>2, PullFilesObjects
  <2>2. NumsStay /\ arrays'[Len(arrays) + 1] = s
    BY <2>1, AppendedNums
  <2>3. Unique(f)'
    BY <2>1, <2>2, UniqueFrom
  <2>4. ASSUME NEW e \in DOMAIN list  PROVE Unique(e)'
    BY <1>1, <2>1, <2>2, UniqueStays
  <2> QED  BY <2>1, <2>3, <2>4
<1>10. CASE StoreRound
  <2>1. PICK at, result : Rounds(at, result)
    BY <1>10, RoundOn
  <2>2. ASSUME NEW a \in DOMAIN arrays, NEW k \in Nat, k \in DOMAIN arrays[a]
        PROVE  arrays'[a][k].num = arrays[a][k].num
    <3>1. arrays'[a][k] \in {arrays[a][k], Relocate(at, result, arrays[a][k])}
      BY <1>10, <2>1, <2>2, RoundStarts, StoreRoundObjects DEF Moves
    <3>2. PICK v \in Version : v = arrays[a][k]
      BY <1>1, <2>2 DEF Objects
    <3> QED  BY <1>10, <2>1, <3>1, <3>2, RoundStarts, RelocateIs
  <2>3. list' = list
    BY <1>10, RoundStarts
  <2> QED  BY <1>3, <2>2, <2>3 DEF NumsStay
<1>11. CASE UpdateFileVersion
  <2>1. CASE Replaces
    <3>1. PICK s, num, i, v :
            /\ s \in Seq(Version)
            /\ s = Slice(Cached) /\ num \in Nums(s) /\ i = Slot(s, num) /\ num = restorer.num
            /\ i \in DOMAIN s /\ v = restorer.new /\ Writes(Cached.arr, i, v) /\ v.num = num
      <4>1. Slice(Cached) \in Seq(Version)
        BY <1>1, CacheIs, SliceOf
      <4>2. restorer.new.num = restorer.num
        BY <1>11 DEF RoundNumber, UpdateFileVersion
      <4> QED  BY <2>1, <4>1, <4>2 DEF Replaces
    <3>2. s[i].num = num
      BY <3>1, SlotOf
    <3>3. s[i] = arrays[Cached.arr][i]
      <4>1. Len(list) \in DOMAIN list /\ Cached = list[Len(list)]
        BY <1>1, CacheIs
      <4>2. Len(s) = Cached.len /\ \A j \in 1..Cached.len : s[j] = arrays[Cached.arr][j]
        BY <1>1, <3>1, <4>1, SliceOf
      <4> QED  BY <3>1, <4>2
    <3>4. NumsStay
      BY <3>1, <3>2, <3>3, WritesNums
    <3> QED  BY <1>3, <1>11, <3>4, UpdateFileVersionObjects
  <2> QED  BY <1>3, <1>4, <1>11, <2>1, UpdateFileVersionObjects
<1>12. CASE Restart
  <2>1. /\ arrays' = <<disk.versions>> /\ DOMAIN list' = {1} /\ disk.versions \in Seq(Version)
        /\ list'[1].arr = 1 /\ list'[1].len = Len(disk.versions)
    BY <1>12, RestartOn
  <2>2. arrays'[1] = disk.versions /\ Apart(disk.versions)
    BY <2>1 DEF ListsApart
  <2>3. Unique(1)'
    BY <2>1, <2>2, UniqueFrom
  <2> QED  BY <2>1, <2>3
<1>13. CASE RestoredPut
  <2>1. CASE GoesBack /\ list' = list
    <3>1. arrays[list[restorer.e].arr][restorer.slot].num = restorer.old.num
      BY <2>1, Zenon DEF GoesBack
    <3>2. NumsStay
      BY <2>1, <3>1, WritesNums DEF GoesBack
    <3> QED  BY <1>3, <2>1, <3>2
  <2> QED  BY <1>3, <1>4, <1>12, <1>13, <2>1, RestoredPutOn
<1> QED
    BY <1>5, <1>6, <1>7, <1>8, <1>9, <1>10, <1>11, <1>12, <1>13, WhoChangesObjects DEF Crash

\* A snapshot is of an object.
LEMMA SnapshotApart ==
    ASSUME TypesInv, StoreInv, SpaceInv, ListsApart, [Next]_vars,
           \A e \in DOMAIN list' : Unique(e)'
    PROVE  Apart(disk'.versions)
<1>1. CASE disk' = disk
    BY <1>1 DEF ListsApart
<1>2. CASE SaveSnapshot
  <2>1. Objects' /\ free' \in [Providers -> Nat]
    BY TypesStep, StoreStep DEF TypesInv, StoreInv
  <2>2. PICK e \in DOMAIN list' : disk'.versions = Slice(list[e])'
    BY <1>2, <2>1, SnapshotIs
  <2>3. PICK s, n, b : /\ s = Slice(list[e])' /\ n = list'[e].len /\ b = arrays'[list'[e].arr]
                       /\ n \in Nat /\ DOMAIN s = 1..n /\ \A i \in 1..n : s[i] = b[i]
    BY <2>1, SliceNext
  <2>4. \A i, j \in 1..n : b[i].num = b[j].num => i = j
    BY <2>3 DEF Unique
  <2> QED  BY <2>2, <2>3, <2>4 DEF Apart
<1> QED
    BY <1>1, <1>2, DiskOn

\* What a request sends or received.
LEMMA BodiesApart ==
    ASSUME TypesInv, ListsApart, [Next]_vars, NEW u \in Threads,
           thread'[u].pc \in {"put", "pull"}
    PROVE  Apart(thread'[u].body)
<1>1. CASE thread'[u] = thread[u]
    BY <1>1 DEF ListsApart
<1>2. ASSUME NEW e \in DOMAIN list, thread'[u].body = Slice(list[e])
      PROVE  Apart(thread'[u].body)
    BY <1>2, UniqueIs DEF ListsApart
<1>3. Apart(<<>>)
    BY DEF Apart
<1>4. doc # Gone => Apart(doc)
    BY DEF ListsApart
<1> QED
    BY <1>1, <1>2, <1>3, <1>4, BodyOn

\* What the restorer sends.
LEMMA RestorerApart ==
    ASSUME TypesInv, RoundNumber, ListsApart, [Next]_vars, restorer'.pc = "put"
    PROVE  Apart(restorer'.body)
<1>1. CASE restorer' = restorer
    BY <1>1 DEF ListsApart
<1>2. restorer' # [pc |-> "idle"] /\ restorer' \notin Storing
    BY DEF Storing
<1>3. ~PickBatch
    BY <1>2, PickBatchOn
<1>4. ~StoreRound
    BY <1>2, RoundOn, RoundStarts, StoreRoundObjects DEF Moves
<1>5. CASE UpdateFileVersion
  <2>1. PICK s, num, i, v : s = Slice(Cached) /\ num = restorer.num /\ i = Slot(s, num)
                              /\ v = restorer.new
    OBVIOUS
  <2>2. /\ num \in Nums(s) /\ i \in DOMAIN s /\ restorer'.body = [s EXCEPT ![i] = v]
    <3>1. Replaces
      BY <1>2, <1>5, UpdateFileVersionObjects
    <3> QED  BY <2>1, <3>1 DEF Replaces
  <2>3. s \in Seq(Version) /\ Apart(s)
    BY <2>1, CacheIs, SliceOf, UniqueIs DEF TypesInv, ListsApart
  <2>4. v.num = num
    BY <1>5, <2>1 DEF RoundNumber, UpdateFileVersion
  <2>5. s[i].num = v.num
    BY <2>1, <2>2, <2>3, <2>4, SlotOf
  <2> QED  BY <2>2, <2>3, <2>5, ApartReplaced
<1>6. CASE RestoredPut \/ Crash
    BY <1>2, <1>6, RestoredPutOn, RestartOn DEF Crash
<1> QED
    BY <1>1, <1>3, <1>4, <1>5, <1>6, WhoRestores

\* No list gets a number twice, as long as no object has a wrong one.
LEMMA ListsApartStep ==
    ASSUME TypesInv, StoreInv, SpaceInv, IdsInv, RoundNumber, ListsApart, [Next]_vars,
           ~misnumbered'
    PROVE  ListsApart'
<1>1. doc' # Gone => Apart(doc')
    BY DocumentApart
<1>2. \A e \in DOMAIN list' : Unique(e)'
    BY ObjectsUnique
<1>3. Apart(disk'.versions)
    BY <1>2, SnapshotApart
<1>4. \A u \in Threads : thread'[u].pc \in {"put", "pull"} => Apart(thread'[u].body)
    BY BodiesApart
<1>5. restorer'.pc = "put" => Apart(restorer'.body)
    BY RestorerApart
<1>6. /\ doc' # Gone => Apart(doc)'
      /\ Apart(disk.versions)'
      /\ \A t \in Threads : thread'[t].pc \in {"put", "pull"} => Apart(thread[t].body)'
      /\ restorer'.pc = "put" => Apart(restorer.body)'
    BY <1>1, <1>3, <1>4, <1>5 DEF Apart
<1> QED
    BY <1>2, <1>6 DEF ListsApart

-----------------------------------------------------------------------------
(* An acknowledged version stays listed.                                   *)

\* What is noted of removals stays noted; only a push is acknowledged.
LEMMA HistoryGrows ==
    ASSUME TypesInv, [Next]_vars
    PROVE  /\ asked \subseteq asked' /\ dropped \subseteq dropped'
           /\ overtaken \subseteq overtaken'
           /\ acked' = acked \/ \E t \in Threads : PushVersion(t)
<1>1. CASE UNCHANGED history
    BY <1>1 DEF history
<1>2. ASSUME NEW t \in Threads, PushVersion(t)
      PROVE  UNCHANGED <<asked, dropped, overtaken>>
    BY <1>2 DEF PushVersion
<1>3. ASSUME NEW t \in Threads, StartUpload(t) \/ StartRemoveVersion(t)
      PROVE  asked \subseteq asked' /\ UNCHANGED <<dropped, overtaken, acked>>
  <2>1. UNCHANGED <<dropped, overtaken, acked>>
    BY <1>3 DEF StartUpload, StartRemoveVersion
  <2> QED  BY <1>3, <2>1, StartUploadAsks, StartRemoveVersionOn
<1>4. ASSUME NEW t \in Threads, DeletePrevious(t)
      PROVE  overtaken \subseteq overtaken' /\ UNCHANGED <<asked, dropped, acked>>
    BY <1>4, DeletePreviousOn DEF DeletePrevious
<1>5. ASSUME NEW t \in Threads, RemovePrevious(t) \/ Refresh(t) \/ RemoveVersion(t)
      PROVE  UNCHANGED <<asked, dropped, overtaken, acked>>
    BY <1>5 DEF RemovePrevious, Refresh, RemoveVersion
<1>6. ASSUME NEW t \in Threads, UpdateFile(t)
      PROVE  dropped \subseteq dropped' /\ UNCHANGED <<asked, overtaken, acked>>
  <2>1. UNCHANGED <<asked, overtaken, acked>>
    BY <1>6 DEF UpdateFile
  <2> QED  BY <1>6, <2>1, UpdateFileOn DEF Replaced
<1>7. CASE StoreRound \/ AuditVersion
    BY <1>7 DEF StoreRound, AuditVersion
<1>8. CASE RestoredPut
  <2>1. UNCHANGED <<asked, overtaken, acked>>
    BY <1>8 DEF RestoredPut
  <2> QED  BY <1>8, <2>1, RestoredPutOn
<1> QED
    BY <1>1, <1>2, <1>3, <1>4, <1>5, <1>6, <1>7, <1>8, WhoNotes

\* A removal is asked for by the number of a version that somebody has, and a
\* number is one upload's.
LEMMA NamedAskedStep ==
    ASSUME TypesInv, StoreInv, SpaceInv, IdsInv, OneUpload, NamedAsked, [Next]_vars,
           ~misnumbered'
    PROVE  NamedAsked'
<1>1. ASSUME NEW t \in Threads, thread'[t].pc = "deleteVersion",
             NEW v, Copy(v)', v.num = thread'[t].num
      PROVE  v.up \in asked'
  <2>1. Like(v) \/ New(v)
    BY <1>1, CopyNext DEF MadeUp
  <2>2. CASE thread'[t] = thread[t]
    <3>1. Like(v)
      BY <1>1, <2>1, <2>2, NamedApart
    <3> QED  BY <1>1, <2>2, <3>1, HistoryGrows DEF Like, NamedAsked
  <2>3. ASSUME NEW slot, IsSlot(slot), v.num = At(slot).num, At(slot).up \in asked'
        PROVE  v.up \in asked'
    <3>1. PICK y : y = At(slot) /\ Copy(y)
      BY <2>3, InArrays
    <3>2. ~New(v)
      BY <2>3, <3>1 DEF New, IdsInv, NumbersDrawn
    <3> QED  BY <2>1, <2>3, <3>1, <3>2 DEF Like, OneUpload
  <2>4. ASSUME NEW s \in State, Begins(t, s) \/ Draws(t, s) \/ Posts(t, s)
                   \/ ((s \in Upload => Keeps(t, s)) /\ (Removing(t, s) \/ Elsewhere(s))),
               s = thread'[t]
        PROVE  IsSlot(s.slot) /\ s.num = At(s.slot).num /\ At(s.slot).up \in asked'
    BY <1>1, <2>4 DEF Begins, Draws, Posts, Removing, Asks, Unlists, Elsewhere
  <2> QED  BY <1>1, <2>2, <2>3, <2>4, RequestStep DEF Turns
<1> QED
    BY <1>1 DEF NamedAsked

\* A version that is listed stays so, or is noted as asked for, overtaken or
\* dropped.
LEMMA ListedKept ==
    ASSUME TypesInv, OneUpload, NamedAsked, [Next]_vars, doc' # Gone, doc # Gone,
           NEW w \in Range(doc)
    PROVE  \/ w.up \in asked' \/ w.up \in overtaken' \/ w.up \in dropped'
           \/ \E x \in Range(doc') : x.up = w.up
<1>0. doc \in Seq(Version) /\ Copy(w)
    BY DEF TypesInv, Copy
<1>1. CASE doc' = doc
    BY <1>1
<1>2. ASSUME NEW t \in Threads, PushVersion(t)  PROVE w \in Range(doc')
  <2>1. doc' = Append(doc, Pushed(t)) /\ Pushed(t) \in Version
    BY <1>2, PushVersionOn
  <2>2. PICK i \in DOMAIN doc : w = doc[i]
    BY DEF Range
  <2>3. i \in DOMAIN doc' /\ doc'[i] = w
    BY <1>0, <2>1, <2>2
  <2> QED  BY <2>3 DEF Range
<1>3. ASSUME NEW num, Deletes(num), w.num # num  PROVE w \in Range(doc')
    BY <1>0, <1>3, PulledIs DEF Deletes
<1>4. ASSUME NEW t \in Threads, DeletePrevious(t)
      PROVE  \/ w.up \in asked' \/ w.up \in overtaken'
             \/ w \in Range(doc')
  <2>1. asked' = asked
    BY <1>4 DEF DeletePrevious
  <2>2. ASSUME NEW slot, IsSlot(slot), Deletes(At(slot).num), At(slot).up \in asked \cup overtaken',
               w.num = At(slot).num
        PROVE  w.up \in asked' \/ w.up \in overtaken'
    <3>1. PICK y : y = At(slot) /\ Copy(y)
      BY <2>2, InArrays
    <3>2. w.up = y.up
      BY <1>0, <2>2, <3>1 DEF OneUpload
    <3> QED  BY <2>1, <2>2, <3>1, <3>2
  <2> QED  BY <1>1, <1>3, <1>4, <2>2, DeletePreviousOn
<1>10. ASSUME NEW t \in Threads, DeleteVersion(t)
       PROVE  w.up \in asked' \/ w \in Range(doc')
  <2>1. thread[t].pc = "deleteVersion" /\ (doc' = doc \/ Deletes(thread[t].num))
    BY <1>10, DeleteVersionOn
  <2>2. w.num = thread[t].num => w.up \in asked'
    BY <1>0, <2>1, HistoryGrows DEF NamedAsked
  <2> QED  BY <1>3, <2>1, <2>2
<1>5. ASSUME NEW t \in Threads, DeleteFile(t)  PROVE doc' = doc
    BY <1>5, DeleteFileOn
<1>6. ASSUME NEW body, doc' = body, dropped' = dropped \cup (Ups(doc) \ Ups(body))
      PROVE  w.up \in dropped' \/ \E x \in Range(doc') : x.up = w.up
  <2>1. w.up \in Ups(doc) /\ Ups(body) = {x.up : x \in Range(body)}
    BY UpsOf
  <2> QED  BY <1>6, <2>1
<1>7. ASSUME NEW t \in Threads, UpdateFile(t)
      PROVE  w.up \in dropped' \/ \E x \in Range(doc') : x.up = w.up
    BY <1>6, <1>7, UpdateFileOn DEF Replaced
<1>8. CASE RestoredPut
    BY <1>6, <1>8, RestoredPutOn
<1>9. CASE AuditVersion
  <2>1. PICK h : h = Head(auditor) /\ h \in Range(auditor)
    BY <1>9, AuditVersionOn
  <2>2. CASE Audited(h)
    <3>1. PICK i \in DOMAIN doc : doc[i].num = h.num /\ doc' = [doc EXCEPT ![i] = h]
      BY <2>2 DEF Audited
    <3>2. PICK k \in DOMAIN doc : w = doc[k]
      BY DEF Range
    <3>3. CASE k # i
      <4>1. k \in DOMAIN doc' /\ doc'[k] = w
        BY <3>1, <3>2, <3>3
      <4> QED  BY <4>1 DEF Range
    <3>4. CASE k = i
      <4>1. i \in DOMAIN doc' /\ doc'[i] = h
        BY <3>1
      <4>2. w.up = h.up
        BY <1>0, <2>1, <3>1, <3>2, <3>4 DEF OneUpload, Copy
      <4> QED  BY <4>1, <4>2 DEF Range
    <3> QED  BY <3>3, <3>4
  <2> QED  BY <1>1, <1>9, <2>1, <2>2, AuditVersionOn
<1> QED
    BY <1>1, <1>2, <1>4, <1>5, <1>7, <1>8, <1>9, <1>10, WhoWrites

\* An acknowledged version.
LEMMA AckedKeptStep ==
    ASSUME TypesInv, OneUpload, NamedAsked, AckedKept, [Next]_vars
    PROVE  AckedKept'
<1> SUFFICES ASSUME doc' # Gone, NEW u \in acked', u \notin asked', u \notin overtaken',
                    u \notin dropped'
             PROVE  u \in Ups(doc)'
    BY DEF AckedKept
<1>1. doc # Gone
    BY GoneStays
<1>2. Ups(doc) = {v.up : v \in Range(doc)} /\ Ups(doc)' = {v.up : v \in Range(doc')}
  <2>1. Ups(doc)' = {v.up : v \in Range(doc)}'
    BY DEF Ups, Range
  <2> QED  BY <2>1, UpsOf
<1>3. CASE u \in acked
  <2>1. PICK w \in Range(doc) : u = w.up
    BY <1>1, <1>2, <1>3, HistoryGrows DEF AckedKept
  <2>2. PICK x \in Range(doc') : x.up = u
    BY <1>1, <2>1, ListedKept
  <2> QED  BY <1>2, <2>2
<1>4. ASSUME NEW t \in Threads, PushVersion(t), u \notin acked  PROVE u \in Ups(doc)'
  <2>1. doc' = Append(doc, Pushed(t)) /\ Pushed(t) \in Version /\ u = Pushed(t).up
    BY <1>1, <1>4, PushVersionOn
  <2>2. Pushed(t) \in Range(doc')
    <3>1. PICK y \in Version : y = Pushed(t)
      BY <2>1
    <3>2. doc \in Seq(Version)
      BY <1>1 DEF TypesInv
    <3>3. Len(doc) + 1 \in DOMAIN doc' /\ doc'[Len(doc) + 1] = y
      BY <2>1, <3>1, <3>2
    <3> QED  BY <3>1, <3>3 DEF Range
  <2> QED  BY <1>2, <2>1, <2>2
<1> QED
    BY <1>3, <1>4, HistoryGrows

\* The numbers, after a step.
LEMMA NumbersStep ==
    ASSUME TypesInv, StoreInv, SpaceInv, IdsInv, NumbersInv, [Next]_vars
    PROVE  NumbersInv'
<1>1. RoundNumber'
    BY RoundNumberStep DEF NumbersInv
<1>2. ASSUME ~misnumbered'  PROVE OneUpload' /\ ListsApart' /\ NamedAsked' /\ AckedKept'
  <2>1. OneUpload /\ ListsApart /\ NamedAsked /\ AckedKept /\ RoundNumber
    BY <1>2, NotesStay DEF NumbersInv
  <2> QED  BY <1>2, <2>1, OneUploadStep, ListsApartStep, NamedAskedStep, AckedKeptStep
<1> QED
    BY <1>1, <1>2 DEF NumbersInv

\* At first there is one version.
LEMMA NumbersInit ==
    ASSUME Init
    PROVE  NumbersInv
<1>1. PICK first : first = [num |-> 0, up |-> 0, at |-> FirstAt]
    OBVIOUS
<1>2. /\ doc = <<first>> /\ disk.versions = <<first>> /\ arrays = <<<<first>>>>
      /\ list = <<[there |-> TRUE, arr |-> 1, len |-> 1]>> /\ acked = {0}
    BY <1>1 DEF Init
<1>3. Apart(<<first>>)
    BY DEF Apart
<1>4. \A e \in DOMAIN list : Unique(e)
  <2>1. DOMAIN list = {1} /\ list[1].len = 1
    BY <1>2
  <2> QED  BY <2>1 DEF Unique
<1>5. ListsApart
    BY <1>2, <1>3, <1>4, FirstCopy DEF ListsApart
<1>6. OneUpload /\ RoundNumber /\ NamedAsked
    BY FirstCopy DEF OneUpload, RoundNumber, NamedAsked
<1>7. AckedKept
  <2>1. first \in Range(doc) /\ first.up = 0
    BY <1>1, <1>2 DEF Range
  <2> QED  BY <1>2, <2>1, UpsOf DEF AckedKept
<1> QED
    BY <1>5, <1>6, <1>7 DEF NumbersInv

\* VersionsKept: an acknowledged version stays listed, under a number of its
\* own, until a request asks to remove it, an overwriting upload deletes what
\* has become the latest since it began, or a whole-file PUT drops it, as long
\* as no object has a version under a wrong number.
THEOREM KeptVersions == Spec => []VersionsKept
<1>1. Init => NumbersInv
    BY NumbersInit
<1>2. TypesInv /\ StoreInv /\ SpaceInv /\ IdsInv /\ NumbersInv /\ [Next]_vars => NumbersInv'
    BY NumbersStep
<1>3. NumbersInv => VersionsKept
    BY DEF NumbersInv, AckedKept, ListsApart, Apart, VersionsKept
<1> QED
    BY <1>1, <1>2, <1>3, TypesAndSpace, Stored, PTL DEF Spec
=============================================================================
