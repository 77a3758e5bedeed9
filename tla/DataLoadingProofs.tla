-------------------------- MODULE DataLoadingProofs --------------------------
(***************************************************************************)
(* For any classes, manifests, files and threads: the pool gets every      *)
(* buffer back, formatters are registered once, and a load makes of each   *)
(* item what its own file says, or throws for a reason.                    *)
(***************************************************************************)
EXTENDS DataLoading, FiniteSetTheorems, TLAPS

\* A call that has read its file still has it.
HasContent == \A t \in Threads : pc[t] \in {"rent", "parse"} => content[t] \in File
ITypes == TypeOK /\ HasContent

-----------------------------------------------------------------------------
(* Types.                                                                  *)

\* What the helpers answer has its type.
LEMMA FileFacts ==
  /\ NoFile \notin File
  /\ \A file \in File : /\ file.text \in Seq(Bytes) /\ Len(file.text) \in 1..Capacity
                        /\ file.name \in Names /\ file.version \in Nat
  /\ \A file \in File, i \in 1..Capacity : [file |-> file, at |-> i] \in Cell \ {Zero}
BY TextsAssumption DEF NoFile, File, Cell, Zero

\* A buffer into which a file is copied starts with the cells of the file.
LEMMA CopiedType ==
  ASSUME NEW file \in File, NEW cells \in [1..Capacity -> Cell]
  PROVE  /\ Copied(file, cells) \in [1..Capacity -> Cell]
         /\ \A i \in DOMAIN file.text : i \in 1..Capacity
                                     /\ Copied(file, cells)[i] = [file |-> file, at |-> i]
<1>1. file.text \in Seq(Bytes) /\ Len(file.text) \in 1..Capacity /\ Capacity \in Nat
  BY FileFacts, CapacityAssumption
<1>2. \A i \in 1..Len(file.text) : CellsOf(file)[i] = [file |-> file, at |-> i] /\ i \in 1..Capacity
  BY <1>1 DEF CellsOf
<1>3. ASSUME NEW i \in 1..Capacity PROVE Copied(file, cells)[i] \in Cell
  <2>1. CASE i <= Len(file.text)
    <3>1. Copied(file, cells)[i] = [file |-> file, at |-> i]
      BY <1>1, <1>2, <2>1 DEF Copied
    <3> QED BY <3>1, FileFacts
  <2>2. CASE ~(i <= Len(file.text))
    BY <2>2 DEF Copied
  <2> QED BY <2>1, <2>2
<1>4. DOMAIN file.text = 1..Len(file.text)
  BY <1>1
<1> QED BY <1>2, <1>3, <1>4 DEF Copied

\* A number of cells of a buffer is a sequence of cells that is not empty.
LEMMA SubSeqType ==
  ASSUME NEW cells \in [1..Capacity -> Cell], NEW k \in 1..Capacity
  PROVE  /\ SubSeq(cells, 1, k) \in Seq(Cell) /\ SubSeq(cells, 1, k) # << >>
         /\ Len(SubSeq(cells, 1, k)) = k
         /\ \A i \in 1..k : SubSeq(cells, 1, k)[i] = cells[i]
<1>1. cells \in Seq(Cell) /\ Len(cells) = Capacity
  BY CapacityAssumption
<1> QED BY <1>1, CapacityAssumption

\* The item a load is at, and the kind of its member.
LEMMA ItemType ==
  ASSUME TypeOK, NEW t \in Threads, next[t] <= Len(world.items)
  PROVE  ItemOf(t) \in DataSetItem /\ ItemOf(t).name \in Names /\ KindOf(t) \in MemberKinds
<1>1. world.items \in Seq(DataSetItem) /\ world.member \in [Names -> MemberKinds]
  BY DEF TypeOK, World
<1>2. next[t] \in 1..Len(world.items)
  BY <1>1 DEF TypeOK
<1>3. ItemOf(t) \in DataSetItem
  BY <1>1, <1>2 DEF ItemOf
<1>4. ItemOf(t).name \in Names
  BY <1>3 DEF DataSetItem
<1> QED BY <1>1, <1>3, <1>4 DEF KindOf

\* The initial states are well typed.
LEMMA TypeInit == Init => ITypes
<1> SUFFICES ASSUME Init PROVE ITypes
  OBVIOUS
<1>1. world \in World /\ files \in [Names -> File \cup {NoFile}]
  BY WorldsAssumption DEF Init, World
<1>2. \A n \in Names : files[n].version \in Nat \cup {-1}
  BY <1>1, FileFacts DEF NoFile
<1>3. since \in [Threads -> [Names -> Nat \cup {-1}]]
  BY <1>2 DEF Init, Versions
<1>4. /\ NoResult \in [Names -> Seq(Cell)]
      /\ Zero \in Cell
  BY DEF NoResult, Unset, Cell
<1>5. /\ result \in [Threads -> [Names -> Seq(Cell)]]
      /\ buffers \in [Buffers -> [1..Capacity -> Cell]]
  BY <1>4 DEF Init
<1>6. misfits \subseteq Names /\ held \subseteq Names
  BY DEF Init
<1>7. HasContent
  BY DEF Init, HasContent
<1>10. initState \in {0, 1}
  BY DEF Init
<1>11. registered \in BOOLEAN
  BY DEF Init
<1>8. /\ renter \in [Buffers -> Threads \cup {None}]
      /\ pc \in [Threads -> {"idle", "registering", "item", "rent", "parse"}]
      /\ root \in [Threads -> Roots \cup {None}]
      /\ next \in [Threads -> Nat \ {0}]
  BY DEF Init
<1>9. /\ content \in [Threads -> File \cup {NoFile}]
      /\ outcome \in [Threads -> Endings \cup {None}]
      /\ loads \in [Threads -> Nat]
  BY DEF Init
<1> QED BY <1>1, <1>3, <1>5, <1>6, <1>7, <1>8, <1>9, <1>10, <1>11 DEF ITypes, TypeOK

\* The ways a load ends keep the types.
LEMMA EndLoadType ==
  ASSUME ITypes, NEW t \in Threads, NEW how \in {"returned", "threw"}, EndLoad(t, how)
  PROVE  /\ pc' \in [Threads -> {"idle", "registering", "item", "rent", "parse"}]
         /\ next' \in [Threads -> Nat \ {0}]
         /\ content' \in [Threads -> File \cup {NoFile}]
         /\ result' \in [Threads -> [Names -> Seq(Cell)]]
         /\ outcome' \in [Threads -> Endings \cup {None}]
         /\ HasContent'
<1>1. NoResult \in [Names -> Seq(Cell)]
  BY DEF NoResult, Unset
<1>2. result' \in [Threads -> [Names -> Seq(Cell)]]
  BY <1>1 DEF EndLoad, ITypes, TypeOK
<1>3. HasContent'
  BY DEF EndLoad, ITypes, TypeOK, HasContent
<1> QED BY <1>2, <1>3 DEF EndLoad, ITypes, TypeOK, Endings

\* The loads that end before an object is made.
Early(t) ==
  \/ LoadNothing(t)
  \/ \E path \in Roots :
       LoadWithoutManifest(t, path) \/ LoadUnreadable(t, path) \/ LoadNoItems(t, path)

LEMMA EarlyEnds ==
  ASSUME NEW t \in Threads, Early(t)
  PROVE  /\ \E how \in Endings \ {"returned", "threw"} : EndEarly(t, how)
         /\ root' = root \/ \E path \in Roots : root' = [root EXCEPT ![t] = path]
<1>1. CASE LoadNothing(t)
  BY <1>1 DEF LoadNothing, Endings
<1>2. ASSUME NEW path \in Roots,
             LoadWithoutManifest(t, path) \/ LoadUnreadable(t, path) \/ LoadNoItems(t, path)
      PROVE  /\ \E how \in Endings \ {"returned", "threw"} : EndEarly(t, how)
             /\ root' = [root EXCEPT ![t] = path]
  BY <1>2 DEF LoadWithoutManifest, LoadUnreadable, LoadNoItems, Endings
<1> QED BY <1>1, <1>2 DEF Early

\* Every step of a thread, or of whoever edits a file, keeps the types.
LEMMA TypeNext == ITypes /\ [Next]_vars => ITypes'
<1> SUFFICES ASSUME ITypes, [Next]_vars PROVE ITypes'
  OBVIOUS
<1>0. TypeOK /\ HasContent
  BY DEF ITypes
<1>1. ASSUME NEW n \in Names, Rewrite(n) PROVE ITypes'
  <2>1. PICK text \in Texts :
          files' = [files EXCEPT ![n] = [name |-> n, version |-> @.version + 1, text |-> text]]
    BY <1>1 DEF Rewrite
  <2>2. files[n] \in File /\ files[n].version \in Nat
    BY <1>0, <1>1, FileFacts DEF TypeOK, Rewrite
  <2>3. [name |-> n, version |-> files[n].version + 1, text |-> text] \in File
    BY <2>2 DEF File
  <2>4. files' \in [Names -> File \cup {NoFile}]
    BY <1>0, <2>1, <2>3 DEF TypeOK
  <2>5. misfits' \subseteq Names
    BY <1>0, <1>1 DEF Rewrite, TypeOK
  <2> QED BY <1>0, <1>1, <2>4, <2>5 DEF Rewrite, ITypes, TypeOK, HasContent, settings, pool, call
<1>a. ASSUME NEW n \in Names, Hold(n) \/ Release(n) PROVE ITypes'
  BY <1>0, <1>a DEF Hold, Release, ITypes, TypeOK, HasContent, settings, pool, call, World
<1>2. ASSUME NEW t \in Threads, Initialize(t) PROVE ITypes'
  BY <1>0, <1>2 DEF Initialize, ITypes, TypeOK, HasContent, disk, pool, call
<1>3. ASSUME NEW t \in Threads, RegisterAndSetAsDefault(t) PROVE ITypes'
  BY <1>0, <1>3 DEF RegisterAndSetAsDefault, ITypes, TypeOK, HasContent, disk, pool, call
<1>4. ASSUME NEW t \in Threads, Early(t) PROVE ITypes'
  <2>1. PICK how \in Endings : EndEarly(t, how)
    BY <1>4, EarlyEnds
  <2>2. root' \in [Threads -> Roots \cup {None}]
    BY <1>0, <1>4, EarlyEnds DEF TypeOK
  <2>3. /\ result' \in [Threads -> [Names -> Seq(Cell)]] /\ loads' \in [Threads -> Nat]
        /\ outcome' \in [Threads -> Endings \cup {None}]
    BY <1>0, <2>1 DEF EndEarly, Call, TypeOK, NoResult, Unset
  <2> QED BY <1>0, <2>1, <2>2, <2>3 DEF EndEarly, ITypes, TypeOK, HasContent, disk, settings, pool
<1>6. ASSUME NEW t \in Threads, NEW path \in Roots, LoadItems(t, path) PROVE ITypes'
  <2>1. result' \in [Threads -> [Names -> Seq(Cell)]] /\ loads' \in [Threads -> Nat]
    BY <1>0, <1>6 DEF LoadItems, Call, TypeOK, NoResult, Unset
  <2>2. Versions \in [Names -> Nat \cup {-1}]
    BY <1>0, FileFacts DEF Versions, TypeOK, NoFile
  <2>3. since' \in [Threads -> [Names -> Nat \cup {-1}]]
    BY <1>0, <1>6, <2>2 DEF LoadItems, TypeOK
  <2>4. /\ root' \in [Threads -> Roots \cup {None}]
        /\ pc' \in [Threads -> {"idle", "registering", "item", "rent", "parse"}]
        /\ outcome' \in [Threads -> Endings \cup {None}]
        /\ HasContent'
    BY <1>0, <1>6 DEF LoadItems, TypeOK, HasContent
  <2> QED BY <1>0, <1>6, <2>1, <2>3, <2>4 DEF LoadItems, ITypes, TypeOK, disk, settings, pool
<1>7. ASSUME NEW t \in Threads, LoadFails(t) PROVE ITypes'
  BY <1>0, <1>7, EndLoadType DEF LoadFails, ITypes, TypeOK, disk, settings, pool, call
<1>8. ASSUME NEW t \in Threads, ReadContent(t) PROVE ITypes'
  <2>1. files[ItemOf(t).name] \in File
    BY <1>0, <1>8, ItemType DEF ReadContent, HasItem, CanDeserialize, TypeOK
  <2>2. /\ content' \in [Threads -> File \cup {NoFile}]
        /\ pc' \in [Threads -> {"idle", "registering", "item", "rent", "parse"}]
        /\ HasContent'
    BY <1>0, <1>8, <2>1 DEF ReadContent, TypeOK, HasContent
  <2> QED BY <1>0, <1>8, <2>2 DEF ReadContent, ITypes, TypeOK, disk, settings, pool, call
<1>9. ASSUME NEW t \in Threads, Rent(t) PROVE ITypes'
  <2>1. PICK b \in Buffers : renter' = [renter EXCEPT ![b] = t]
                           /\ buffers' = [buffers EXCEPT ![b] = Copied(content[t], @)]
    BY <1>9 DEF Rent
  <2>2. Copied(content[t], buffers[b]) \in [1..Capacity -> Cell]
    BY <1>0, <1>9, CopiedType DEF Rent, HasContent, TypeOK
  <2>3. buffers' \in [Buffers -> [1..Capacity -> Cell]]
    BY <1>0, <2>1, <2>2 DEF TypeOK
  <2>4. /\ renter' \in [Buffers -> Threads \cup {None}]
        /\ pc' \in [Threads -> {"idle", "registering", "item", "rent", "parse"}]
        /\ HasContent'
    BY <1>0, <1>9, <2>1 DEF Rent, TypeOK, HasContent
  <2> QED BY <1>0, <1>9, <2>3, <2>4 DEF Rent, ITypes, TypeOK, disk, settings, call
<1>10. ASSUME NEW t \in Threads, Deserialize(t) PROVE ITypes'
  <2>1. PICK b \in Buffers, k \in 1..Capacity :
          /\ result' = [result EXCEPT ![t][ItemOf(t).name] = SubSeq(buffers[b], 1, k)]
          /\ Return(b)
    BY <1>10 DEF Deserialize
  <2>2. SubSeq(buffers[b], 1, k) \in Seq(Cell)
    BY <1>0, SubSeqType DEF TypeOK
  <2>3. result' \in [Threads -> [Names -> Seq(Cell)]]
    BY <1>0, <2>1, <2>2 DEF TypeOK
  <2>4. renter' \in [Buffers -> Threads \cup {None}]
    BY <1>0, <2>1 DEF TypeOK, Return
  <2>5. /\ pc' \in [Threads -> {"idle", "registering", "item", "rent", "parse"}]
        /\ next' \in [Threads -> Nat \ {0}]
        /\ content' \in [Threads -> File \cup {NoFile}]
        /\ HasContent'
    BY <1>0, <1>10 DEF Deserialize, TypeOK, HasContent
  <2> QED BY <1>0, <1>10, <2>3, <2>4, <2>5 DEF Deserialize, ITypes, TypeOK, disk, settings, call
<1>11. ASSUME NEW t \in Threads, DeserializeFails(t) PROVE ITypes'
  <2>1. renter' \in [Buffers -> Threads \cup {None}]
    BY <1>0, <1>11 DEF DeserializeFails, Return, TypeOK
  <2> QED BY <1>0, <1>11, <2>1, EndLoadType
      DEF DeserializeFails, ITypes, TypeOK, disk, settings, call
<1>12. ASSUME NEW t \in Threads, ReturnResult(t) PROVE ITypes'
  BY <1>0, <1>12, EndLoadType DEF ReturnResult, ITypes, TypeOK, disk, settings, pool, call
<1>13. CASE UNCHANGED vars
  BY <1>0, <1>13 DEF vars, disk, settings, pool, call, ITypes, TypeOK, HasContent
<1> QED
  BY <1>1, <1>a, <1>2, <1>3, <1>4, <1>6, <1>7, <1>8, <1>9, <1>10, <1>11, <1>12, <1>13
  DEF Next, Load, Early

\* Whatever threads load and files become, everything has its type.
THEOREM TypeCorrect == Spec => []TypeOK
<1>1. ITypes => TypeOK
  BY DEF ITypes
<1> QED BY TypeInit, TypeNext, <1>1, PTL DEF Spec

-----------------------------------------------------------------------------
(* The pool.                                                               *)

\* A step that leaves the pool alone, and that neither begins nor ends parsing.
LEMMA PoolUntouched ==
  ASSUME BuffersComeBack, TypeOK, UNCHANGED renter,
         \A t \in Threads : pc'[t] = "parse" <=> pc[t] = "parse"
  PROVE  BuffersComeBack'
BY DEF BuffersComeBack, TypeOK

\* A step in which t returns the buffer it parses in.
LEMMA PoolReturned ==
  ASSUME BuffersComeBack, TypeOK, NEW t \in Threads, NEW b \in Buffers, renter[b] = t,
         Return(b), pc'[t] # "parse",
         \A u \in Threads \ {t} : pc'[u] = pc[u]
  PROVE  BuffersComeBack'
<1>1. \A c \in Buffers : renter'[c] = IF c = b THEN None ELSE renter[c]
  BY DEF Return, TypeOK
<1>2. \A c \in Buffers \ {b} : renter[c] # t
  BY BuffersAssumption DEF BuffersComeBack
<1>3. \A c \in Buffers : renter'[c] # None => pc'[renter'[c]] = "parse"
  BY <1>1, <1>2 DEF BuffersComeBack, TypeOK
<1>4. \A c, d \in Buffers : renter'[c] = renter'[d] /\ renter'[c] # None => c = d
  BY <1>1 DEF BuffersComeBack
<1>5. ASSUME NEW u \in Threads, pc'[u] = "parse" PROVE \E c \in Buffers : renter'[c] = u
  <2>1. u # t /\ pc[u] = "parse"
    BY <1>5
  <2> QED BY <1>1, <2>1 DEF BuffersComeBack
<1> QED BY <1>3, <1>4, <1>5 DEF BuffersComeBack

PoolInv == ITypes /\ BuffersComeBack

\* Initially no buffer is rented.
LEMMA PoolInit == Init => PoolInv
BY TypeInit DEF Init, PoolInv, BuffersComeBack

\* Only Rent takes a buffer out, and both ends of Deserialize bring it back.
LEMMA PoolNext == PoolInv /\ [Next]_vars => PoolInv'
<1> SUFFICES ASSUME PoolInv, [Next]_vars PROVE BuffersComeBack'
  BY TypeNext DEF PoolInv
<1>0. TypeOK /\ BuffersComeBack
  BY DEF PoolInv, ITypes
<1>1. ASSUME NEW n \in Names, Rewrite(n) PROVE BuffersComeBack'
  BY <1>0, <1>1, PoolUntouched DEF Rewrite, pool
<1>a. ASSUME NEW n \in Names, Hold(n) \/ Release(n) PROVE BuffersComeBack'
  BY <1>0, <1>a, PoolUntouched DEF Hold, Release, pool
<1>2. ASSUME NEW t \in Threads, Initialize(t) PROVE BuffersComeBack'
  BY <1>0, <1>2, PoolUntouched DEF Initialize, pool, TypeOK
<1>3. ASSUME NEW t \in Threads, RegisterAndSetAsDefault(t) PROVE BuffersComeBack'
  BY <1>0, <1>3, PoolUntouched DEF RegisterAndSetAsDefault, pool, TypeOK
<1>4. ASSUME NEW t \in Threads, Early(t) PROVE BuffersComeBack'
  <2>1. UNCHANGED renter /\ UNCHANGED pc
    BY <1>4, EarlyEnds DEF EndEarly, pool
  <2> QED BY <1>0, <2>1, PoolUntouched
<1>6. ASSUME NEW t \in Threads, NEW path \in Roots, LoadItems(t, path) PROVE BuffersComeBack'
  BY <1>0, <1>6, PoolUntouched DEF LoadItems, Call, pool, TypeOK
<1>7. ASSUME NEW t \in Threads, LoadFails(t) PROVE BuffersComeBack'
  BY <1>0, <1>7, PoolUntouched DEF LoadFails, HasItem, EndLoad, pool, TypeOK
<1>8. ASSUME NEW t \in Threads, ReadContent(t) PROVE BuffersComeBack'
  BY <1>0, <1>8, PoolUntouched DEF ReadContent, HasItem, pool, TypeOK
<1>9. ASSUME NEW t \in Threads, Rent(t) PROVE BuffersComeBack'
  <2>1. PICK b \in Buffers : renter[b] = None /\ renter' = [renter EXCEPT ![b] = t]
    BY <1>9 DEF Rent, IsFree
  <2>2. \A c \in Buffers : renter'[c] = IF c = b THEN t ELSE renter[c]
    BY <1>0, <2>1 DEF TypeOK
  <2>3. \A u \in Threads : pc'[u] = IF u = t THEN "parse" ELSE pc[u]
    BY <1>0, <1>9 DEF Rent, TypeOK
  <2>4. pc[t] = "rent" /\ \A c \in Buffers : renter[c] # t
    BY <1>0, <1>9, BuffersAssumption DEF Rent, BuffersComeBack
  <2>5. ASSUME NEW c \in Buffers, renter'[c] # None PROVE pc'[renter'[c]] = "parse"
    <3>1. CASE c = b
      BY <2>2, <2>3, <3>1
    <3>2. CASE c # b
      <4>1. renter'[c] = renter[c] /\ renter[c] \in Threads /\ pc[renter[c]] = "parse"
        BY <1>0, <2>2, <2>5, <3>2 DEF BuffersComeBack, TypeOK
      <4> QED BY <2>3, <4>1
    <3> QED BY <3>1, <3>2
  <2>6. \A c, d \in Buffers : renter'[c] = renter'[d] /\ renter'[c] # None => c = d
    BY <1>0, <2>2, <2>4 DEF BuffersComeBack
  <2>7. ASSUME NEW u \in Threads, pc'[u] = "parse" PROVE \E c \in Buffers : renter'[c] = u
    <3>1. CASE u = t
      BY <2>2, <3>1
    <3>2. CASE u # t
      <4>1. PICK c \in Buffers : renter[c] = u
        BY <1>0, <2>3, <2>7, <3>2 DEF BuffersComeBack
      <4>2. c # b
        BY <2>1, <4>1, BuffersAssumption
      <4> QED BY <2>2, <4>1, <4>2
    <3> QED BY <3>1, <3>2
  <2> QED BY <2>5, <2>6, <2>7 DEF BuffersComeBack
<1>10. ASSUME NEW t \in Threads, Deserialize(t) PROVE BuffersComeBack'
  <2>1. PICK b \in Buffers : renter[b] = t /\ Return(b)
    BY <1>10 DEF Deserialize
  <2>2. pc'[t] # "parse" /\ \A u \in Threads \ {t} : pc'[u] = pc[u]
    BY <1>0, <1>10 DEF Deserialize, TypeOK
  <2> QED BY <1>0, <2>1, <2>2, PoolReturned
<1>11. ASSUME NEW t \in Threads, DeserializeFails(t) PROVE BuffersComeBack'
  <2>1. PICK b \in Buffers : renter[b] = t /\ Return(b)
    BY <1>11 DEF DeserializeFails
  <2>2. pc'[t] # "parse" /\ \A u \in Threads \ {t} : pc'[u] = pc[u]
    BY <1>0, <1>11 DEF DeserializeFails, EndLoad, TypeOK
  <2> QED BY <1>0, <2>1, <2>2, PoolReturned
<1>12. ASSUME NEW t \in Threads, ReturnResult(t) PROVE BuffersComeBack'
  BY <1>0, <1>12, PoolUntouched DEF ReturnResult, EndLoad, pool, TypeOK
<1>13. CASE UNCHANGED vars
  BY <1>0, <1>13, PoolUntouched DEF vars, pool
<1> QED
  BY <1>1, <1>a, <1>2, <1>3, <1>4, <1>6, <1>7, <1>8, <1>9, <1>10, <1>11, <1>12, <1>13
  DEF Next, Load, Early

\* Whatever loads fail, a buffer is out of the pool only while one call parses in
\* it: BuffersComeBack.
THEOREM PoolKeepsBuffers == Spec => []BuffersComeBack
<1>1. PoolInv => BuffersComeBack
  BY DEF PoolInv
<1> QED BY PoolInit, PoolNext, <1>1, PTL DEF Spec

-----------------------------------------------------------------------------
(* The registration of formatters.                                         *)

\* Nobody registers before the flag is set.
NotYet == initState = 0 => ~registered /\ \A t \in Threads : pc[t] # "registering"
RegisterInv == ITypes /\ NotYet /\ RegisteredOrRegistering

\* Initially the flag is not set.
LEMMA RegisterInit == Init => RegisterInv
BY TypeInit DEF Init, RegisterInv, NotYet, RegisteredOrRegistering

\* A step that leaves the settings alone, and in which nobody begins or ends to
\* register.
LEMMA SettingsUntouched ==
  ASSUME RegisterInv, UNCHANGED settings,
         \A t \in Threads : pc'[t] = "registering" <=> pc[t] = "registering"
  PROVE  NotYet' /\ RegisteredOrRegistering'
BY DEF RegisterInv, NotYet, RegisteredOrRegistering, settings

\* Only the call that has set the flag registers.
LEMMA RegisterNext == RegisterInv /\ [Next]_vars => RegisterInv'
<1> SUFFICES ASSUME RegisterInv, [Next]_vars PROVE NotYet' /\ RegisteredOrRegistering'
  BY TypeNext DEF RegisterInv
<1> DEFINE Kept == NotYet' /\ RegisteredOrRegistering'
<1>0. TypeOK
  BY DEF RegisterInv, ITypes
<1>1. ASSUME NEW n \in Names, Rewrite(n) PROVE Kept
  BY <1>1, SettingsUntouched DEF Rewrite
<1>a. ASSUME NEW n \in Names, Hold(n) \/ Release(n) PROVE Kept
  BY <1>a, SettingsUntouched DEF Hold, Release
<1>2. ASSUME NEW t \in Threads, Initialize(t) PROVE Kept
  <2>1. \A u \in Threads : pc'[u] = "registering" <=> u = t
    BY <1>0, <1>2 DEF Initialize, RegisterInv, NotYet, TypeOK
  <2> QED BY <1>2, <2>1 DEF Initialize, RegisterInv, NotYet, RegisteredOrRegistering
<1>3. ASSUME NEW t \in Threads, RegisterAndSetAsDefault(t) PROVE Kept
  <2>1. pc[t] = "registering" /\ initState # 0
    BY <1>3 DEF RegisterAndSetAsDefault, RegisterInv, NotYet
  <2>2. initState = 1
    BY <1>0, <2>1 DEF TypeOK
  <2>3. \A u \in Threads : pc[u] = "registering" <=> u = t
    BY <2>1, <2>2 DEF RegisterInv, RegisteredOrRegistering
  <2>4. \A u \in Threads : pc'[u] # "registering"
    BY <1>0, <1>3, <2>3 DEF RegisterAndSetAsDefault, TypeOK
  <2> QED BY <1>3, <2>2, <2>4 DEF RegisterAndSetAsDefault, NotYet, RegisteredOrRegistering
<1>4. ASSUME NEW t \in Threads, Early(t) PROVE Kept
  <2>1. UNCHANGED settings /\ UNCHANGED pc
    BY <1>4, EarlyEnds DEF EndEarly
  <2> QED BY <2>1, SettingsUntouched
<1>6. ASSUME NEW t \in Threads, NEW path \in Roots, LoadItems(t, path) PROVE Kept
  BY <1>0, <1>6, SettingsUntouched DEF LoadItems, Call, TypeOK
<1>7. ASSUME NEW t \in Threads, LoadFails(t) PROVE Kept
  BY <1>0, <1>7, SettingsUntouched DEF LoadFails, HasItem, EndLoad, TypeOK
<1>8. ASSUME NEW t \in Threads, ReadContent(t) PROVE Kept
  BY <1>0, <1>8, SettingsUntouched DEF ReadContent, HasItem, TypeOK
<1>9. ASSUME NEW t \in Threads, Rent(t) PROVE Kept
  BY <1>0, <1>9, SettingsUntouched DEF Rent, TypeOK
<1>10. ASSUME NEW t \in Threads, Deserialize(t) PROVE Kept
  BY <1>0, <1>10, SettingsUntouched DEF Deserialize, TypeOK
<1>11. ASSUME NEW t \in Threads, DeserializeFails(t) PROVE Kept
  BY <1>0, <1>11, SettingsUntouched DEF DeserializeFails, EndLoad, TypeOK
<1>12. ASSUME NEW t \in Threads, ReturnResult(t) PROVE Kept
  BY <1>0, <1>12, SettingsUntouched DEF ReturnResult, EndLoad, TypeOK
<1>13. CASE UNCHANGED vars
  BY <1>13, SettingsUntouched DEF vars
<1> QED
  BY <1>1, <1>a, <1>2, <1>3, <1>4, <1>6, <1>7, <1>8, <1>9, <1>10, <1>11, <1>12, <1>13
  DEF Next, Load, Early

\* However many threads call Initialize, one registers the formatters, once:
\* RegisteredOrRegistering.
THEOREM RegisteredOnce == Spec => []RegisteredOrRegistering
<1>1. RegisterInv => RegisteredOrRegistering
  BY DEF RegisterInv
<1> QED BY RegisterInit, RegisterNext, <1>1, PTL DEF Spec

-----------------------------------------------------------------------------
(* What a load makes of an item.                                           *)

\* In a buffer that starts with a text, a value ends where the text ends, if
\* the text is delimited, and not before in any case.
LEMMA ValueCoversText ==
  ASSUME NEW cells \in [1..Capacity -> Cell], NEW file \in File, NEW k \in 1..Capacity,
         \A i \in DOMAIN file.text : cells[i] = [file |-> file, at |-> i],
         EndsAt(cells, k)
  PROVE  /\ k >= Len(file.text)
         /\ IsDelimited(file.text) => k = Len(file.text)
<1> DEFINE text == file.text
<1>1. /\ text \in Seq(Bytes) /\ Len(text) \in 1..Capacity /\ Capacity \in Nat
      /\ DOMAIN text = 1..Len(text)
      /\ IsNumber(text) \/ (text[1] = "open" /\ \A i \in DOMAIN text : text[i] = "close" => i = Len(text))
  BY FileFacts, TextsAssumption, CapacityAssumption DEF File
<1>2. \A i \in 1..Len(text) : i \in 1..Capacity /\ Byte(cells[i]) = text[i]
  <2> SUFFICES ASSUME NEW i \in 1..Len(text) PROVE i \in 1..Capacity /\ Byte(cells[i]) = text[i]
    OBVIOUS
  <2>1. i \in 1..Capacity /\ cells[i] = [file |-> file, at |-> i]
    BY <1>1
  <2>2. cells[i] # Zero
    BY <2>1, FileFacts
  <2> QED BY <2>1, <2>2 DEF Byte
<1>3. CASE IsNumber(text)
  <2>1. \A i \in 1..Len(text) : Byte(cells[i]) = "digit"
    BY <1>1, <1>2, <1>3 DEF IsNumber
  <2>2. ~IsDelimited(text)
    BY <1>1, <1>3 DEF IsNumber, IsDelimited
  <2>3. /\ \A i \in 1..k : Byte(cells[i]) = "digit"
        /\ k = Capacity \/ Byte(cells[k + 1]) # "digit"
    BY <1>1, <2>1 DEF EndsAt
  <2>4. ~(k < Len(text))
    <3>1. SUFFICES ASSUME k < Len(text) PROVE FALSE
      OBVIOUS
    <3>2. k + 1 \in 1..Len(text) /\ k # Capacity
      BY <1>1, <3>1
    <3> QED BY <2>1, <2>3, <3>2
  <2> QED BY <1>1, <2>2, <2>4
<1>4. CASE ~IsNumber(text)
  <2>1. Byte(cells[1]) = "open"
    BY <1>1, <1>2, <1>4
  <2>2. /\ Byte(cells[k]) = "close"
        /\ \A i \in 1..(k - 1) : Byte(cells[i]) # "close"
    BY <2>1 DEF EndsAt
  <2>3. ~(k < Len(text))
    <3>1. SUFFICES ASSUME k < Len(text) PROVE FALSE
      OBVIOUS
    <3>2. k \in 1..Len(text) /\ text[k] = "close"
      BY <1>1, <1>2, <2>2, <3>1
    <3> QED BY <1>1, <1>4, <3>1, <3>2
  <2>4. ASSUME IsDelimited(text), k # Len(text) PROVE FALSE
    <3>1. Len(text) \in 1..(k - 1)
      BY <1>1, <2>3, <2>4
    <3>2. Byte(cells[Len(text)]) = "close"
      BY <1>1, <1>2, <2>4 DEF IsDelimited
    <3> QED BY <2>2, <3>1, <3>2
  <2> QED BY <1>1, <2>3, <2>4
<1> QED BY <1>3, <1>4

FilesInv == \A n \in Names : files[n] # NoFile => files[n].name = n

\* No file is older than when the load of t started.
Since(t) == \A n \in Names : since[t][n] <= files[n].version

\* What t has read is the file of its item, at some moment of the load.
Reading(t) ==
  pc[t] \in {"rent", "parse"} =>
    /\ next[t] <= Len(world.items)
    /\ content[t].name = ItemOf(t).name
    /\ content[t].version >= since[t][ItemOf(t).name]
    /\ content[t].version <= files[ItemOf(t).name].version

\* The buffer in which t parses starts with what t has read.
Filled(t) ==
  pc[t] = "parse" =>
    \A b \in Buffers : renter[b] = t =>
      \A i \in DOMAIN content[t].text : buffers[b][i] = [file |-> content[t], at |-> i]

\* IsReadingOf, of versions.
IsReadingBetween(value, n, from, to) ==
  LET file == value[1].file IN
  /\ file.name = n
  /\ file.version \in from .. to
  /\ Len(value) >= Len(file.text)
  /\ \A i \in DOMAIN file.text : value[i] = [file |-> file, at |-> i]
  /\ IsDelimited(file.text) => Len(value) = Len(file.text)

Values(t) == \A n \in Names : result[t][n] # Unset => IsReadingOf(result[t][n], n, t)

ThreadInv(t) == Since(t) /\ Reading(t) /\ Filled(t) /\ Values(t)

ReadInv == PoolInv /\ FilesInv /\ \A t \in Threads : ThreadInv(t)

\* Files only become newer, and no buffer of u is touched.
Undisturbed(u) ==
  /\ UNCHANGED world
  /\ \A n \in Names : files[n].version <= files'[n].version
  /\ \A b \in Buffers : renter'[b] = u => renter[b] = u /\ buffers'[b] = buffers[b]

\* The versions of files are integers.
LEMMA VersionType ==
  ASSUME TypeOK
  PROVE  \A n \in Names : files[n].version \in Int /\ \A t \in Threads : since[t][n] \in Int
BY FileFacts DEF TypeOK, NoFile

\* A value stays a reading of its file while files become newer.
LEMMA ValuesStay ==
  ASSUME TypeOK, TypeOK', NEW u \in Threads, Values(u), Undisturbed(u),
         result'[u] = result[u], since'[u] = since[u]
  PROVE  Values(u)'
<1> SUFFICES ASSUME NEW n \in Names, result[u][n] # Unset
             PROVE  IsReadingOf(result[u][n], n, u)'
  BY DEF Values
<1> DEFINE file == result[u][n][1].file
<1>1. /\ file.name = n /\ file.version \in since[u][n] .. files[n].version
      /\ Len(result[u][n]) >= Len(file.text)
      /\ \A i \in DOMAIN file.text : result[u][n][i] = [file |-> file, at |-> i]
      /\ IsDelimited(file.text) => Len(result[u][n]) = Len(file.text)
  BY DEF Values, IsReadingOf
<1>2. file.version \in since'[u][n] .. files'[n].version
  <2>1. /\ files[n].version \in Int /\ since[u][n] \in Int /\ files[n].version <= files'[n].version
        /\ files'[n].version \in Int
    BY VersionType, FileFacts DEF Undisturbed, TypeOK, NoFile
  <2> QED BY <1>1, <2>1
<1> QED BY <1>1, <1>2 DEF IsReadingOf

\* A step of the others.
LEMMA ThreadUndisturbed ==
  ASSUME TypeOK, TypeOK', HasContent, NEW u \in Threads, ThreadInv(u), Undisturbed(u),
         pc'[u] = pc[u], next'[u] = next[u], content'[u] = content[u],
         result'[u] = result[u], since'[u] = since[u]
  PROVE  ThreadInv(u)'
<1>0. \A n \in Names : /\ files[n].version \in Int /\ since[u][n] \in Int
                      /\ files[n].version <= files'[n].version /\ files'[n].version \in Int
  BY VersionType, FileFacts DEF Undisturbed, TypeOK, NoFile
<1>1. Since(u)'
  BY <1>0 DEF ThreadInv, Since
<1>2. Reading(u)'
  <2> SUFFICES ASSUME pc[u] \in {"rent", "parse"} PROVE Reading(u)'
    BY DEF Reading
  <2>1. /\ next[u] <= Len(world.items) /\ content[u].name = ItemOf(u).name
        /\ content[u].version >= since[u][ItemOf(u).name]
        /\ content[u].version <= files[ItemOf(u).name].version
    BY DEF ThreadInv, Reading
  <2>2. ItemOf(u).name \in Names /\ ItemOf(u)' = ItemOf(u)
    BY <2>1, ItemType DEF ItemOf, Undisturbed
  <2>3. content[u].version \in Nat
    BY FileFacts DEF HasContent
  <2> QED BY <1>0, <2>1, <2>2, <2>3 DEF Reading, Undisturbed
<1>3. Filled(u)'
  BY DEF ThreadInv, Filled, Undisturbed
<1> QED BY <1>1, <1>2, <1>3, ValuesStay DEF ThreadInv

\* A step of t that ends a load or that does not belong to one.
LEMMA ThreadResets ==
  ASSUME TypeOK, TypeOK', NEW t \in Threads, ThreadInv(t), UNCHANGED <<world, files>>,
         since'[t] = since[t], pc'[t] \notin {"rent", "parse"},
         result'[t] \in {NoResult, result[t]}
  PROVE  ThreadInv(t)'
<1>1. Since(t)' /\ Reading(t)' /\ Filled(t)'
  BY DEF ThreadInv, Since, Reading, Filled
<1>2. CASE result'[t] = NoResult
  BY <1>1, <1>2 DEF ThreadInv, Values, NoResult
<1>3. CASE result'[t] = result[t]
  BY <1>1, <1>3 DEF ThreadInv, Values, IsReadingOf
<1> QED BY <1>2, <1>3

\* A step of t alone, given what it does for t.
LEMMA OnlyThread ==
  ASSUME ReadInv, ITypes', PoolInv', NEW t \in Threads, UNCHANGED <<world, files>>,
         ThreadInv(t)',
         \A u \in Threads \ {t} :
           /\ pc'[u] = pc[u] /\ next'[u] = next[u] /\ content'[u] = content[u]
           /\ result'[u] = result[u] /\ since'[u] = since[u]
           /\ \A b \in Buffers : renter'[b] = u => renter[b] = u /\ buffers'[b] = buffers[b]
  PROVE  ReadInv'
<1>1. TypeOK /\ TypeOK' /\ HasContent
  BY DEF ReadInv, PoolInv, ITypes
<1>2. \A n \in Names : files[n].version <= files'[n].version
  BY <1>1, VersionType
<1>3. \A u \in Threads \ {t} : Undisturbed(u)
  BY <1>2 DEF Undisturbed
<1>4. \A u \in Threads \ {t} : ThreadInv(u)'
  BY <1>1, <1>3, ThreadUndisturbed DEF ReadInv
<1>5. FilesInv'
  BY DEF ReadInv, FilesInv
<1> QED BY <1>4, <1>5 DEF ReadInv

\* Initially nothing is loaded.
LEMMA ReadInit == Init => ReadInv
<1> SUFFICES ASSUME Init PROVE ReadInv
  OBVIOUS
<1>1. PoolInv /\ TypeOK
  BY PoolInit DEF PoolInv, ITypes
<1>2. FilesInv
  BY WorldsAssumption DEF Init, FilesInv
<1>3. ASSUME NEW t \in Threads PROVE ThreadInv(t)
  <2>1. Since(t)
    BY <1>1, VersionType DEF Init, Since, Versions
  <2> QED BY <2>1 DEF Init, ThreadInv, Reading, Filled, Values, NoResult
<1> QED BY <1>1, <1>2, <1>3 DEF ReadInv

\* Somebody edits a file: a newer version is on the disk.
LEMMA RewriteKeepsReadings ==
  ASSUME ReadInv, PoolInv', NEW n \in Names, Rewrite(n) PROVE ReadInv'
<1>1. TypeOK /\ TypeOK' /\ HasContent
  BY DEF ReadInv, PoolInv, ITypes
<1>2. PICK text \in Texts :
        files' = [files EXCEPT ![n] = [name |-> n, version |-> @.version + 1, text |-> text]]
  BY DEF Rewrite
<1>3. /\ files'[n].name = n /\ files'[n].version = files[n].version + 1
      /\ \A m \in Names \ {n} : files'[m] = files[m]
  BY <1>1, <1>2 DEF TypeOK
<1>4. FilesInv'
  BY <1>3 DEF ReadInv, FilesInv
<1>5. \A m \in Names : files[m].version <= files'[m].version
  BY <1>1, <1>3, VersionType
<1>6. UNCHANGED <<world, renter, buffers, pc, next, content, result, since>>
  BY DEF Rewrite, pool, call
<1>7. ASSUME NEW u \in Threads PROVE ThreadInv(u)'
  <2>1. Undisturbed(u)
    BY <1>5, <1>6 DEF Undisturbed
  <2> QED BY <1>1, <1>6, <2>1, ThreadUndisturbed DEF ReadInv
<1> QED BY <1>4, <1>7 DEF ReadInv

\* A load starts: nothing is loaded, and the files are as they are.
LEMMA LoadItemsReads ==
  ASSUME ReadInv, PoolInv', NEW t \in Threads, NEW path \in Roots, LoadItems(t, path)
  PROVE  ReadInv'
<1>1. TypeOK /\ TypeOK' /\ ITypes'
  BY DEF ReadInv, PoolInv, ITypes
<1>2. /\ since'[t] = Versions /\ result'[t] = NoResult /\ pc'[t] = "item"
      /\ UNCHANGED <<world, files, renter, buffers, next, content>>
      /\ \A u \in Threads \ {t} : pc'[u] = pc[u] /\ result'[u] = result[u] /\ since'[u] = since[u]
  BY <1>1 DEF LoadItems, disk, pool, TypeOK
<1>3. Since(t)'
  BY <1>1, <1>2, VersionType DEF Since, Versions
<1>4. Reading(t)' /\ Filled(t)' /\ Values(t)'
  BY <1>2 DEF Reading, Filled, Values, NoResult
<1>5. ThreadInv(t)'
  BY <1>3, <1>4 DEF ThreadInv
<1> QED BY <1>1, <1>2, <1>5, OnlyThread

\* The file is read in one piece.
LEMMA ReadContentReads ==
  ASSUME ReadInv, PoolInv', NEW t \in Threads, ReadContent(t) PROVE ReadInv'
<1>1. TypeOK /\ TypeOK' /\ ITypes'
  BY DEF ReadInv, PoolInv, ITypes
<1> DEFINE n == ItemOf(t).name
<1>2. /\ pc'[t] = "rent" /\ content'[t] = files[n] /\ next[t] <= Len(world.items)
      /\ files[n] # NoFile
      /\ UNCHANGED <<world, files, renter, buffers, next, result, since>>
      /\ \A u \in Threads \ {t} : pc'[u] = pc[u] /\ content'[u] = content[u]
  BY <1>1 DEF ReadContent, HasItem, CanDeserialize, disk, pool, call, TypeOK
<1>3. n \in Names
  BY <1>1, <1>2, ItemType
<1>4. files[n].name = n /\ files[n].version >= since[t][n] /\ files[n].version <= files[n].version
  BY <1>1, <1>2, <1>3, VersionType DEF ReadInv, FilesInv, ThreadInv, Since
<1>5. Reading(t)'
  BY <1>2, <1>4 DEF Reading, ItemOf
<1>6. Since(t)' /\ Filled(t)' /\ Values(t)'
  BY <1>2 DEF ReadInv, ThreadInv, Since, Filled, Values, IsReadingOf
<1>7. ThreadInv(t)'
  BY <1>5, <1>6 DEF ThreadInv
<1> QED BY <1>1, <1>2, <1>7, OnlyThread

\* The content is copied into a buffer nobody else has.
LEMMA RentReads ==
  ASSUME ReadInv, PoolInv', NEW t \in Threads, Rent(t) PROVE ReadInv'
<1>1. TypeOK /\ TypeOK' /\ ITypes' /\ HasContent /\ BuffersComeBack
  BY DEF ReadInv, PoolInv, ITypes
<1>2. PICK b \in Buffers : /\ renter[b] = None /\ renter' = [renter EXCEPT ![b] = t]
                         /\ buffers' = [buffers EXCEPT ![b] = Copied(content[t], @)]
  BY DEF Rent, IsFree
<1>3. /\ pc[t] = "rent" /\ pc'[t] = "parse"
      /\ UNCHANGED <<world, files, next, content, result, since>>
      /\ \A u \in Threads \ {t} : pc'[u] = pc[u]
  BY <1>1 DEF Rent, disk, call, TypeOK
<1>4. /\ \A c \in Buffers \ {b} : renter'[c] = renter[c] /\ buffers'[c] = buffers[c]
      /\ renter'[b] = t
  BY <1>1, <1>2 DEF TypeOK
<1>5. ASSUME NEW c \in Buffers, renter'[c] = t, c # b PROVE FALSE
  <2>1. renter[c] = t
    BY <1>4, <1>5
  <2>2. t # None
    BY BuffersAssumption
  <2>3. pc[renter[c]] = "parse"
    BY <1>1, <2>1, <2>2 DEF BuffersComeBack
  <2> QED BY <1>3, <2>1, <2>3
<1>6. buffers'[b] = Copied(content[t], buffers[b]) /\ content[t] \in File
  BY <1>1, <1>2, <1>3 DEF TypeOK, HasContent
<1>7. Filled(t)'
  <2>1. buffers[b] \in [1..Capacity -> Cell]
    BY <1>1 DEF TypeOK
  <2>2. \A i \in DOMAIN content[t].text : buffers'[b][i] = [file |-> content[t], at |-> i]
    BY <1>6, <2>1, CopiedType
  <2>3. content'[t] = content[t]
    BY <1>3
  <2> QED BY <1>5, <2>2, <2>3 DEF Filled
<1>8. Since(t)' /\ Reading(t)' /\ Values(t)'
  BY <1>3 DEF ReadInv, ThreadInv, Since, Reading, ItemOf, Values, IsReadingOf
<1>9. ThreadInv(t)'
  BY <1>7, <1>8 DEF ThreadInv
<1>10. ASSUME NEW u \in Threads \ {t}, NEW c \in Buffers, renter'[c] = u
       PROVE  renter[c] = u /\ buffers'[c] = buffers[c]
  <2>1. c # b
    BY <1>4, <1>10
  <2> QED BY <1>4, <1>10, <2>1
<1> QED BY <1>1, <1>3, <1>9, <1>10, OnlyThread

\* The value is that of the content, and goes to the member of the item.
LEMMA DeserializeReads ==
  ASSUME ReadInv, PoolInv', NEW t \in Threads, Deserialize(t) PROVE ReadInv'
<1>1. TypeOK /\ TypeOK' /\ ITypes' /\ HasContent
  BY DEF ReadInv, PoolInv, ITypes
<1> DEFINE n == ItemOf(t).name
           file == content[t]
<1>2. PICK b \in Buffers, k \in 1..Capacity :
        /\ renter[b] = t /\ Return(b) /\ EndsAt(buffers[b], k)
        /\ result' = [result EXCEPT ![t][n] = SubSeq(buffers[b], 1, k)]
  BY DEF Deserialize
<1>3. /\ pc[t] = "parse" /\ pc'[t] = "item"
      /\ UNCHANGED <<world, files, buffers, since>>
      /\ \A u \in Threads \ {t} : pc'[u] = pc[u] /\ next'[u] = next[u] /\ content'[u] = content[u]
  BY <1>1 DEF Deserialize, disk, call, TypeOK
<1>4. \A c \in Buffers, u \in Threads : renter'[c] = u => renter[c] = u
  BY <1>1, <1>2, BuffersAssumption DEF Return, TypeOK
<1>5. /\ next[t] <= Len(world.items) /\ file.name = n
      /\ file.version >= since[t][n] /\ file.version <= files[n].version
      /\ \A i \in DOMAIN file.text : buffers[b][i] = [file |-> file, at |-> i]
  BY <1>2, <1>3 DEF ReadInv, ThreadInv, Reading, Filled
<1>6. n \in Names /\ file \in File
  BY <1>1, <1>3, <1>5, ItemType DEF HasContent
<1> DEFINE value == SubSeq(buffers[b], 1, k)
<1>7. /\ k >= Len(file.text) /\ (IsDelimited(file.text) => k = Len(file.text))
      /\ Len(value) = k /\ \A i \in 1..k : value[i] = buffers[b][i]
  <2>1. buffers[b] \in [1..Capacity -> Cell]
    BY <1>1 DEF TypeOK
  <2>2. k >= Len(file.text) /\ (IsDelimited(file.text) => k = Len(file.text))
    <3> HIDE DEF file, n
    <3> QED BY <1>2, <1>5, <1>6, <2>1, ValueCoversText
  <2>3. Len(value) = k /\ \A i \in 1..k : value[i] = buffers[b][i]
    BY <2>1, SubSeqType
  <2> QED BY <2>2, <2>3
<1>8. /\ DOMAIN file.text = 1..Len(file.text) /\ Len(file.text) \in 1..Capacity
      /\ Capacity \in Nat /\ file.version \in Nat
  BY <1>6, FileFacts, CapacityAssumption
<1>9. IsReadingBetween(value, n, since[t][n], files[n].version)
  <2>1. \A i \in DOMAIN file.text : value[i] = [file |-> file, at |-> i]
    BY <1>5, <1>7, <1>8
  <2>2. value[1].file = file
    <3>1. 1 \in DOMAIN file.text
      BY <1>8
    <3>2. value[1] = [file |-> file, at |-> 1]
      BY <2>1, <3>1
    <3> QED BY <3>2
  <2>3. file.version \in since[t][n] .. files[n].version
    BY <1>1, <1>5, <1>6, <1>8, VersionType
  <2> HIDE DEF value, file, n
  <2> QED BY <1>5, <1>7, <2>1, <2>2, <2>3 DEF IsReadingBetween
<1>10. /\ result'[t][n] = value
       /\ \A m \in Names \ {n} : result'[t][m] = result[t][m]
       /\ \A u \in Threads \ {t} : result'[u] = result[u]
  BY <1>1, <1>2, <1>6 DEF TypeOK
<1>11. Values(t)'
  <2> SUFFICES ASSUME NEW m \in Names, result'[t][m] # Unset
               PROVE  IsReadingBetween(result'[t][m], m, since'[t][m], files'[m].version)
    BY DEF Values, IsReadingOf, IsReadingBetween
  <2>1. CASE m = n
    <3>1. result'[t][m] = value
      BY <1>10, <2>1
    <3> HIDE DEF value, file, n
    <3> QED BY <1>3, <1>9, <2>1, <3>1
  <2>2. CASE m # n
    <3>1. result'[t][m] = result[t][m]
      BY <1>10, <2>2
    <3>2. IsReadingBetween(result[t][m], m, since[t][m], files[m].version)
      BY <3>1 DEF ReadInv, ThreadInv, Values, IsReadingOf, IsReadingBetween
    <3> QED BY <1>3, <3>1, <3>2
  <2> QED BY <2>1, <2>2
<1>12. Since(t)' /\ Reading(t)' /\ Filled(t)'
  BY <1>3 DEF ReadInv, ThreadInv, Since, Reading, Filled
<1>13. ThreadInv(t)'
  BY <1>11, <1>12 DEF ThreadInv
<1> QED BY <1>1, <1>3, <1>4, <1>10, <1>13, OnlyThread

\* A step of t that ends a load, or does not belong to one, and may return the
\* buffer t parses in.
LEMMA EndingReads ==
  ASSUME ReadInv, PoolInv', NEW t \in Threads, UNCHANGED <<world, files, buffers, since>>,
         pc'[t] \notin {"rent", "parse"}, result'[t] \in {NoResult, result[t]},
         \A c \in Buffers : renter'[c] \in {None, renter[c]},
         \A u \in Threads \ {t} :
           pc'[u] = pc[u] /\ next'[u] = next[u] /\ content'[u] = content[u] /\ result'[u] = result[u]
  PROVE  ReadInv'
<1>1. TypeOK /\ TypeOK' /\ ITypes'
  BY DEF ReadInv, PoolInv, ITypes
<1>2. ThreadInv(t)'
  BY <1>1, ThreadResets DEF ReadInv
<1>3. None \notin Threads
  BY BuffersAssumption
<1>4. \A u \in Threads, c \in Buffers : renter'[c] = u => renter[c] = u
  BY <1>3
<1> QED BY <1>1, <1>2, <1>4, OnlyThread

\* A step of whoever holds a file open, or no step.
LEMMA ReadingsUntouched ==
  ASSUME ReadInv, PoolInv',
         UNCHANGED <<world, files, renter, buffers, pc, next, content, result, since>>
  PROVE  ReadInv'
<1>1. FilesInv'
  BY DEF ReadInv, FilesInv
<1>2. ASSUME NEW u \in Threads PROVE ThreadInv(u)'
  <2>1. ThreadInv(u)
    BY DEF ReadInv
  <2> QED BY <2>1 DEF ThreadInv, Since, Reading, ItemOf, Filled, Values, IsReadingOf
<1> QED BY <1>1, <1>2 DEF ReadInv

\* Every step keeps what is known of the readings.
LEMMA ReadNext == ReadInv /\ [Next]_vars => ReadInv'
<1> SUFFICES ASSUME ReadInv, [Next]_vars PROVE ReadInv'
  OBVIOUS
<1>0. PoolInv' /\ TypeOK
  BY PoolNext DEF ReadInv, PoolInv, ITypes
<1>1. ASSUME NEW n \in Names, Rewrite(n) PROVE ReadInv'
  BY <1>0, <1>1, RewriteKeepsReadings
<1>a. ASSUME NEW n \in Names, Hold(n) \/ Release(n) PROVE ReadInv'
  <2>1. UNCHANGED <<world, files, renter, buffers, pc, next, content, result, since>>
    BY <1>a DEF Hold, Release, pool, call
  <2> QED BY <1>0, <2>1, ReadingsUntouched
<1>2. ASSUME NEW t \in Threads, Initialize(t) PROVE ReadInv'
  BY <1>0, <1>2, EndingReads DEF Initialize, TypeOK, disk, pool, call
<1>3. ASSUME NEW t \in Threads, RegisterAndSetAsDefault(t) PROVE ReadInv'
  BY <1>0, <1>3, EndingReads DEF RegisterAndSetAsDefault, TypeOK, disk, pool, call
<1>4. ASSUME NEW t \in Threads, Early(t) PROVE ReadInv'
  <2>1. PICK how \in Endings : EndEarly(t, how)
    BY <1>4, EarlyEnds
  <2>2. /\ pc[t] = "idle" /\ result'[t] = NoResult
        /\ \A u \in Threads \ {t} : result'[u] = result[u]
        /\ UNCHANGED <<world, files, renter, buffers, since, pc, next, content>>
    BY <1>0, <2>1 DEF EndEarly, Call, TypeOK, disk, pool
  <2> QED BY <1>0, <2>2, EndingReads
<1>6. ASSUME NEW t \in Threads, NEW path \in Roots, LoadItems(t, path) PROVE ReadInv'
  BY <1>0, <1>6, LoadItemsReads
<1>7. ASSUME NEW t \in Threads, LoadFails(t) PROVE ReadInv'
  BY <1>0, <1>7, EndingReads DEF LoadFails, EndLoad, TypeOK, disk, pool, call
<1>8. ASSUME NEW t \in Threads, ReadContent(t) PROVE ReadInv'
  BY <1>0, <1>8, ReadContentReads
<1>9. ASSUME NEW t \in Threads, Rent(t) PROVE ReadInv'
  BY <1>0, <1>9, RentReads
<1>10. ASSUME NEW t \in Threads, Deserialize(t) PROVE ReadInv'
  BY <1>0, <1>10, DeserializeReads
<1>11. ASSUME NEW t \in Threads, DeserializeFails(t) PROVE ReadInv'
  <2>1. \A c \in Buffers : renter'[c] \in {None, renter[c]}
    BY <1>0, <1>11 DEF DeserializeFails, Return, TypeOK
  <2> QED BY <1>0, <1>11, <2>1, EndingReads DEF DeserializeFails, EndLoad, TypeOK, disk, call
<1>12. ASSUME NEW t \in Threads, ReturnResult(t) PROVE ReadInv'
  BY <1>0, <1>12, EndingReads DEF ReturnResult, EndLoad, TypeOK, disk, pool, call
<1>13. CASE UNCHANGED vars
  <2>1. UNCHANGED <<world, files, renter, buffers, pc, next, content, result, since>>
    BY <1>13 DEF vars, disk, pool, call
  <2> QED BY <1>0, <2>1, ReadingsUntouched
<1> QED
  BY <1>1, <1>a, <1>2, <1>3, <1>4, <1>6, <1>7, <1>8, <1>9, <1>10, <1>11, <1>12, <1>13
  DEF Next, Load, Early

\* Whatever buffers held before, and whoever edits the files, a load makes of an
\* item what the item's own file said: ValuesFromOwnFile.
THEOREM OwnFile == Spec => []ValuesFromOwnFile
<1>1. ReadInv => ValuesFromOwnFile
  BY DEF ReadInv, ThreadInv, Values, ValuesFromOwnFile
<1> QED BY ReadInit, ReadNext, <1>1, PTL DEF Spec

-----------------------------------------------------------------------------
(* Why loads fail.                                                         *)

\* A number that starts a buffer ends in it.
LEMMA NumberEnds ==
  ASSUME NEW cells, Capacity \in Nat, 1 <= Capacity, Byte(cells[1]) = "digit"
  PROVE  \E k \in 1..Capacity : EndsAt(cells, k)
<1> DEFINE D == {k \in 1..Capacity : \A i \in 1..k : Byte(cells[i]) = "digit"}
           successor == [k \in D |-> k + 1]
<1>1. SUFFICES ASSUME \A k \in 1..Capacity : ~EndsAt(cells, k) PROVE FALSE
  OBVIOUS
<1>2. 1 \in D
  OBVIOUS
<1>3. ASSUME NEW k \in D PROVE k + 1 \in D
  <2>1. k # Capacity /\ Byte(cells[k + 1]) = "digit"
    BY <1>1 DEF EndsAt
  <2>2. \A i \in 1..(k + 1) : i \in 1..k \/ i = k + 1
    OBVIOUS
  <2> QED BY <2>1, <2>2
<1>4. IsFiniteSet(D)
  <2>1. IsFiniteSet(1..Capacity) /\ D \in SUBSET (1..Capacity)
    BY FS_Interval
  <2> HIDE DEF D
  <2> QED BY <2>1, FS_Subset
<1>5. successor \in Injection(D, D)
  BY <1>3 DEF Injection, IsInjective
<1>6. successor \in Surjection(D, D)
  <2> HIDE DEF D, successor
  <2> QED BY <1>4, <1>5, FS_Injection
<1>7. PICK k \in D : successor[k] = 1
  BY <1>2, <1>6 DEF Surjection
<1> QED BY <1>7

\* A file that fits the member of its item is parsed, and the member can hold it.
LEMMA FittingIsParsed ==
  ASSUME NEW cells \in [1..Capacity -> Cell], NEW file \in File, NEW kind, Fits(kind, file),
         \A i \in DOMAIN file.text : cells[i] = [file |-> file, at |-> i]
  PROVE  /\ \E k \in 1..Capacity : EndsAt(cells, k)
         /\ Byte(cells[1]) = "digit" => kind = "object"
         /\ IsDelimited(file.text) \/ IsNumber(file.text)
         /\ kind # "readonly"
<1> DEFINE text == file.text
<1>1. /\ Len(text) \in 1..Capacity /\ Capacity \in Nat /\ 1 <= Capacity
      /\ DOMAIN text = 1..Len(text)
      /\ IsNumber(text) \/ (text[1] = "open" /\ \A i \in DOMAIN text : text[i] = "close" => i = Len(text))
  BY FileFacts, TextsAssumption, CapacityAssumption DEF File
<1>2. \A i \in 1..Len(text) : Byte(cells[i]) = text[i]
  <2> SUFFICES ASSUME NEW i \in 1..Len(text) PROVE Byte(cells[i]) = text[i]
    OBVIOUS
  <2>1. i \in 1..Capacity /\ cells[i] = [file |-> file, at |-> i]
    BY <1>1
  <2>2. cells[i] # Zero
    BY <2>1, FileFacts
  <2> QED BY <2>1, <2>2 DEF Byte
<1>3. CASE IsNumber(text)
  <2>1. ~IsDelimited(text) /\ Byte(cells[1]) = "digit"
    BY <1>1, <1>2, <1>3 DEF IsNumber, IsDelimited
  <2>2. kind = "object"
    BY <2>1 DEF Fits
  <2>3. \E k \in 1..Capacity : EndsAt(cells, k)
    BY <1>1, <2>1, NumberEnds
  <2> QED BY <1>3, <2>2, <2>3
<1>4. CASE ~IsNumber(text)
  <2>1. IsDelimited(text) /\ kind # "readonly"
    BY <1>4 DEF Fits
  <2>2. Byte(cells[1]) = "open"
    BY <1>1, <1>2, <1>4
  <2>3. EndsAt(cells, Len(text))
    <3>1. Byte(cells[Len(text)]) = "close"
      BY <1>1, <1>2, <2>1 DEF IsDelimited
    <3>2. \A i \in 1..(Len(text) - 1) : Byte(cells[i]) # "close"
      BY <1>1, <1>2, <1>4
    <3> QED BY <2>2, <3>1, <3>2 DEF EndsAt
  <2> QED BY <1>1, <2>1, <2>2, <2>3
<1> QED BY <1>3, <1>4

\* A file that does not fit its member now has not always fitted it, one that is
\* held open has been so, and what a call has read has not always fitted if it
\* does not fit.
MisfitInv ==
  /\ \A n \in Names : n \in held \/ ~Fits(world.member[n], files[n]) => n \in misfits
  /\ \A t \in Threads :
       pc[t] \in {"rent", "parse"} /\ ~Fits(KindOf(t), content[t]) => ItemOf(t).name \in misfits

\* While a load goes on, the items it has passed have values and it has no outcome.
Passed(t) ==
  /\ pc[t] \in {"idle", "registering"} => next[t] = 1
  /\ pc[t] \notin {"idle", "registering"} =>
       /\ outcome[t] = None
       /\ \A i \in DOMAIN world.items : i < next[t] => result[t][world.items[i].name] # Unset

Complete(t) ==
  outcome[t] = "returned" => \A i \in DOMAIN world.items : result[t][world.items[i].name] # Unset

HasCause ==
  \E i \in DOMAIN world.items :
    \/ world.items[i].encoding # "Json"
    \/ world.items[i].name \in misfits
    \/ world.member[world.items[i].name] = "collection"
Caused(t) == outcome[t] = "threw" => HasCause

OutcomeInv == MisfitInv /\ \A t \in Threads : Passed(t) /\ Complete(t) /\ Caused(t)

\* A load that fails has a cause: the item it is at.
LEMMA FailureHasCause ==
  ASSUME TypeOK, ReadInv, MisfitInv, NEW t \in Threads,
         \/ HasItem(t) /\ ~CanDeserialize(t)
         \/ pc[t] = "parse" /\ \E b \in Buffers : renter[b] = t /\ MayThrow(t, buffers[b])
  PROVE  HasCause
<1>1. next[t] <= Len(world.items)
  BY DEF HasItem, ReadInv, ThreadInv, Reading
<1>2. /\ world.items \in Seq(DataSetItem) /\ next[t] \in DOMAIN world.items
      /\ ItemOf(t).name \in Names
  BY <1>1, ItemType DEF TypeOK, World
<1>3. SUFFICES \/ ItemOf(t).encoding # "Json"
               \/ ItemOf(t).name \in misfits
               \/ KindOf(t) = "collection"
  BY <1>2 DEF HasCause, ItemOf, KindOf
<1>4. CASE HasItem(t) /\ ~CanDeserialize(t)
  BY <1>2, <1>4 DEF CanDeserialize, MisfitInv, Fits, KindOf
<1>5. CASE pc[t] = "parse" /\ \E b \in Buffers : renter[b] = t /\ MayThrow(t, buffers[b])
  <2>1. PICK b \in Buffers : renter[b] = t /\ MayThrow(t, buffers[b])
    BY <1>5
  <2>2. /\ content[t] \in File /\ buffers[b] \in [1..Capacity -> Cell]
        /\ \A i \in DOMAIN content[t].text : buffers[b][i] = [file |-> content[t], at |-> i]
    BY <1>5, <2>1 DEF ReadInv, PoolInv, ITypes, HasContent, TypeOK, ThreadInv, Filled
  <2>3. CASE Fits(KindOf(t), content[t])
    <3>1. /\ \E k \in 1..Capacity : EndsAt(buffers[b], k)
          /\ Byte(buffers[b][1]) = "digit" => KindOf(t) = "object"
          /\ IsDelimited(content[t].text) \/ IsNumber(content[t].text)
          /\ KindOf(t) # "readonly"
      BY <2>2, <2>3, FittingIsParsed
    <3> QED BY <2>1, <3>1 DEF MayThrow, CanHold
  <2>4. CASE ~Fits(KindOf(t), content[t])
    BY <1>5, <2>4 DEF MisfitInv
  <2> QED BY <2>3, <2>4
<1> QED BY <1>4, <1>5

\* A step of t alone.
LEMMA OnlyOutcomeOf ==
  ASSUME OutcomeInv, NEW t \in Threads, UNCHANGED <<world, files, held, misfits>>,
         \A u \in Threads \ {t} : /\ pc'[u] = pc[u] /\ next'[u] = next[u] /\ content'[u] = content[u]
                                  /\ result'[u] = result[u] /\ outcome'[u] = outcome[u],
         Passed(t)', Complete(t)', Caused(t)',
         pc'[t] \in {"rent", "parse"} /\ ~Fits(KindOf(t)', content'[t]) => ItemOf(t).name' \in misfits
  PROVE  OutcomeInv'
<1>1. ASSUME NEW u \in Threads \ {t} PROVE Passed(u)' /\ Complete(u)' /\ Caused(u)'
  BY DEF OutcomeInv, Passed, Complete, Caused, HasCause
<1>2. ASSUME NEW u \in Threads, pc'[u] \in {"rent", "parse"}, ~Fits(KindOf(u)', content'[u])
      PROVE  ItemOf(u).name' \in misfits'
  <2>1. CASE u = t
    BY <1>2, <2>1
  <2>2. CASE u # t
    BY <1>2, <2>2 DEF OutcomeInv, MisfitInv, KindOf, ItemOf
  <2> QED BY <2>1, <2>2
<1>3. \A n \in Names : n \in held' \/ ~Fits(world'.member[n], files'[n]) => n \in misfits'
  BY DEF OutcomeInv, MisfitInv
<1>4. MisfitInv'
  BY <1>2, <1>3 DEF MisfitInv
<1> QED BY <1>1, <1>4 DEF OutcomeInv

\* A load of t ends: with a cause, or with a value for every item.
LEMMA EndingHasOutcome ==
  ASSUME OutcomeInv, TypeOK, NEW t \in Threads, NEW how \in {"returned", "threw"}, EndLoad(t, how),
         UNCHANGED <<world, files, held, misfits>>,
         how = "threw" => HasCause,
         how = "returned" =>
           \A i \in DOMAIN world.items : result[t][world.items[i].name] # Unset
  PROVE  OutcomeInv'
<1>1. /\ pc'[t] = "idle" /\ next'[t] = 1 /\ outcome'[t] = how
      /\ how = "returned" => result' = result
      /\ \A u \in Threads \ {t} : /\ pc'[u] = pc[u] /\ next'[u] = next[u] /\ content'[u] = content[u]
                                  /\ result'[u] = result[u] /\ outcome'[u] = outcome[u]
  BY DEF EndLoad, TypeOK
<1>2. Passed(t)'
  BY <1>1 DEF Passed
<1>3. Complete(t)' /\ Caused(t)'
  BY <1>1 DEF Complete, Caused, HasCause
<1> QED BY <1>1, <1>2, <1>3, OnlyOutcomeOf

\* A step of t in which no load of t is in progress before or after.
LEMMA IdleHasOutcome ==
  ASSUME OutcomeInv, TypeOK, NEW t \in Threads, UNCHANGED <<world, files, held, misfits, next, content>>,
         pc[t] \in {"idle", "registering"}, pc'[t] \in {"idle", "registering"},
         \/ outcome'[t] \in Endings \ {"returned", "threw"}
         \/ outcome'[t] = outcome[t] /\ result'[t] = result[t],
         \A u \in Threads \ {t} :
           pc'[u] = pc[u] /\ result'[u] = result[u] /\ outcome'[u] = outcome[u]
  PROVE  OutcomeInv'
<1>1. Passed(t)'
  BY DEF OutcomeInv, Passed
<1>2. Complete(t)' /\ Caused(t)'
  BY DEF OutcomeInv, Complete, Caused, HasCause
<1> QED BY <1>1, <1>2, OnlyOutcomeOf

LEMMA OutcomeInit == Init => OutcomeInv
<1> SUFFICES ASSUME Init PROVE OutcomeInv
  OBVIOUS
<1>1. \A t \in Threads : pc[t] = "idle" /\ next[t] = 1 /\ outcome[t] = None
  BY DEF Init
<1>2. \A t \in Threads : Passed(t) /\ Complete(t) /\ Caused(t)
  BY <1>1 DEF Passed, Complete, Caused, None
<1>3. MisfitInv
  BY <1>1 DEF MisfitInv, Init
<1> QED BY <1>2, <1>3 DEF OutcomeInv

\* Every step keeps what is known of outcomes.
LEMMA OutcomeNext == ReadInv /\ OutcomeInv /\ [Next]_vars => OutcomeInv'
<1> SUFFICES ASSUME ReadInv, OutcomeInv, [Next]_vars PROVE OutcomeInv'
  OBVIOUS
<1>0. TypeOK /\ MisfitInv /\ \A t \in Threads : Passed(t)
  BY DEF ReadInv, PoolInv, ITypes, OutcomeInv
<1>1. ASSUME NEW n \in Names, Rewrite(n) PROVE OutcomeInv'
  <2>1. /\ misfits' = misfits \cup {m \in Names : ~Fits(world.member[m], files'[m])}
        /\ UNCHANGED <<world, held, pc, next, content, result, outcome>>
    BY <1>1 DEF Rewrite
  <2>2. ASSUME NEW t \in Threads PROVE Passed(t)' /\ Complete(t)' /\ Caused(t)'
    BY <2>1 DEF OutcomeInv, Passed, Complete, Caused, HasCause
  <2>3. ASSUME NEW t \in Threads, pc'[t] \in {"rent", "parse"}, ~Fits(KindOf(t)', content'[t])
        PROVE  ItemOf(t).name' \in misfits'
    BY <1>0, <2>1, <2>3 DEF MisfitInv, KindOf, ItemOf
  <2>4. \A m \in Names : m \in held' \/ ~Fits(world'.member[m], files'[m]) => m \in misfits'
    BY <1>0, <2>1 DEF MisfitInv
  <2> QED BY <2>2, <2>3, <2>4 DEF OutcomeInv, MisfitInv
<1>a. ASSUME NEW n \in Names, Hold(n) \/ Release(n) PROVE OutcomeInv'
  <2>1. /\ misfits \subseteq misfits' /\ held' \subseteq held \cup misfits'
        /\ UNCHANGED <<world, files, pc, next, content, result, outcome>>
    BY <1>a DEF Hold, Release
  <2>2. ASSUME NEW t \in Threads PROVE Passed(t)' /\ Complete(t)' /\ Caused(t)'
    BY <2>1 DEF OutcomeInv, Passed, Complete, Caused, HasCause
  <2>3. ASSUME NEW t \in Threads, pc'[t] \in {"rent", "parse"}, ~Fits(KindOf(t)', content'[t])
        PROVE  ItemOf(t).name' \in misfits'
    BY <1>0, <2>1, <2>3 DEF MisfitInv, KindOf, ItemOf
  <2>4. \A m \in Names : m \in held' \/ ~Fits(world'.member[m], files'[m]) => m \in misfits'
    BY <1>0, <2>1 DEF MisfitInv
  <2> QED BY <2>2, <2>3, <2>4 DEF OutcomeInv, MisfitInv
<1>2. ASSUME NEW t \in Threads, Initialize(t) PROVE OutcomeInv'
  BY <1>0, <1>2, IdleHasOutcome DEF Initialize, TypeOK, disk
<1>3. ASSUME NEW t \in Threads, RegisterAndSetAsDefault(t) PROVE OutcomeInv'
  BY <1>0, <1>3, IdleHasOutcome DEF RegisterAndSetAsDefault, TypeOK, disk
<1>4. ASSUME NEW t \in Threads, Early(t) PROVE OutcomeInv'
  <2>1. PICK how \in Endings \ {"returned", "threw"} : EndEarly(t, how)
    BY <1>4, EarlyEnds
  <2>2. /\ pc[t] = "idle" /\ outcome'[t] = how
        /\ \A u \in Threads \ {t} : result'[u] = result[u] /\ outcome'[u] = outcome[u]
        /\ UNCHANGED <<world, files, held, misfits, pc, next, content>>
    BY <1>0, <2>1 DEF EndEarly, Call, TypeOK, disk
  <2> QED BY <1>0, <2>2, IdleHasOutcome
<1>6. ASSUME NEW t \in Threads, NEW path \in Roots, LoadItems(t, path) PROVE OutcomeInv'
  <2>1. /\ pc[t] = "idle" /\ pc'[t] = "item" /\ outcome'[t] = None
        /\ UNCHANGED <<world, files, held, misfits, next, content>>
        /\ \A u \in Threads \ {t} :
             pc'[u] = pc[u] /\ result'[u] = result[u] /\ outcome'[u] = outcome[u]
    BY <1>0, <1>6 DEF LoadItems, Call, TypeOK, disk
  <2>2. next'[t] = 1 /\ DOMAIN world.items \subseteq Nat \ {0}
    BY <1>0, <2>1 DEF Passed, TypeOK, World
  <2>3. Passed(t)' /\ Complete(t)' /\ Caused(t)'
    BY <2>1, <2>2 DEF Passed, Complete, Caused, None
  <2> QED BY <2>1, <2>3, OnlyOutcomeOf
<1>7. ASSUME NEW t \in Threads, LoadFails(t) PROVE OutcomeInv'
  <2>1. HasCause
    BY <1>0, <1>7, FailureHasCause DEF LoadFails
  <2> QED BY <1>0, <1>7, <2>1, EndingHasOutcome DEF LoadFails, disk
<1>8. ASSUME NEW t \in Threads, ReadContent(t) PROVE OutcomeInv'
  <2>1. /\ pc[t] = "item" /\ pc'[t] = "rent" /\ content'[t] = files[ItemOf(t).name]
        /\ next[t] <= Len(world.items)
        /\ UNCHANGED <<world, files, held, misfits, next, result, outcome>>
        /\ \A u \in Threads \ {t} : pc'[u] = pc[u] /\ content'[u] = content[u]
    BY <1>0, <1>8 DEF ReadContent, HasItem, TypeOK, disk
  <2>2. ItemOf(t).name \in Names
    BY <1>0, <2>1, ItemType
  <2>3. ~Fits(KindOf(t)', content'[t]) => ItemOf(t).name' \in misfits
    BY <1>0, <2>1, <2>2 DEF MisfitInv, KindOf, ItemOf
  <2>4. Passed(t)' /\ Complete(t)' /\ Caused(t)'
    BY <2>1 DEF OutcomeInv, Passed, Complete, Caused, HasCause
  <2> QED BY <2>1, <2>3, <2>4, OnlyOutcomeOf
<1>9. ASSUME NEW t \in Threads, Rent(t) PROVE OutcomeInv'
  <2>1. /\ pc[t] = "rent" /\ pc'[t] = "parse"
        /\ UNCHANGED <<world, files, held, misfits, next, content, result, outcome>>
        /\ \A u \in Threads \ {t} : pc'[u] = pc[u]
    BY <1>0, <1>9 DEF Rent, TypeOK, disk
  <2>2. ~Fits(KindOf(t)', content'[t]) => ItemOf(t).name' \in misfits
    BY <1>0, <2>1 DEF MisfitInv, KindOf, ItemOf
  <2>3. Passed(t)' /\ Complete(t)' /\ Caused(t)'
    BY <2>1 DEF OutcomeInv, Passed, Complete, Caused, HasCause
  <2> QED BY <2>1, <2>2, <2>3, OnlyOutcomeOf
<1>10. ASSUME NEW t \in Threads, Deserialize(t) PROVE OutcomeInv'
  <2>1. PICK b \in Buffers, k \in 1..Capacity :
          result' = [result EXCEPT ![t][ItemOf(t).name] = SubSeq(buffers[b], 1, k)]
    BY <1>10 DEF Deserialize
  <2>2. /\ pc[t] = "parse" /\ pc'[t] = "item" /\ next'[t] = next[t] + 1
        /\ UNCHANGED <<world, files, held, misfits, outcome>>
        /\ \A u \in Threads \ {t} :
             pc'[u] = pc[u] /\ next'[u] = next[u] /\ content'[u] = content[u]
    BY <1>0, <1>10 DEF Deserialize, TypeOK, disk
  <2>3. next[t] <= Len(world.items) /\ ItemOf(t).name \in Names
    BY <1>0, <2>2, ItemType DEF ReadInv, ThreadInv, Reading
  <2>4. /\ result'[t][ItemOf(t).name] # Unset
        /\ \A n \in Names \ {ItemOf(t).name} : result'[t][n] = result[t][n]
        /\ \A u \in Threads \ {t} : result'[u] = result[u]
    <3>1. SubSeq(buffers[b], 1, k) # << >>
      BY <1>0, SubSeqType DEF TypeOK
    <3> QED BY <1>0, <2>1, <2>3, <3>1 DEF TypeOK, Unset
  <2>5. ASSUME NEW i \in DOMAIN world.items, i < next[t] + 1
        PROVE  result'[t][world.items[i].name] # Unset
    <3>0. world.items \in Seq(DataSetItem)
      BY <1>0 DEF TypeOK, World
    <3>1. world.items[i].name \in Names /\ i \in Nat /\ next[t] \in Nat
      <4>1. world.items[i] \in DataSetItem /\ i \in Nat
        BY <3>0
      <4> QED BY <1>0, <4>1 DEF TypeOK, DataSetItem
    <3>2. CASE world.items[i].name = ItemOf(t).name
      BY <2>4, <3>2
    <3>3. CASE world.items[i].name # ItemOf(t).name
      <4>1. i < next[t]
        BY <2>5, <3>1, <3>3 DEF ItemOf
      <4> QED BY <1>0, <2>2, <2>4, <3>1, <3>3, <4>1 DEF Passed
    <3> QED BY <3>2, <3>3
  <2>6. outcome[t] = None
    BY <1>0, <2>2 DEF Passed
  <2>7. Passed(t)' /\ Complete(t)' /\ Caused(t)'
    BY <2>2, <2>5, <2>6 DEF Passed, Complete, Caused, None
  <2> QED BY <2>2, <2>4, <2>7, OnlyOutcomeOf
<1>11. ASSUME NEW t \in Threads, DeserializeFails(t) PROVE OutcomeInv'
  <2>1. HasCause
    BY <1>0, <1>11, FailureHasCause DEF DeserializeFails
  <2> QED BY <1>0, <1>11, <2>1, EndingHasOutcome DEF DeserializeFails, disk
<1>12. ASSUME NEW t \in Threads, ReturnResult(t) PROVE OutcomeInv'
  <2>1. \A i \in DOMAIN world.items : i < next[t]
    BY <1>0, <1>12 DEF ReturnResult, TypeOK, World
  <2>2. \A i \in DOMAIN world.items : result[t][world.items[i].name] # Unset
    BY <1>0, <1>12, <2>1 DEF ReturnResult, Passed
  <2> QED BY <1>0, <1>12, <2>2, EndingHasOutcome DEF ReturnResult, disk
<1>13. CASE UNCHANGED vars
  BY <1>13 DEF vars, disk, OutcomeInv, MisfitInv, Passed, Complete, Caused, HasCause, KindOf, ItemOf
<1> QED
  BY <1>1, <1>a, <1>2, <1>3, <1>4, <1>6, <1>7, <1>8, <1>9, <1>10, <1>11, <1>12, <1>13
  DEF Next, Load, Early

\* Whatever fails, however threads and edits interleave: a load hands out an
\* object with every item, or throws for an item that cannot be loaded.
THEOREM Outcomes == Spec => []AllOrNothing
<1>1. OutcomeInv => AllOrNothing
  BY DEF OutcomeInv, Complete, Caused, HasCause, AllOrNothing
<1> QED BY ReadInit, ReadNext, OutcomeInit, OutcomeNext, <1>1, PTL DEF Spec
=============================================================================
