------------------------ MODULE OfflineMetadataRows -------------------------
(***************************************************************************)
(* What holds of the committed rows for any objects, requests, runs and    *)
(* number of changes of the source.  StoreInv joins three parts:           *)
(*  - StoreRows: identifiers are unique, every row hangs in its place in   *)
(*    the tree of one databases row, and no table is without a column;     *)
(*  - Numbered: rows carry the numbers of requests that have committed;    *)
(*  - SavesInv: the inserts of a saving request hang under each other or   *)
(*    under rows it found, and all that is below an insert is an insert.   *)
(***************************************************************************)
EXTENDS OfflineMetadataTypes

(* The rows of the store: identifiers are unique, every row hangs under the *)
(* row it is part of in the source, in the tree of one databases row, its   *)
(* samples are a list, and no table is without a column.                    *)

Rooted == \A x \in store : \E d \in store : d.id = x.root /\ d.root = d.id

Placed(x, rows) ==
  IF Name(x) = DatabaseName
  THEN x.parent = NoRow /\ x.root = x.id
  ELSE \E y \in rows : y.id = x.parent /\ y.root = x.root /\ Name(y) = Parent[Name(x)]

AllPlaced == \A x \in store : Placed(x, store)

AllListed == \A x \in store : x.facts.listed

StoreRows == UniqueIds /\ Rooted /\ AllPlaced /\ AllListed /\ NoHalfTables

(* The new rows of a transaction, beside the rows it keeps.                 *)
NewRight(new, kept) ==
  /\ \A x, y \in new : x.id = y.id => x = y
  /\ \A x \in new, y \in store : x.id # y.id
  /\ \A x \in new :
       /\ \E d \in new \union kept : d.id = x.root /\ d.root = d.id
       /\ Placed(x, new \union kept)
       /\ x.facts.listed
       /\ Name(x) \in Tables => \E y \in new : y.parent = x.id

LEMMA StoreMoves ==
  ASSUME StoreRows, store \in SUBSET Row, NEW D, NEW new, NEW upd,
         RowsMove(WithoutTrees(store, D), new, upd),
         NewRight(new, WithoutTrees(store, D)),
         \A i \in DOMAIN upd : upd[i].listed
  PROVE  StoreRows'
<1> DEFINE kept == WithoutTrees(store, D)
<1>1. /\ \A y \in store' : y \in new \/ \E x \in kept : Same(x, y, upd)
      /\ \A x \in kept : \E y \in store' : Same(x, y, upd)
      /\ new \subseteq store'
      /\ \A y, z \in store' \ new : y.id = z.id => y = z
  BY DEF RowsMove
<1>2. \A x : x \in kept <=> x \in store /\ x.root \notin D
  BY DEF WithoutTrees
<1>3. /\ \A x, y \in new : x.id = y.id => x = y
      /\ \A x \in new, y \in store : x.id # y.id
      /\ \A x \in new :
           /\ \E d \in new \union kept : d.id = x.root /\ d.root = d.id
           /\ Placed(x, new \union kept)
           /\ x.facts.listed
           /\ Name(x) \in Tables => \E y \in new : y.parent = x.id
  BY DEF NewRight
<1>4. /\ \A x, y \in store : x.id = y.id => x = y
      /\ \A x \in store : \E d \in store : d.id = x.root /\ d.root = d.id
      /\ \A x \in store : Placed(x, store)
      /\ \A x \in store : x.facts.listed
      /\ \A x \in store : Name(x) \in Tables => \E y \in store : y.parent = x.id
  BY DEF StoreRows, UniqueIds, Rooted, AllPlaced, AllListed, NoHalfTables,
         RowsNamed, ChildrenOf
<1> HIDE DEF kept
(* Every row of new and kept has its image in the store.                    *)
<1>5. ASSUME NEW x \in new \union kept
      PROVE  \E y \in store' : /\ y.id = x.id /\ y.parent = x.parent
                               /\ y.root = x.root /\ Name(y) = Name(x)
  BY <1>1 DEF Same, Name
<1>6. ASSUME NEW y \in store'
      PROVE  \E x \in new \union kept :
               /\ y.id = x.id /\ y.parent = x.parent /\ y.root = x.root
               /\ Name(y) = Name(x)
               /\ x \in new => y = x
               /\ x \notin new => Same(x, y, upd)
  <2>1. CASE y \in new
    BY <2>1
  <2>2. CASE y \notin new
    <3>1. PICK x \in kept : Same(x, y, upd)
      BY <1>1, <2>2
    <3>2. x \notin new
      BY <1>2, <1>3
    <3> QED
      BY <3>1, <3>2 DEF Same, Name
  <2> QED
    BY <2>1, <2>2
(* What stands to a kept row in the store is kept too.                      *)
<1>7. ASSUME NEW x \in kept
      PROVE  /\ \E d \in kept : d.id = x.root /\ d.root = d.id
             /\ Placed(x, kept)
             /\ Name(x) \in Tables => \E y \in kept : y.parent = x.id
  <2>1. x \in store /\ x.root \notin D
    BY <1>2
  <2>2. \E d \in kept : d.id = x.root /\ d.root = d.id
    BY <1>2, <1>4, <2>1
  <2>3. Placed(x, kept)
    <3>1. CASE Name(x) = DatabaseName
      BY <1>4, <2>1, <3>1 DEF Placed
    <3>2. CASE Name(x) # DatabaseName
      BY <1>2, <1>4, <2>1, <3>2 DEF Placed
    <3> QED
      BY <3>1, <3>2
  <2>4. ASSUME Name(x) \in Tables PROVE \E y \in kept : y.parent = x.id
    <3>1. PICK y \in store : y.parent = x.id
      BY <1>4, <2>1, <2>4
    <3>2. Name(y) # DatabaseName
      <4>1. x.id \in RowId /\ NoRow \notin RowId
        BY <2>1, StoreAssumption DEF Row, RowId
      <4> QED
        BY <1>4, <3>1, <4>1 DEF Placed
    <3>3. PICK z \in store : z.id = y.parent /\ z.root = y.root
      BY <1>4, <3>2 DEF Placed
    <3>4. z = x
      BY <1>4, <2>1, <3>1, <3>3
    <3> QED
      BY <1>2, <2>1, <3>1, <3>3, <3>4
  <2> QED
    BY <2>2, <2>3, <2>4
<1>8. ASSUME NEW x \in new \union kept
      PROVE  /\ \E d \in new \union kept : d.id = x.root /\ d.root = d.id
             /\ Placed(x, new \union kept)
             /\ Name(x) \in Tables => \E y \in new \union kept : y.parent = x.id
  <2>1. CASE x \in new
    BY <1>3, <2>1
  <2>2. CASE x \in kept
    <3>1. /\ \E d \in kept : d.id = x.root /\ d.root = d.id
          /\ Placed(x, kept)
          /\ Name(x) \in Tables => \E y \in kept : y.parent = x.id
      BY <1>7, <2>2
    <3>2. Placed(x, new \union kept)
      BY <3>1 DEF Placed
    <3> QED
      BY <3>1, <3>2
  <2> QED
    BY <2>1, <2>2
<1>9. UniqueIds'
  <2>1. ASSUME NEW y \in store', NEW z \in store', y.id = z.id PROVE y = z
    <3>1. CASE y \in new /\ z \in new
      BY <1>3, <2>1, <3>1
    <3>2. CASE y \notin new /\ z \notin new
      BY <1>1, <2>1, <3>2
    <3>3. ASSUME NEW v \in new, NEW w \in store', w \notin new, v.id = w.id
          PROVE  FALSE
      BY <1>1, <1>2, <1>3, <3>3 DEF Same
    <3> QED
      BY <2>1, <3>1, <3>2, <3>3
  <2> QED
    BY <2>1 DEF UniqueIds
<1>10. Rooted'
  <2>1. ASSUME NEW y \in store' PROVE \E e \in store' : e.id = y.root /\ e.root = e.id
    <3>1. PICK x \in new \union kept : y.root = x.root
      BY <1>6
    <3>2. PICK d \in new \union kept : d.id = x.root /\ d.root = d.id
      BY <1>8
    <3>3. PICK e \in store' : e.id = d.id /\ e.root = d.root
      BY <1>5
    <3> QED
      BY <3>1, <3>2, <3>3
  <2> QED
    BY <2>1 DEF Rooted
<1>11. AllPlaced'
  <2>1. ASSUME NEW y \in store' PROVE Placed(y, store)'
    <3>1. PICK x \in new \union kept :
            y.id = x.id /\ y.parent = x.parent /\ y.root = x.root /\ Name(y) = Name(x)
      BY <1>6
    <3>2. Placed(x, new \union kept)
      BY <1>8
    <3>3. CASE Name(x) = DatabaseName
      BY <3>1, <3>2, <3>3 DEF Placed
    <3>4. CASE Name(x) # DatabaseName
      <4>1. PICK p \in new \union kept :
              p.id = x.parent /\ p.root = x.root /\ Name(p) = Parent[Name(x)]
        BY <3>2, <3>4 DEF Placed
      <4>2. PICK q \in store' : q.id = p.id /\ q.root = p.root /\ Name(q) = Name(p)
        BY <1>5
      <4> QED
        BY <3>1, <3>4, <4>1, <4>2 DEF Placed
    <3> QED
      BY <3>3, <3>4
  <2> QED
    BY <2>1 DEF AllPlaced
<1>12. AllListed'
  <2>1. ASSUME NEW y \in store' PROVE y.facts.listed
    <3>1. CASE y \in new
      BY <1>3, <3>1
    <3>2. CASE y \notin new
      <4>1. PICK x \in kept : Same(x, y, upd)
        BY <1>1, <3>2
      <4>2. x.facts.listed
        BY <1>2, <1>4
      <4> QED
        BY <4>1, <4>2 DEF Same
    <3> QED
      BY <3>1, <3>2
  <2> QED
    BY <2>1 DEF AllListed
<1>13. NoHalfTables'
  <2>1. ASSUME NEW y \in store', Name(y) \in Tables
        PROVE  \E z \in store' : z.parent = y.id
    <3>1. PICK x \in new \union kept : y.id = x.id /\ Name(y) = Name(x)
      BY <1>6
    <3>2. PICK c \in new \union kept : c.parent = x.id
      BY <1>8, <2>1, <3>1
    <3>3. PICK z \in store' : z.parent = c.parent
      BY <1>5
    <3> QED
      BY <3>1, <3>2, <3>3
  <2> QED
    BY <2>1 DEF NoHalfTables, RowsNamed, ChildrenOf
<1> QED
  BY <1>9, <1>10, <1>11, <1>12, <1>13 DEF StoreRows

----------------------------------------------------------------------------
(* A request that saves.  Its inserts hang under each other or under rows   *)
(* it found; below an insert there is nothing but inserts.  If the tree is  *)
(* not its own, one of its inserts hangs under a found row: Conflicts then  *)
(* tells whether the tree is still there.                                   *)

Filtered(j) ==
  /\ j.listed = j.tables
  /\ \A c \in DOMAIN j.columns : Parent[c] \in j.tables
  /\ \A t \in j.tables : \E c \in DOMAIN j.columns : Parent[c] = t

Objectives(j) == {DatabaseName} \union j.schemas \union j.tables \union DOMAIN j.columns

InsertRight(r, j, x) ==
  /\ x.id = <<r, Name(x)>>
  /\ Name(x) \in DOMAIN j.ids /\ j.ids[Name(x)] = x.id
  /\ x.root = j.ids[DatabaseName]
  /\ x.parent = IF Name(x) = DatabaseName THEN NoRow ELSE j.ids[Parent[Name(x)]]
  /\ x.facts.listed

SaveRight(r, j) ==
  LET own == IdsOf(j.inserts)
  IN /\ DatabaseName \in DOMAIN j.ids /\ DOMAIN j.ids \subseteq Objectives(j)
     /\ \A o \in DOMAIN j.ids : j.ids[o][2] = o
     /\ \A o \in DOMAIN j.ids \ {DatabaseName} :
          /\ Parent[o] \in DOMAIN j.ids
          /\ j.ids[Parent[o]] \in own => j.ids[o] \in own
     /\ \A x \in j.inserts : InsertRight(r, j, x)
     /\ \A x, y \in j.inserts : x.id = y.id => x = y
     /\ j.inserts # {} /\ j.ids[DatabaseName] \notin own =>
          \E x \in j.inserts : x.parent \notin own \union {NoRow}
     /\ \A i \in DOMAIN j.updates : j.updates[i].listed
     /\ j.deletes # {} => j.force

(* Rows carry the numbers of requests that have committed.                  *)
Settled(i) == i[1] = Earlier \/ (i[1] \in Requests /\ job[i[1]].pc = "success")

Numbered == \A x \in store : Settled(x.id)

(* The rows a request found are in the tree it saves to, or gone for good.  *)
FoundStand(r) ==
  \A o \in DOMAIN job[r].ids :
    /\ Settled(job[r].ids[o]) \/ job[r].ids[o][1] = r
    /\ \A y \in store : y.id = job[r].ids[o] => y.root = job[r].ids[DatabaseName]

Saving(r) == SaveRight(r, job[r]) /\ FoundStand(r)

SavesInv ==
  /\ \A r \in Requests : job[r].pc \in SavePcs => Filtered(job[r])
  /\ \A r \in Requests : job[r].pc = "upsert" => Saving(r)

StoreInv == StoreRows /\ Numbered /\ SavesInv

(* A step of the requests between their transactions.                       *)
Quiet ==
  /\ UNCHANGED <<store, overlapped>>
  /\ \A q \in Requests :
       \/ job'[q] = job[q]
       \/ /\ job[q].pc # "success" /\ job'[q].pc \notin {"upsert", "success"}
          /\ job'[q].pc = "upsert_database" => Filtered(job'[q])

LEMMA CrawlIsQuiet ==
  ASSUME JobsInv, NEW r \in Requests, CrawlStep(r),
         job'[r].pc = "upsert_database" => Filtered(job'[r])
  PROVE  Quiet
<1>1. /\ \A q \in Requests \ {r} : job'[q] = job[q]
      /\ job'[r].pc \in CrawlPcs \union {"upsert_database"}
      /\ job[r].pc \in {"idle"} \union CrawlPcs
      /\ UNCHANGED <<store, overlapped>>
  BY CrawlStepType
<1> QED
  BY <1>1 DEF Quiet, CrawlPcs, FetchPcs

LEMMA FailIsQuiet ==
  ASSUME JobsInv, NEW r \in Requests, Fail(r), job[r].pc # "success"
  PROVE  Quiet
BY FailStep DEF Quiet

LEMMA SampleFilters ==
  ASSUME JobsInv, NEW r \in Requests, Sample(r)
  PROVE  Filtered(job'[r])
<1>1. PICK unread \in SUBSET job[r].tables :
        LET sampled == (job[r].tables \intersect SourceTables) \ unread
            kept == Kept(r, sampled)
        IN /\ job'[r].listed = kept
           /\ job'[r].tables = kept
           /\ DOMAIN job'[r].columns =
                {c \in DOMAIN job[r].columns : Parent[c] \in kept}
  BY SampleStep
<1> DEFINE kept == Kept(r, (job[r].tables \intersect SourceTables) \ unread)
<1>2. \A t \in kept : \E c \in DOMAIN job[r].columns : Parent[c] = t
  BY DEF Kept
<1> HIDE DEF kept
<1>3. /\ job'[r].listed = kept /\ job'[r].tables = kept
      /\ DOMAIN job'[r].columns = {c \in DOMAIN job[r].columns : Parent[c] \in kept}
  BY <1>1 DEF kept
<1> QED
  BY <1>2, <1>3 DEF Filtered

(* A request that is not saving or committing takes a quiet step.           *)
LEMMA OtherSteps ==
  ASSUME SourceInv, JobsInv, NEW r \in Requests,
         \/ \E force \in BOOLEAN : Start(r, force)
         \/ Crawl(r) \/ ForeignKeyFails(r) \/ SaveFails(r) \/ Fault(r)
  PROVE  Quiet /\ JobsInv' /\ UNCHANGED <<source, edits>>
<1>1. CASE \E force \in BOOLEAN : Start(r, force)
  <2>1. PICK force \in BOOLEAN : Start(r, force)
    BY <1>1
  <2>2. CrawlStep(r)
    BY <2>1, StartStep
  <2>3. job'[r].pc = "fetch_schemas"
    BY <2>1 DEF Start, JobsInv, JobType
  <2> QED
    BY <2>2, <2>3, CrawlIsQuiet, CrawlStepType
<1>2. CASE FetchSchemas(r) \/ FetchTables(r) \/ FetchColumns(r) \/ FetchKeys(r)
  <2>1. CrawlStep(r) /\ job'[r].pc \in CrawlPcs
    BY <1>2, FetchSteps
  <2>2. job'[r].pc # "upsert_database"
    BY <2>1 DEF CrawlPcs, FetchPcs
  <2> QED
    BY <2>1, <2>2, CrawlIsQuiet, CrawlStepType
<1>3. CASE FetchFails(r)
  <2>1. CASE Fail(r)
    <3>1. job[r].pc # "success"
      BY <1>3 DEF FetchFails, FetchPcs
    <3> QED
      BY <2>1, <3>1, FailIsQuiet, FailStep
  <2>2. CASE ~Fail(r)
    <3>1. CrawlStep(r)
      BY <1>3, <2>2, FetchFailsStep
    <3>2. job'[r].pc # "upsert_database"
      BY <1>3, <2>2 DEF FetchFails, FetchPcs, JobsInv, JobType
    <3> QED
      BY <3>1, <3>2, CrawlIsQuiet, CrawlStepType
  <2> QED
    BY <2>1, <2>2
<1>4. CASE Sample(r)
  BY <1>4, SampleStep, SampleFilters, CrawlIsQuiet, CrawlStepType
<1>5. CASE ForeignKeyFails(r) \/ SaveFails(r) \/ Fault(r)
  <2>1. Fail(r) /\ job[r].pc # "success"
    BY <1>5 DEF ForeignKeyFails, SaveFails, Fault, Ended
  <2> QED
    BY <2>1, FailIsQuiet, FailStep
<1> QED
  BY <1>1, <1>2, <1>3, <1>4, <1>5 DEF Crawl

LEMMA IndexCases ==
  ASSUME SourceInv, JobsInv, IndexNext
  PROVE  \/ SourceChanges
         \/ Quiet /\ JobsInv' /\ UNCHANGED <<source, edits>>
         \/ \E r \in Requests : UpsertDatabase(r) \/ Upsert(r) \/ Commit(r)
<1>1. CASE SourceChanges
  BY <1>1
<1>2. CASE \E r \in Requests : Work(r) \/ Fault(r)
  <2>1. PICK r \in Requests : Work(r) \/ Fault(r)
    BY <1>2
  <2>2. \/ Crawl(r) \/ ForeignKeyFails(r) \/ SaveFails(r) \/ Fault(r)
        \/ UpsertDatabase(r) \/ Upsert(r) \/ Commit(r)
    BY <2>1 DEF Work, Save
  <2> QED
    BY <2>2, OtherSteps
<1>3. CASE \E r \in Requests, force \in BOOLEAN : Start(r, force)
  BY <1>3, OtherSteps
<1> QED
  BY <1>1, <1>2, <1>3 DEF IndexNext

----------------------------------------------------------------------------
(* Each step keeps StoreInv.                                                *)

SettledNext(i) ==
  i[1] = Earlier \/ (i[1] \in Requests /\ job'[i[1]].pc = "success")

SettledStays == \A i : Settled(i) => SettledNext(i)

(* A saving request does not mind what happens elsewhere.                   *)
LEMMA SavingStands ==
  ASSUME NEW q \in Requests, Saving(q), job'[q] = job[q], SettledStays,
         \A y \in store' :
           \/ \E x \in store : x.id = y.id /\ x.root = y.root
           \/ y.id[1] # q /\ ~Settled(y.id)
  PROVE  Saving(q)'
<1>1. SaveRight(q, job'[q])
  BY DEF Saving
<1>2. ASSUME NEW o \in DOMAIN job[q].ids
      PROVE  /\ SettledNext(job[q].ids[o]) \/ job[q].ids[o][1] = q
             /\ \A y \in store' : y.id = job[q].ids[o] =>
                                    y.root = job[q].ids[DatabaseName]
  <2> DEFINE i == job[q].ids[o]
  <2>1. /\ Settled(i) \/ i[1] = q
        /\ \A x \in store : x.id = i => x.root = job[q].ids[DatabaseName]
    BY <1>2 DEF Saving, FoundStand
  <2> HIDE DEF i
  <2>2. SettledNext(i) \/ i[1] = q
    BY <2>1 DEF SettledStays
  <2>3. \A y \in store' : y.id = i => y.root = job[q].ids[DatabaseName]
    BY <2>1
  <2> QED
    BY <2>2, <2>3 DEF i
<1>3. FoundStand(q)'
  BY <1>2 DEF FoundStand, Settled, SettledNext
<1> QED
  BY <1>1, <1>3 DEF Saving

LEMMA QuietKeeps ==
  ASSUME StoreInv, Quiet
  PROVE  StoreInv'
<1>1. /\ store' = store
      /\ \A q \in Requests :
           \/ job'[q] = job[q]
           \/ /\ job[q].pc # "success" /\ job'[q].pc \notin {"upsert", "success"}
              /\ job'[q].pc = "upsert_database" => Filtered(job'[q])
  BY DEF Quiet
<1>2. StoreRows'
  BY <1>1 DEF StoreInv, StoreRows, UniqueIds, Rooted, AllPlaced, Placed, AllListed,
              NoHalfTables, RowsNamed, ChildrenOf
<1>3. SettledStays
  BY <1>1 DEF SettledStays, Settled, SettledNext
<1>4. Numbered'
  BY <1>1, <1>3 DEF StoreInv, Numbered, SettledStays, Settled, SettledNext
<1>5. ASSUME NEW q \in Requests, job'[q].pc \in SavePcs PROVE Filtered(job'[q])
  BY <1>1, <1>5 DEF StoreInv, SavesInv, SavePcs
<1>6. ASSUME NEW q \in Requests, job'[q].pc = "upsert" PROVE Saving(q)'
  <2>1. job'[q] = job[q] /\ Saving(q)
    BY <1>1, <1>6 DEF StoreInv, SavesInv
  <2> QED
    BY <1>1, <1>3, <2>1, SavingStands
<1> QED
  BY <1>2, <1>4, <1>5, <1>6 DEF StoreInv, SavesInv

LEMMA StoreRowsSame ==
  ASSUME StoreRows, UNCHANGED store
  PROVE  StoreRows'
BY DEF StoreRows, UniqueIds, Rooted, AllPlaced, Placed, AllListed, NoHalfTables,
       RowsNamed, ChildrenOf

(* r steps within its transaction.                                          *)
LEMMA SaveStepKeeps ==
  ASSUME JobsInv, StoreInv, NEW r \in Requests, UNCHANGED store,
         \A q \in Requests \ {r} : job'[q] = job[q],
         job[r].pc \in SavePcs, job'[r].pc = "upsert", SameCrawl(r),
         SettledStays => Saving(r)'
  PROVE  StoreInv'
<1>1. SettledStays
  BY DEF SettledStays, Settled, SettledNext, SavePcs
<1>2. Numbered'
  BY <1>1 DEF StoreInv, Numbered, SettledStays, Settled, SettledNext
<1>3. ASSUME NEW q \in Requests, job'[q].pc \in SavePcs PROVE Filtered(job'[q])
  <2>1. CASE q = r
    BY <2>1 DEF StoreInv, SavesInv, Filtered, SameCrawl
  <2>2. CASE q # r
    BY <1>3, <2>2 DEF StoreInv, SavesInv
  <2> QED
    BY <2>1, <2>2
<1>4. ASSUME NEW q \in Requests, job'[q].pc = "upsert" PROVE Saving(q)'
  <2>1. CASE q = r
    BY <1>1, <2>1
  <2>2. CASE q # r
    <3>1. job'[q] = job[q] /\ Saving(q)
      BY <1>4, <2>2 DEF StoreInv, SavesInv
    <3> QED
      BY <1>1, <3>1, SavingStands
  <2> QED
    BY <2>1, <2>2
<1>5. StoreRows'
  BY StoreRowsSame DEF StoreInv
<1> QED
  BY <1>2, <1>3, <1>4, <1>5 DEF StoreInv, SavesInv

LEMMA BeginKeeps ==
  ASSUME JobsInv, store \in SUBSET Row, StoreInv, NEW r \in Requests, UpsertDatabase(r)
  PROVE  StoreInv'
<1> DEFINE j == job'[r]
           new == <<r, DatabaseName>>
           row == NewRow(r, DatabaseName, NoRow, new, NoFacts)
<1>1. /\ job[r].pc = "upsert_database" /\ job'[r].pc = "upsert"
      /\ DOMAIN j.ids = {DatabaseName} /\ DOMAIN j.updates = {}
      /\ SameCrawl(r) /\ Begun(r)
      /\ \A q \in Requests \ {r} : job'[q] = job[q]
      /\ UNCHANGED store
  BY BeginStep
<1>2. /\ row.id = new /\ row.parent = NoRow /\ row.root = new
      /\ row.facts = NoFacts /\ Name(row) = DatabaseName
      /\ new[1] = r /\ new[2] = DatabaseName
  <2>1. DatabaseName \in Objects /\ new \in RowId /\ new[1] = r /\ new[2] = DatabaseName
    BY ObjectFacts, RowIdIs
  <2>2. NoFacts \in Facts
    BY DEF NoFacts, Facts
  <2>3. NoRow \in RowId \union {NoRow}
    OBVIOUS
  <2> QED
    BY <2>1, <2>2, <2>3, NewRowType
<1>3. NoFacts.listed
  BY DEF NoFacts
<1>4. /\ \A x \in RowsNamed(store, {DatabaseName}) :
           x \in store /\ x.id[2] = DatabaseName /\ x.root = x.id /\ Settled(x.id)
  BY DEF RowsNamed, StoreInv, StoreRows, AllPlaced, Placed, Numbered, Name
<1>5. \A x, y \in store : x.id = y.id => x = y
  BY DEF StoreInv, StoreRows, UniqueIds
<1>6. ~Settled(new) /\ \A y \in store : Settled(y.id)
  BY <1>1, <1>2, StoreAssumption DEF Settled, StoreInv, Numbered
<1>7. \/ /\ j.ids[DatabaseName] = new /\ j.inserts = {row}
         /\ j.deletes # {} => job[r].force
      \/ /\ \E x \in RowsNamed(store, {DatabaseName}) : j.ids[DatabaseName] = x.id
         /\ j.inserts = {} /\ j.deletes = {}
  BY <1>1 DEF Begun
<1>8. job[r].force = j.force
  BY <1>1 DEF SameCrawl
<1>9. SaveRight(r, j)
  <2> HIDE DEF j, new, row
  <2>1. \A x \in j.inserts : x = row /\ j.ids[DatabaseName] = new
    BY <1>7
  <2>2. \A x \in j.inserts : InsertRight(r, j, x)
    BY <1>1, <1>2, <1>3, <2>1 DEF InsertRight, new, j
  <2>3. j.ids[DatabaseName][2] = DatabaseName
    BY <1>2, <1>4, <1>7
  <2>4. j.inserts # {} => j.ids[DatabaseName] \in IdsOf(j.inserts)
    BY <1>2, <1>7 DEF IdsOf
  <2> QED
    BY <1>1, <1>7, <1>8, <2>1, <2>2, <2>3, <2>4 DEF SaveRight, Objectives, j
<1>10. ASSUME SettledStays PROVE Saving(r)'
  <2>1. \/ j.ids[DatabaseName] = new
        \/ \E x \in RowsNamed(store, {DatabaseName}) : j.ids[DatabaseName] = x.id
    BY <1>7
  <2> HIDE DEF j, new
  <2>2. SettledNext(j.ids[DatabaseName]) \/ j.ids[DatabaseName][1] = r
    BY <1>2, <1>4, <1>10, <2>1 DEF SettledStays
  <2>3. \A y \in store : y.id = j.ids[DatabaseName] => y.root = j.ids[DatabaseName]
    BY <1>4, <1>5, <1>6, <2>1
  <2>4. FoundStand(r)'
    BY <1>1, <2>2, <2>3 DEF FoundStand, j, Settled, SettledNext
  <2> QED
    BY <1>9, <2>4 DEF Saving, j
<1> QED
  BY <1>1, <1>10, SaveStepKeeps DEF SavePcs

LEMMA UpsertKeeps ==
  ASSUME JobsInv, store \in SUBSET Row, StoreInv, NEW r \in Requests, Upsert(r)
  PROVE  StoreInv'
<1> DEFINE i == job[r].ids
           j == job'[r]
           own == IdsOf(job[r].inserts)
           tree == i[DatabaseName]
<1>1. job[r].pc = "upsert" /\ SaveRight(r, job[r]) /\ FoundStand(r) /\ Filtered(job[r])
  BY DEF Upsert, StoreInv, SavesInv, Saving, SavePcs
<1>2. DatabaseName \in DOMAIN i
  BY <1>1 DEF SaveRight
<1>3. /\ j.pc = "upsert" /\ SameCrawl(r) /\ j.deletes = job[r].deletes
      /\ \A q \in Requests \ {r} : job'[q] = job[q]
      /\ UNCHANGED store
  BY <1>2, UpsertStep
<1>4. PICK o \in Pending(r) : Upserted(r, o)
  BY <1>2, UpsertStep
<1>5. /\ o \in Objects /\ o # DatabaseName
      /\ o \notin DOMAIN i /\ Parent[o] \in DOMAIN i
      /\ o \in Columns => o \in DOMAIN job[r].columns
  BY <1>4, PendingIs
<1>6. o \in Objectives(job[r])
  BY <1>4 DEF Pending, Waiting, Objectives
<1> DEFINE parent == i[Parent[o]]
           new == <<r, o>>
           facts == FactsOf(r, o)
           row == NewRow(r, o, parent, tree, facts)
<1>7. /\ \A p \in DOMAIN i : i[p] \in RowId /\ i[p][2] = p
      /\ \A p \in DOMAIN i \ {DatabaseName} :
           Parent[p] \in DOMAIN i /\ (i[Parent[p]] \in own => i[p] \in own)
      /\ DOMAIN i \subseteq Objectives(job[r])
      /\ \A x \in job[r].inserts : InsertRight(r, job[r], x)
      /\ \A x, y \in job[r].inserts : x.id = y.id => x = y
      /\ job[r].inserts # {} /\ tree \notin own =>
           \E x \in job[r].inserts : x.parent \notin own \union {NoRow}
      /\ \A k \in DOMAIN job[r].updates : job[r].updates[k].listed
      /\ job[r].deletes # {} => job[r].force
  <2>1. i \in Partial(Objects, RowId)
    BY DEF JobsInv, JobType
  <2>2. \A p \in DOMAIN i : i[p] \in RowId
    BY <2>1, PartialParts
  <2> QED
    BY <1>1, <2>2 DEF SaveRight
<1>8. facts \in Facts /\ facts.listed
  <2>1. facts \in Facts
    BY <1>5, FactsOfType
  <2>2. CASE o \in Columns
    <3>1. Parent[o] \in job[r].listed
      BY <1>1, <1>5, <2>2 DEF Filtered
    <3> QED
      BY <1>5, <2>1, <2>2, <3>1, FactsOfType
  <2>3. CASE o \notin Columns
    BY <1>5, <2>1, <2>3, FactsOfType
  <2> QED
    BY <2>2, <2>3
<1>9. /\ new \in RowId /\ new[1] = r /\ new[2] = o /\ NoRow \notin RowId
      /\ row.id = new /\ row.parent = parent /\ row.root = tree
      /\ row.facts = facts /\ Name(row) = o
  <2>1. new \in RowId /\ new[1] = r /\ new[2] = o /\ NoRow \notin RowId
    BY <1>5, RowIdIs, StoreAssumption DEF RowId
  <2>2. parent \in RowId \union {NoRow} /\ tree \in RowId
    BY <1>2, <1>5, <1>7
  <2> HIDE DEF parent, tree, facts
  <2> QED
    BY <1>5, <1>8, <2>1, <2>2, NewRowType
<1>10. Objectives(j) = Objectives(job[r]) /\ j.force = job[r].force
  BY <1>3 DEF SameCrawl, Objectives
<1>11. ASSUME NEW id, j.ids = Put(i, o, id)
       PROVE  /\ DOMAIN j.ids = DOMAIN i \union {o} /\ j.ids[o] = id
              /\ \A p \in DOMAIN i : j.ids[p] = i[p]
              /\ j.ids[DatabaseName] = tree /\ j.ids[Parent[o]] = parent
  BY <1>2, <1>5, <1>11 DEF Put
(* The object is inserted.                                                  *)
<1>12. CASE /\ j.ids = Put(i, o, new) /\ j.inserts = job[r].inserts \union {row}
            /\ j.updates = job[r].updates
  <2> HIDE DEF row, new, parent, facts, j, i
  <2>1. /\ DOMAIN j.ids = DOMAIN i \union {o} /\ j.ids[o] = new
        /\ \A p \in DOMAIN i : j.ids[p] = i[p]
        /\ j.ids[DatabaseName] = tree /\ j.ids[Parent[o]] = parent
    BY <1>11, <1>12
  <2>2. IdsOf(j.inserts) = own \union {new}
    BY <1>9, <1>12 DEF IdsOf
  <2>3. \A p \in DOMAIN i : i[p] # new
    BY <1>5, <1>7, <1>9
  <2>4. \A x \in job[r].inserts : Name(x) \in DOMAIN i /\ x.id = i[Name(x)] /\ x.id # new
    BY <1>7, <2>3 DEF InsertRight, i
  <2>5. ASSUME NEW x \in j.inserts PROVE InsertRight(r, j, x)
    <3>1. CASE x \in job[r].inserts
      <4>1. InsertRight(r, job[r], x)
        BY <1>7, <3>1
      <4>2. Name(x) # DatabaseName => Parent[Name(x)] \in DOMAIN i
        BY <1>7, <2>4, <3>1
      <4> QED
        BY <2>1, <4>1, <4>2 DEF InsertRight, i, tree
    <3>2. CASE x = row
      BY <1>5, <1>8, <1>9, <2>1, <3>2 DEF InsertRight, new
    <3> QED
      BY <1>12, <3>1, <3>2
  <2>6. \A x, y \in j.inserts : x.id = y.id => x = y
    BY <1>7, <1>9, <1>12, <2>4
  <2>7. \A p \in DOMAIN j.ids \ {DatabaseName} :
          Parent[p] \in DOMAIN j.ids
          /\ (j.ids[Parent[p]] \in IdsOf(j.inserts) => j.ids[p] \in IdsOf(j.inserts))
    BY <1>5, <1>7, <2>1, <2>2, <2>3
  <2>8. ASSUME j.ids[DatabaseName] \notin IdsOf(j.inserts)
        PROVE  \E x \in j.inserts : x.parent \notin IdsOf(j.inserts) \union {NoRow}
    <3>1. CASE job[r].inserts = {}
      <4>1. own = {}
        BY <3>1 DEF IdsOf
      <4>2. parent \notin IdsOf(j.inserts) \union {NoRow}
        BY <1>5, <1>7, <1>9, <2>2, <2>3, <4>1 DEF parent
      <4> QED
        BY <1>9, <1>12, <4>2
    <3>2. CASE job[r].inserts # {}
      <4>1. PICK x \in job[r].inserts : x.parent \notin own \union {NoRow}
        BY <1>7, <2>1, <2>2, <2>8, <3>2
      <4>2. x.parent \in {i[p] : p \in DOMAIN i}
        BY <1>7, <2>4, <4>1 DEF InsertRight, i
      <4>3. x.parent # new
        BY <2>3, <4>2
      <4> QED
        BY <1>12, <2>2, <4>1, <4>3
    <3> QED
      BY <3>1, <3>2
  <2>11. /\ DatabaseName \in DOMAIN j.ids /\ DOMAIN j.ids \subseteq Objectives(j)
         /\ \A p \in DOMAIN j.ids : j.ids[p][2] = p
    BY <1>2, <1>6, <1>7, <1>9, <1>10, <2>1
  <2>12. /\ \A k \in DOMAIN j.updates : j.updates[k].listed
         /\ j.deletes # {} => j.force
    BY <1>3, <1>7, <1>10, <1>12 DEF j
  <2>9. SaveRight(r, j)
    BY <2>5, <2>6, <2>7, <2>8, <2>11, <2>12 DEF SaveRight
  <2>10. ASSUME SettledStays PROVE FoundStand(r)'
    <3>1. ASSUME NEW p \in DOMAIN j.ids
          PROVE  /\ SettledNext(j.ids[p]) \/ j.ids[p][1] = r
                 /\ \A y \in store : y.id = j.ids[p] => y.root = j.ids[DatabaseName]
      <4>1. CASE p \in DOMAIN i
        BY <1>1, <2>1, <2>10, <4>1 DEF FoundStand, SettledStays, i, tree
      <4>2. CASE p = o
        <5>1. j.ids[p][1] = r
          BY <1>9, <2>1, <4>2
        <5>2. ~Settled(new) /\ \A y \in store : Settled(y.id)
          BY <1>1, <1>9, StoreAssumption DEF Settled, StoreInv, Numbered
        <5> QED
          BY <2>1, <4>2, <5>1, <5>2
      <4> QED
        BY <2>1, <4>1, <4>2
    <3> QED
      BY <1>3, <3>1 DEF FoundStand, Settled, SettledNext, j
  <2> QED
    BY <1>1, <1>3, <2>9, <2>10, SaveStepKeeps DEF Saving, SavePcs, j
(* The object is found.                                                     *)
<1>13. ASSUME NEW x \in Match(r, o), j.ids = Put(i, o, x.id),
              j.inserts = job[r].inserts,
              j.updates \in {job[r].updates, Put(job[r].updates, x.id, facts)}
       PROVE  StoreInv'
  <2>1. x.parent = parent /\ Name(x) = o /\ x.id[2] = o
    BY DEF Match, RowsNamed, ChildrenOf, Name
  <2>2. x \in store
    <3>1. \A y \in job[r].inserts : Name(y) # o
      BY <1>5, <1>7 DEF InsertRight
    <3> QED
      BY <2>1, <3>1 DEF Match, RowsNamed, ChildrenOf, View, WithoutTrees
  <2>3. Settled(x.id) /\ x.id[1] # r
    BY <1>1, <2>2, StoreAssumption DEF Settled, StoreInv, Numbered
  <2>4. PICK above \in store : above.id = parent /\ above.root = x.root
    BY <1>5, <2>1, <2>2 DEF StoreInv, StoreRows, AllPlaced, Placed
  <2>5. x.root = tree
    BY <1>1, <1>5, <2>4 DEF FoundStand
  <2>6. parent \notin own
    BY <1>1, <1>7, <2>4, StoreAssumption
       DEF IdsOf, InsertRight, Settled, StoreInv, Numbered
  <2>7. \A k \in DOMAIN j.updates : j.updates[k].listed
    BY <1>7, <1>8, <1>13 DEF Put
  <2> HIDE DEF parent, facts, j, i
  <2>8. /\ DOMAIN j.ids = DOMAIN i \union {o} /\ j.ids[o] = x.id
        /\ \A p \in DOMAIN i : j.ids[p] = i[p]
        /\ j.ids[DatabaseName] = tree /\ j.ids[Parent[o]] = parent
    BY <1>11, <1>13
  <2>9. ASSUME NEW y \in j.inserts PROVE InsertRight(r, j, y)
    <3>1. InsertRight(r, job[r], y) /\ Name(y) \in DOMAIN i
      BY <1>7, <1>13 DEF InsertRight, i
    <3>2. Name(y) # DatabaseName => Parent[Name(y)] \in DOMAIN i
      BY <1>7, <3>1
    <3> QED
      BY <2>8, <3>1, <3>2 DEF InsertRight, i, tree
  <2>10. \A p \in DOMAIN j.ids \ {DatabaseName} :
           Parent[p] \in DOMAIN j.ids
           /\ (j.ids[Parent[p]] \in own => j.ids[p] \in own)
    BY <1>5, <1>7, <2>6, <2>8
  <2>11. SaveRight(r, j)
    BY <1>2, <1>3, <1>6, <1>7, <1>10, <1>13, <2>1, <2>7, <2>8, <2>9, <2>10
       DEF SaveRight, j
  <2>12. ASSUME SettledStays PROVE FoundStand(r)'
    <3>1. ASSUME NEW p \in DOMAIN j.ids
          PROVE  /\ SettledNext(j.ids[p]) \/ j.ids[p][1] = r
                 /\ \A y \in store : y.id = j.ids[p] => y.root = j.ids[DatabaseName]
      <4>1. CASE p \in DOMAIN i
        BY <1>1, <2>8, <2>12, <4>1 DEF FoundStand, SettledStays, i, tree
      <4>2. CASE p = o
        <5>1. \A y \in store : y.id = x.id => y = x
          BY <2>2 DEF StoreInv, StoreRows, UniqueIds
        <5> QED
          BY <2>3, <2>5, <2>8, <2>12, <4>2, <5>1 DEF SettledStays
      <4> QED
        BY <2>8, <4>1, <4>2
    <3> QED
      BY <1>3, <3>1 DEF FoundStand, Settled, SettledNext, j
  <2> QED
    BY <1>1, <1>3, <2>11, <2>12, SaveStepKeeps DEF Saving, SavePcs, j
<1> QED
  BY <1>4, <1>12, <1>13 DEF Upserted

LEMMA CommitIsSuccess ==
  ASSUME JobsInv, StoreInv, NEW r \in Requests, Commit(r)
  PROVE  /\ JobsInv'
         /\ job[r].pc = "upsert" /\ job'[r].pc = "success"
         /\ job'[r].force = job[r].force /\ job'[r].unread = job[r].unread
         /\ job'[r].ids[DatabaseName] = job[r].ids[DatabaseName]
         /\ \A q \in Requests \ {r} : job'[q] = job[q]
         /\ UNCHANGED <<source, edits, overlapped>>
<1>1. DatabaseName \in DOMAIN job[r].ids
  BY DEF Commit, StoreInv, SavesInv, Saving, SaveRight
<1>2. disturbed' \in [Requests -> BOOLEAN]
  BY DEF Commit, Underway, JobsInv
<1> QED
  BY <1>1, <1>2, SuccessStep DEF Commit

(* What a request commits fits what it keeps of the store.                  *)
LEMMA CommitsRight ==
  ASSUME JobsInv, StoreInv, NEW r \in Requests, Commit(r)
  PROVE  NewRight(job[r].inserts, WithoutTrees(store, job[r].deletes))
<1> DEFINE i == job[r].ids
           new == job[r].inserts
           own == IdsOf(new)
           kept == WithoutTrees(store, job[r].deletes)
           tree == i[DatabaseName]
<1>1. job[r].pc = "upsert" /\ SaveRight(r, job[r]) /\ FoundStand(r) /\ Filtered(job[r])
  BY DEF Commit, StoreInv, SavesInv, Saving, SavePcs
<1>2. /\ DatabaseName \in DOMAIN i
      /\ \A p \in DOMAIN i : i[p] \in RowId /\ i[p][2] = p
      /\ \A p \in DOMAIN i \ {DatabaseName} :
           Parent[p] \in DOMAIN i /\ (i[Parent[p]] \in own => i[p] \in own)
      /\ DOMAIN i \subseteq Objectives(job[r])
      /\ \A x \in new : InsertRight(r, job[r], x)
      /\ \A x, y \in new : x.id = y.id => x = y
      /\ new # {} /\ tree \notin own => \E x \in new : x.parent \notin own \union {NoRow}
  <2>1. i \in Partial(Objects, RowId)
    BY DEF JobsInv, JobType
  <2>2. \A p \in DOMAIN i : i[p] \in RowId
    BY <2>1, PartialParts
  <2> QED
    BY <1>1, <2>2 DEF SaveRight
<1>3. Pending(r) = {} /\ \A x \in new : x.parent \in own \union {NoRow} \union IdsOf(kept)
  BY DEF Commit, Conflicts
<1>4. \A x : x \in kept <=> x \in store /\ x.root \notin job[r].deletes
  BY DEF WithoutTrees
<1>5. \A p \in DOMAIN i, y \in store : y.id = i[p] => y.root = tree
  BY <1>1 DEF FoundStand
<1>6. NoRow \notin RowId
  BY StoreAssumption DEF RowId
<1>7. \A x \in new :
        /\ x.id = <<r, Name(x)>> /\ Name(x) \in DOMAIN i /\ i[Name(x)] = x.id
        /\ x.root = tree /\ x.facts.listed
        /\ Name(x) = DatabaseName => x.parent = NoRow
        /\ Name(x) # DatabaseName => x.parent = i[Parent[Name(x)]]
                                     /\ Parent[Name(x)] \in DOMAIN i
  BY <1>2 DEF InsertRight
<1>8. \A x \in store : x.id[1] # r
  BY <1>1, StoreAssumption DEF Settled, StoreInv, Numbered
<1>9. /\ \A x \in store : \E d \in store : d.id = x.root /\ d.root = d.id
  BY DEF StoreInv, StoreRows, Rooted
<1>13. Pending(r) = {} => \A t \in job[r].tables, c \in DOMAIN job[r].columns :
         Parent[c] = t /\ t \in DOMAIN i => c \in DOMAIN i
  BY DEF Pending, Waiting
<1>14. /\ \A t \in job[r].tables : \E c \in DOMAIN job[r].columns : Parent[c] = t
       /\ job[r].tables \subseteq Tables /\ job[r].schemas \subseteq Schemas
       /\ DOMAIN job[r].columns \subseteq Columns
  <2>1. job[r].columns \in Partial(Columns, Nat)
    BY DEF JobsInv, JobType
  <2> QED
    BY <1>1, <2>1, PartialParts DEF Filtered, JobsInv, JobType
<1>15. \A p \in DOMAIN i : p \in Tables => p \in job[r].tables
  BY <1>2, <1>14, StoreAssumption DEF Objectives
<1> HIDE DEF i, new, own, kept, tree
<1>10. ASSUME NEW x \in new PROVE \E d \in new \union kept : d.id = x.root /\ d.root = d.id
  <2>1. CASE tree \in own
    <3>1. PICK d \in new : d.id = tree
      BY <2>1 DEF own, IdsOf
    <3> QED
      BY <1>7, <3>1
  <2>2. CASE tree \notin own
    <3>1. PICK z \in new : z.parent \notin own \union {NoRow}
      BY <1>2, <2>2
    <3>2. z.parent \in IdsOf(kept)
      BY <1>3, <3>1
    <3>3. PICK y \in kept : y.id = z.parent
      BY <3>2 DEF IdsOf
    <3>4. Name(z) # DatabaseName
      BY <1>7, <3>1
    <3>5. y \in store /\ y.root = tree
      BY <1>4, <1>5, <1>7, <3>3, <3>4
    <3>6. PICK d \in store : d.id = y.root /\ d.root = d.id
      BY <1>9, <3>5
    <3>7. d \in kept
      BY <1>4, <3>3, <3>5, <3>6
    <3> QED
      BY <1>7, <3>5, <3>6, <3>7
  <2> QED
    BY <2>1, <2>2
<1>11. ASSUME NEW x \in new PROVE Placed(x, new \union kept)
  <2>1. CASE Name(x) = DatabaseName
    <3>1. x.parent = NoRow /\ x.root = x.id
      BY <1>7, <2>1 DEF tree
    <3> QED
      BY <2>1, <3>1 DEF Placed
  <2>2. CASE Name(x) # DatabaseName
    <3> DEFINE p == Parent[Name(x)]
    <3>1. p \in DOMAIN i /\ x.parent = i[p] /\ i[p][2] = p /\ x.parent # NoRow
      BY <1>2, <1>6, <1>7, <2>2
    <3> HIDE DEF p
    <3>2. PICK y \in new \union kept : y.id = x.parent
      BY <1>3, <3>1 DEF own, IdsOf
    <3>3. Name(y) = p
      BY <3>1, <3>2 DEF Name
    <3>4. y.root = x.root
      BY <1>4, <1>5, <1>7, <3>1, <3>2
    <3> QED
      BY <2>2, <3>2, <3>3, <3>4 DEF Placed, p
  <2> QED
    BY <2>1, <2>2
<1>12. ASSUME NEW x \in new, Name(x) \in Tables PROVE \E y \in new : y.parent = x.id
  <2> DEFINE t == Name(x)
  <2>1. t \in DOMAIN i /\ t \in job[r].tables /\ i[t] = x.id
    BY <1>7, <1>12, <1>15
  <2>2. PICK c \in DOMAIN job[r].columns : Parent[c] = t
    BY <1>14, <2>1
  <2>3. c \in DOMAIN i /\ c # DatabaseName
    BY <1>3, <1>13, <1>14, <2>1, <2>2, StoreAssumption
  <2>4. i[t] \in own
    BY <2>1 DEF own, IdsOf
  <2>5. i[c] \in own
    BY <1>2, <2>2, <2>3, <2>4
  <2>6. PICK y \in new : y.id = i[c]
    BY <2>5 DEF own, IdsOf
  <2>7. Name(y) = c
    BY <1>2, <2>3, <2>6 DEF Name
  <2> QED
    BY <1>7, <2>1, <2>2, <2>3, <2>6, <2>7
<1>16. \A x \in new, y \in store : x.id # y.id
  BY <1>7, <1>8
<1>17. /\ \A x, y \in new : x.id = y.id => x = y
       /\ \A x \in new : x.facts.listed
  BY <1>2, <1>7
<1>18. NewRight(new, kept)
  BY <1>10, <1>11, <1>12, <1>16, <1>17 DEF NewRight
<1> QED
  BY <1>18 DEF new, kept

LEMMA CommitKeeps ==
  ASSUME JobsInv, store \in SUBSET Row, StoreInv, NEW r \in Requests, Commit(r)
  PROVE  StoreInv'
<1> DEFINE new == job[r].inserts
           kept == WithoutTrees(store, job[r].deletes)
           upd == job[r].updates
<1>1. /\ job[r].pc = "upsert" /\ job'[r].pc = "success"
      /\ \A q \in Requests \ {r} : job'[q] = job[q]
  BY CommitIsSuccess
<1>2. SaveRight(r, job[r])
  BY <1>1 DEF StoreInv, SavesInv, Saving
<1>3. RowsMove(kept, new, upd)
  BY CommitMoves DEF StoreInv, StoreRows
<1>4. StoreRows'
  <2>1. NewRight(new, kept)
    BY CommitsRight
  <2>2. \A k \in DOMAIN upd : upd[k].listed
    BY <1>2 DEF SaveRight
  <2> QED
    BY <1>3, <2>1, <2>2, StoreMoves DEF StoreInv
<1>5. \A y \in store' : y \in new \/ \E x \in store : x.id = y.id /\ x.root = y.root
  BY <1>3 DEF RowsMove, Same, WithoutTrees
<1>6. \A x \in new : x.id[1] = r
  BY <1>2 DEF SaveRight, InsertRight
<1>7. SettledStays
  BY <1>1 DEF SettledStays, Settled, SettledNext
<1>8. Numbered'
  <2>1. ASSUME NEW y \in store' PROVE SettledNext(y.id)
    BY <1>1, <1>5, <1>6, <1>7 DEF SettledNext, SettledStays, StoreInv, Numbered
  <2> QED
    BY <2>1 DEF Numbered, Settled, SettledNext
<1>9. ASSUME NEW q \in Requests, job'[q].pc \in SavePcs PROVE Filtered(job'[q])
  BY <1>1, <1>9 DEF StoreInv, SavesInv, SavePcs
<1>10. ASSUME NEW q \in Requests, job'[q].pc = "upsert" PROVE Saving(q)'
  <2>1. q # r /\ job'[q] = job[q] /\ Saving(q)
    BY <1>1, <1>10 DEF StoreInv, SavesInv
  <2>2. \A y \in new : y.id[1] # q /\ ~Settled(y.id)
    BY <1>1, <1>6, <2>1, StoreAssumption DEF Settled
  <2>3. \A y \in store' :
          \/ \E x \in store : x.id = y.id /\ x.root = y.root
          \/ y.id[1] # q /\ ~Settled(y.id)
    BY <1>5, <2>2
  <2> QED
    BY <1>7, <2>1, <2>3, SavingStands
<1> QED
  BY <1>4, <1>8, <1>9, <1>10 DEF StoreInv, SavesInv

(* Description generation changes nothing but texts.                        *)
LEMMA DescribeKeeps ==
  ASSUME store \in SUBSET Row, StoreInv, UNCHANGED job, RowsMove(store, {}, Nothing)
  PROVE  StoreInv'
<1>1. WithoutTrees(store, {}) = store
  BY DEF WithoutTrees
<1>2. NewRight({}, store)
  BY DEF NewRight
<1>3. \A k \in DOMAIN Nothing : Nothing[k].listed
  BY DEF Nothing
<1>4. StoreRows'
  BY <1>1, <1>2, <1>3, StoreMoves DEF StoreInv
<1>5. \A y \in store' : \E x \in store : x.id = y.id /\ x.root = y.root
  BY DEF RowsMove, Same
<1>6. SettledStays
  BY DEF SettledStays, Settled, SettledNext
<1>7. Numbered'
  BY <1>5 DEF Numbered, Settled, StoreInv
<1>8. ASSUME NEW q \in Requests, job'[q].pc = "upsert" PROVE Saving(q)'
  BY <1>5, <1>6, <1>8, SavingStands DEF StoreInv, SavesInv
<1> QED
  BY <1>4, <1>7, <1>8 DEF StoreInv, SavesInv

----------------------------------------------------------------------------
(* Types and rows.                                                          *)

MetaInv == TypesInv /\ StoreInv

LEMMA EarlierRows ==
  /\ EarlierIndex \in SUBSET Row
  /\ \A x \in EarlierIndex :
       /\ x.id[1] = Earlier /\ Name(x) \in Objects /\ x = EarlierRow(Name(x))
       /\ Name(x) # DatabaseName => EarlierRow(Parent[Name(x)]) \in EarlierIndex
       /\ Name(x) \in Tables =>
            \E c \in InitialColumns : Parent[c] = Name(x) /\ EarlierRow(c) \in EarlierIndex
  /\ EarlierRow(DatabaseName) \in EarlierIndex \/ EarlierIndex = {}
<1> DEFINE tables == {Parent[c] : c \in InitialColumns}
           schemas == {Parent[t] : t \in tables}
           all == {DatabaseName} \union schemas \union tables \union InitialColumns
<1>1. EarlierIndex = {EarlierRow(o) : o \in all}
  BY DEF EarlierIndex
<1>2. InitialColumns \subseteq Columns
  BY IndexAssumption
<1>3. tables \subseteq Tables /\ schemas \subseteq Schemas /\ all \subseteq Objects
  BY <1>2, ObjectFacts
<1>4. \A o \in all : o # DatabaseName => Parent[o] \in all
  BY <1>2, <1>3, StoreAssumption
<1>5. \A o \in all : o \in Tables => \E c \in InitialColumns : Parent[c] = o /\ c \in all
  BY <1>2, <1>3, StoreAssumption
<1>6. \A o : EarlierRow(o).id = <<Earlier, o>> /\ Name(EarlierRow(o)) = o
  BY DEF EarlierRow, Name
<1>7. ASSUME NEW o \in Objects PROVE EarlierRow(o) \in Row
  <2> DEFINE own == {c \in InitialColumns : Parent[c] = o}
  <2>1. Cardinality(own) \in Nat
    <3>1. own \in SUBSET Columns
      BY <1>2
    <3> HIDE DEF own
    <3> QED
      BY <3>1, IndexAssumption, FS_Subset, FS_CardinalityType
  <2>2. (IF o \in Tables THEN Cardinality(own) ELSE 0) \in Nat
    BY <2>1
  <2>3. [listed |-> TRUE, version |-> IF o \in Tables THEN Cardinality(own) ELSE 0] \in Facts
    <3>1. \A n \in Nat : [listed |-> TRUE, version |-> n] \in Facts
      BY DEF Facts
    <3>2. CASE o \in Tables
      <4>1. [listed |-> TRUE, version |-> Cardinality(own)] \in Facts
        BY <2>1, <3>1
      <4> QED
        BY <3>2, <4>1
    <3>3. CASE o \notin Tables
      <4>1. [listed |-> TRUE, version |-> 0] \in Facts
        BY <3>1
      <4> QED
        BY <3>3, <4>1
    <3> QED
      BY <3>2, <3>3
  <2>4. o # DatabaseName => Parent[o] \in Objects
    BY ObjectFacts
  <2>5. /\ <<Earlier, o>> \in RowId /\ <<Earlier, DatabaseName>> \in RowId
        /\ (IF o = DatabaseName THEN NoRow ELSE <<Earlier, Parent[o]>>)
             \in RowId \union {NoRow}
    BY <2>4, ObjectFacts DEF RowId
  <2> QED
    BY <2>3, <2>5 DEF EarlierRow, Row
<1> HIDE DEF all, schemas, tables
<1>8. EarlierIndex \in SUBSET Row
  BY <1>1, <1>3, <1>7
<1>9. ASSUME NEW x \in EarlierIndex
      PROVE  /\ x.id[1] = Earlier /\ Name(x) \in all /\ x = EarlierRow(Name(x))
  BY <1>1, <1>6
<1>10. DatabaseName \in all
  BY DEF all
<1> QED
  BY <1>1, <1>3, <1>4, <1>5, <1>8, <1>9, <1>10

LEMMA EarlierStands ==
  ASSUME store = EarlierIndex
  PROVE  StoreRows
<1>1. \A x \in store :
        /\ x.id = <<Earlier, Name(x)>> /\ x.root = <<Earlier, DatabaseName>>
        /\ x.facts.listed /\ x = EarlierRow(Name(x))
        /\ Name(x) = DatabaseName => x.parent = NoRow
        /\ Name(x) # DatabaseName => x.parent = <<Earlier, Parent[Name(x)]>>
  <2>1. \A x \in store : x = EarlierRow(Name(x))
    BY EarlierRows
  <2>2. \A o : /\ EarlierRow(o).id = <<Earlier, o>>
               /\ EarlierRow(o).root = <<Earlier, DatabaseName>>
               /\ EarlierRow(o).facts.listed
               /\ o = DatabaseName => EarlierRow(o).parent = NoRow
               /\ o # DatabaseName => EarlierRow(o).parent = <<Earlier, Parent[o]>>
    BY DEF EarlierRow
  <2> SUFFICES ASSUME NEW x \in store
               PROVE  /\ x.id = <<Earlier, Name(x)>>
                      /\ x.root = <<Earlier, DatabaseName>>
                      /\ x.facts.listed /\ x = EarlierRow(Name(x))
                      /\ Name(x) = DatabaseName => x.parent = NoRow
                      /\ Name(x) # DatabaseName => x.parent = <<Earlier, Parent[Name(x)]>>
    OBVIOUS
  <2> DEFINE o == Name(x)
  <2>3. x = EarlierRow(o)
    BY <2>1
  <2> HIDE DEF o
  <2>4. /\ x.id = <<Earlier, o>> /\ x.root = <<Earlier, DatabaseName>>
        /\ x.facts.listed /\ x = EarlierRow(o)
        /\ o = DatabaseName => x.parent = NoRow
        /\ o # DatabaseName => x.parent = <<Earlier, Parent[o]>>
    BY <2>2, <2>3
  <2> QED
    BY <2>4 DEF o
<1>2. \A o : /\ EarlierRow(o).id = <<Earlier, o>> /\ Name(EarlierRow(o)) = o
             /\ EarlierRow(o).root = <<Earlier, DatabaseName>>
             /\ o # DatabaseName => EarlierRow(o).parent = <<Earlier, Parent[o]>>
  BY DEF EarlierRow, Name
<1>3. UniqueIds
  BY <1>1 DEF UniqueIds
<1>4. Rooted
  BY <1>1, <1>2, EarlierRows DEF Rooted
<1>5. AllPlaced
  BY <1>1, <1>2, EarlierRows DEF AllPlaced, Placed
<1>6. AllListed
  BY <1>1 DEF AllListed
<1>7. NoHalfTables
  <2>1. ASSUME NEW x \in store, Name(x) \in Tables
        PROVE  \E y \in store : y.parent = x.id
    <3>1. PICK c \in InitialColumns : Parent[c] = Name(x) /\ EarlierRow(c) \in store
      BY <2>1, EarlierRows
    <3>2. c # DatabaseName
      BY IndexAssumption, StoreAssumption
    <3> QED
      BY <1>1, <1>2, <3>1, <3>2
  <2> QED
    BY <2>1 DEF NoHalfTables, RowsNamed, ChildrenOf
<1> QED
  BY <1>3, <1>4, <1>5, <1>6, <1>7 DEF StoreRows

LEMMA MetaInit == Init => MetaInv
<1> SUFFICES ASSUME Init PROVE MetaInv
  OBVIOUS
<1>1. /\ store \in {{}, EarlierIndex}
      /\ source = [columns |-> InitialColumns,
                   version |-> [c \in Columns |-> 0],
                   contents |-> [t \in Tables |-> "early"]]
      /\ edits = 0
      /\ job = [r \in Requests |-> NewJob]
      /\ disturbed = [r \in Requests |-> FALSE]
      /\ overlapped = FALSE
      /\ run = [g \in Runs |-> NewRun]
  BY DEF Init, IndexInit, GenerationInit
<1>2. SourceInv
  BY <1>1, IndexAssumption DEF SourceInv, Contents
<1>3. NewJob \in JobType /\ Bare(NewJob) /\ NewJob.pc = "idle"
  BY NewJobType DEF NewJob
<1>4. JobsInv
  BY <1>1, <1>3 DEF JobsInv
<1>5. NewRun \in RunType /\ NewRun.todo = {}
  BY DEF NewRun, RunType, RunPcs
<1>6. RunsInv
  BY <1>1, <1>5 DEF RunsInv
<1>7. store \in SUBSET Row
  BY <1>1, EarlierRows
<1>8. StoreRows
  <2>1. CASE store = {}
    BY <2>1 DEF StoreRows, UniqueIds, Rooted, AllPlaced, AllListed, NoHalfTables,
                RowsNamed
  <2> QED
    BY <1>1, <2>1, EarlierStands
<1>9. Numbered
  BY <1>1, EarlierRows DEF Numbered, Settled
<1>10. SavesInv
  BY <1>1, <1>3 DEF SavesInv, SavePcs
<1> QED
  BY <1>2, <1>4, <1>6, <1>7, <1>8, <1>9, <1>10 DEF MetaInv, TypesInv, StoreInv

LEMMA TablesHaveParents ==
  ASSUME StoreRows, store \in SUBSET Row
  PROVE  \A x \in RowsNamed(store, Tables) : x.parent \in RowId
<1>1. ASSUME NEW x \in store, Name(x) \in Tables PROVE x.parent \in RowId
  <2>1. Name(x) # DatabaseName
    BY <1>1, StoreAssumption
  <2> QED
    BY <2>1 DEF StoreRows, AllPlaced, Placed, Row
<1> QED
  BY <1>1 DEF RowsNamed

(* What a step of description generation does to the store.                 *)
LEMMA GenerationMoves ==
  ASSUME MetaInv, GenerationNext
  PROVE  \/ UNCHANGED store
         \/ \E g \in Runs : \E t \in run[g].todo : DescribeTable(g, t) /\ DescribedIn(g, t)
<1>1. PICK g \in Runs : Load(g) \/ NoDatabase(g) \/ Generate(g) \/ Crash(g)
  BY DEF GenerationNext
<1>2. CASE \E t \in run[g].todo : DescribeTable(g, t)
  BY <1>2, DescribeMoves DEF MetaInv, TypesInv, StoreInv, StoreRows
<1>3. CASE \/ Load(g) \/ NoDatabase(g) \/ Finish(g) \/ Crash(g)
           \/ \E t \in run[g].todo : CommitFails(g, t)
  BY <1>3 DEF Load, NoDatabase, Finish, Crash, CommitFails
<1> QED
  BY <1>1, <1>2, <1>3 DEF Generate

LEMMA MetaStep == MetaInv /\ [Next]_vars => MetaInv'
<1> SUFFICES ASSUME MetaInv, [Next]_vars PROVE MetaInv'
  OBVIOUS
<1>1. /\ SourceInv /\ JobsInv /\ RunsInv /\ store \in SUBSET Row /\ StoreInv
  BY DEF MetaInv, TypesInv
<1>2. CASE UNCHANGED vars
  <2>1. UNCHANGED <<store, source, edits, job, disturbed, overlapped, run>>
    BY <1>2 DEF vars, indexVars
  <2>2. Quiet
    BY <2>1 DEF Quiet
  <2>3. StoreInv'
    BY <1>1, <2>2, QuietKeeps
  <2>4. SourceInv' /\ JobsInv' /\ RunsInv'
    BY <1>1, <2>1 DEF SourceInv, JobsInv, RunsInv
  <2> QED
    BY <1>1, <2>1, <2>3, <2>4 DEF MetaInv, TypesInv
<1>3. CASE IndexNext /\ UNCHANGED run
  <2>1. RunsInv'
    BY <1>1, <1>3 DEF RunsInv
  <2>2. CASE SourceChanges
    <3>1. SourceInv' /\ JobsInv' /\ UNCHANGED <<store, job, overlapped>>
      BY <1>1, <2>2, SourceChangesType
    <3>2. Quiet
      BY <3>1 DEF Quiet
    <3>3. StoreInv'
      BY <1>1, <3>2, QuietKeeps
    <3> QED
      BY <1>1, <2>1, <3>1, <3>3 DEF MetaInv, TypesInv
  <2>3. CASE Quiet /\ JobsInv' /\ UNCHANGED <<source, edits>>
    <3>1. StoreInv' /\ UNCHANGED store
      BY <1>1, <2>3, QuietKeeps DEF Quiet
    <3>2. SourceInv'
      BY <1>1, <2>3 DEF SourceInv
    <3> QED
      BY <1>1, <2>1, <2>3, <3>1, <3>2 DEF MetaInv, TypesInv
  <2>4. CASE \E r \in Requests : UpsertDatabase(r)
    <3>1. StoreInv'
      BY <1>1, <2>4, BeginKeeps
    <3>2. JobsInv' /\ UNCHANGED <<store, source, edits>>
      BY <1>1, <2>4, BeginStep
    <3>3. SourceInv'
      BY <1>1, <3>2 DEF SourceInv
    <3> QED
      BY <1>1, <2>1, <3>1, <3>2, <3>3 DEF MetaInv, TypesInv
  <2>5. CASE \E r \in Requests : Upsert(r)
    <3>1. PICK r \in Requests : Upsert(r)
      BY <2>5
    <3>2. StoreInv'
      BY <1>1, <3>1, UpsertKeeps
    <3>3. DatabaseName \in DOMAIN job[r].ids
      BY <1>1, <3>1 DEF Upsert, StoreInv, SavesInv, Saving, SaveRight
    <3>4. JobsInv' /\ UNCHANGED <<store, source, edits>>
      BY <1>1, <3>1, <3>3, UpsertStep
    <3>5. SourceInv'
      BY <1>1, <3>4 DEF SourceInv
    <3> QED
      BY <1>1, <2>1, <3>2, <3>4, <3>5 DEF MetaInv, TypesInv
  <2>6. CASE \E r \in Requests : Commit(r)
    <3>1. PICK r \in Requests : Commit(r)
      BY <2>6
    <3>2. StoreInv'
      BY <1>1, <3>1, CommitKeeps
    <3>3. JobsInv' /\ UNCHANGED <<source, edits>>
      BY <1>1, <3>1, CommitIsSuccess
    <3>4. store' \in SUBSET Row
      BY <1>1, <3>1, CommitMoves DEF StoreInv, StoreRows
    <3>5. SourceInv'
      BY <1>1, <3>3 DEF SourceInv
    <3> QED
      BY <2>1, <3>2, <3>3, <3>4, <3>5 DEF MetaInv, TypesInv
  <2> QED
    BY <1>1, <1>3, <2>2, <2>3, <2>4, <2>5, <2>6, IndexCases
<1>4. CASE GenerationNext /\ UNCHANGED indexVars
  <2>1. RunsInv' /\ store' \in SUBSET Row
    <3>1. \A x \in RowsNamed(store, Tables) : x.parent \in RowId
      BY <1>1, TablesHaveParents DEF StoreInv
    <3> QED
      BY <1>1, <1>4, <3>1, GenerationType DEF StoreInv, StoreRows
  <2>2. UNCHANGED <<source, edits, job, disturbed, overlapped>>
    BY <1>4 DEF indexVars
  <2>3. SourceInv' /\ JobsInv'
    BY <1>1, <2>2 DEF SourceInv, JobsInv
  <2>4. StoreInv'
    <3>1. CASE UNCHANGED store
      <4>1. Quiet
        BY <2>2, <3>1 DEF Quiet
      <4> QED
        BY <1>1, <4>1, QuietKeeps
    <3>2. CASE RowsMove(store, {}, Nothing)
      BY <1>1, <2>2, <3>2, DescribeKeeps
    <3> QED
      BY <1>4, <3>1, <3>2, GenerationMoves DEF DescribedIn
  <2> QED
    BY <2>1, <2>3, <2>4 DEF MetaInv, TypesInv
<1> QED
  BY <1>2, <1>3, <1>4 DEF Next

LEMMA MetaAlways == Spec => []MetaInv
BY MetaInit, MetaStep, PTL DEF Spec

LEMMA MetaTypes == MetaInv => TypeOK
<1> SUFFICES ASSUME MetaInv PROVE TypeOK
  OBVIOUS
<1>1. SourceInv /\ JobsInv /\ RunsInv /\ store \in SUBSET Row /\ StoreRows
  BY DEF MetaInv, TypesInv, StoreInv
<1>2. \A x \in store : {x.parent, x.root} \subseteq IdsOf(store) \union {NoRow}
  BY <1>1 DEF StoreRows, Rooted, AllPlaced, Placed, IdsOf
<1>3. source.version \in [Columns -> 0..MaxEdits]
  <2>1. 0..edits \subseteq 0..MaxEdits
    BY <1>1, IndexAssumption DEF SourceInv
  <2> QED
    BY <1>1, <2>1 DEF SourceInv
<1>4. ASSUME NEW r \in Requests
      PROVE  /\ job[r].pc \in {"idle", "sample"} \union FetchPcs \union SavePcs \union Ended
             /\ job[r].tries \in 0..(MaxTries - 1)
             /\ job[r].inserts \subseteq Row
             /\ job[r].deletes \union Range(job[r].ids) \subseteq RowId
  <2>1. /\ job[r] \in JobType /\ job[r].ids \in Partial(Objects, RowId)
    BY <1>1 DEF JobsInv, JobType
  <2>2. Range(job[r].ids) \subseteq RowId
    BY <2>1, PartialParts DEF Range
  <2> QED
    BY <2>1, <2>2 DEF JobType, JobPcs
<1>5. ASSUME NEW g \in Runs
      PROVE  /\ run[g].pc \in {"idle", "generate", "success", "not_found", "aborted",
                               "crashed"}
             /\ run[g].rows \subseteq LoadedRow
             /\ run[g].todo \subseteq IdsOf(run[g].rows)
  BY <1>1 DEF RunsInv, RunType, RunPcs
<1>6. /\ edits \in 0..MaxEdits /\ source.columns \subseteq Columns
      /\ source.contents \in [Tables -> Contents]
      /\ disturbed \in [Requests -> BOOLEAN] /\ overlapped \in BOOLEAN
      /\ \A x, y \in store : x.id = y.id => x = y
  BY <1>1 DEF SourceInv, JobsInv, StoreRows, UniqueIds
<1> QED
  BY <1>1, <1>2, <1>3, <1>4, <1>5, <1>6 DEF TypeOK

(* The store, the requests and the runs always have their types; no row of  *)
(* the index shares its identifier with another or has lost its parent or   *)
(* its database, however requests and force_refreshes overlap.              *)
THEOREM TypeCorrect == Spec => []TypeOK
BY MetaAlways, MetaTypes, PTL

(* No table is ever in the index without a column.                          *)
THEOREM TablesAreWhole == Spec => []NoHalfTables
<1>1. MetaInv => NoHalfTables
  BY DEF MetaInv, StoreInv, StoreRows
<1> QED
  BY <1>1, MetaAlways, PTL

(* No indexed column lacks the list of samples that description generation  *)
(* slices.                                                                  *)
THEOREM SampleListsExist == Spec => []SamplesAreLists
<1>1. MetaInv => SamplesAreLists
  BY DEF MetaInv, StoreInv, StoreRows, AllListed, SamplesAreLists, RowsNamed
<1> QED
  BY <1>1, MetaAlways, PTL

=============================================================================
