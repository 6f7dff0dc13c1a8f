----------------------- MODULE OfflineMetadataProofs ------------------------
(***************************************************************************)
(* What extraction and description generation promise, from the invariant  *)
(* of OfflineMetadataRows and one more for each promise:                   *)
(*  - descriptions: TextsStand, of every step, and DescribeInv, that what a*)
(*    run has loaded and not described belongs to a table still to do;     *)
(*  - duplicates: SingleInv, that what the one saving request sees of the  *)
(*    index has no two rows of a name;                                     *)
(*  - the index as a mirror of the source: MirrorInv, what an undisturbed  *)
(*    request has seen of the source and has already saved of it;          *)
(*  - the contract with the readers of the index: TreesStand, of every step.*)
(***************************************************************************)
EXTENDS OfflineMetadataRows

(* Descriptions.                                                            *)

(* Whatever the step: a row whose identifier has been seen before has it    *)
(* from a row that has not lost its description, and a description is gone  *)
(* only with a tree that a forced request deletes.                          *)
TextsStand ==
  /\ SettledStays
  /\ \A y \in store' :
       \/ ~Settled(y.id)
       \/ \E x \in store : x.id = y.id /\ (x.text # NoText => y.text # NoText)
  /\ \A x \in store : x.text # NoText =>
       \/ \E y \in store' : y.id = x.id /\ y.text # NoText
       \/ \E r \in Requests : job[r].force /\ x.root \in job[r].deletes
                              /\ job'[r].pc = "success"

(* And it has its place from that row, of whose tree nothing is lost.       *)
TreesStand ==
  \A y \in store' :
    \/ ~Settled(y.id)
    \/ \E x \in store : /\ x.id = y.id /\ x.parent = y.parent
                         /\ \A z \in store : z.root = x.root =>
                              \E w \in store' : w.id = z.id /\ w.parent = z.parent

LEMMA SameStoreTexts ==
  ASSUME UNCHANGED store, SettledStays
  PROVE  TextsStand /\ TreesStand
BY DEF TextsStand, TreesStand

LEMMA MovedTexts ==
  ASSUME NEW kept, NEW new, NEW upd, RowsMove(kept, new, upd), SettledStays,
         \A x \in kept : x \in store,
         \A x \in kept, z \in store : z.root = x.root => z \in kept,
         \A y \in new : ~Settled(y.id),
         \A x \in store \ kept : \E r \in Requests :
           job[r].force /\ x.root \in job[r].deletes /\ job'[r].pc = "success"
  PROVE  TextsStand /\ TreesStand
<1>1. /\ \A y \in store' : y \in new \/ \E x \in kept : Same(x, y, upd)
      /\ \A x \in kept : \E y \in store' : Same(x, y, upd)
  BY DEF RowsMove
<1>2. \A x, y : Same(x, y, upd) =>
        /\ x.id = y.id /\ x.parent = y.parent
        /\ x.text # NoText => y.text # NoText
  BY DEF Same
<1>3. \A y \in store' :
        \/ ~Settled(y.id)
        \/ \E x \in store : x.id = y.id /\ (x.text # NoText => y.text # NoText)
  BY <1>1, <1>2
<1>4. ASSUME NEW x \in store, x.text # NoText
      PROVE  \/ \E y \in store' : y.id = x.id /\ y.text # NoText
             \/ \E r \in Requests : job[r].force /\ x.root \in job[r].deletes
                                    /\ job'[r].pc = "success"
  BY <1>1, <1>2, <1>4
<1>5. TreesStand
  <2> SUFFICES ASSUME NEW y \in store', Settled(y.id)
               PROVE  \E x \in store :
                        /\ x.id = y.id /\ x.parent = y.parent
                        /\ \A z \in store : z.root = x.root =>
                             \E w \in store' : w.id = z.id /\ w.parent = z.parent
    BY DEF TreesStand
  <2>1. PICK x \in kept : x.id = y.id /\ x.parent = y.parent
    BY <1>1, <1>2
  <2>2. \A z \in store : z.root = x.root =>
          \E w \in store' : w.id = z.id /\ w.parent = z.parent
    BY <1>1, <1>2
  <2> QED
    BY <2>1, <2>2
<1> QED
  BY <1>3, <1>4, <1>5 DEF TextsStand

LEMMA TextsMove ==
  ASSUME MetaInv, [Next]_vars
  PROVE  TextsStand /\ TreesStand
<1>1. /\ SourceInv /\ JobsInv /\ RunsInv /\ store \in SUBSET Row /\ StoreInv
  BY DEF MetaInv, TypesInv
<1>2. CASE UNCHANGED <<store, job>>
  <2>1. SettledStays
    BY <1>2 DEF SettledStays, Settled, SettledNext
  <2> QED
    BY <1>2, <2>1, SameStoreTexts
<1>3. CASE Quiet
  <2>1. SettledStays
    BY <1>3 DEF SettledStays, Settled, SettledNext, Quiet
  <2> QED
    BY <1>3, <2>1, SameStoreTexts DEF Quiet
<1>4. ASSUME NEW r \in Requests, UpsertDatabase(r) \/ Upsert(r)
      PROVE  TextsStand /\ TreesStand
  <2>1. /\ UNCHANGED store /\ job[r].pc \in SavePcs
        /\ \A q \in Requests \ {r} : job'[q] = job[q]
    BY <1>1, <1>4 DEF UpsertDatabase, Upsert, JobsInv, SavePcs
  <2>2. SettledStays
    BY <2>1 DEF SettledStays, Settled, SettledNext, SavePcs
  <2> QED
    BY <2>1, <2>2, SameStoreTexts
<1>5. ASSUME NEW r \in Requests, Commit(r)
      PROVE  TextsStand /\ TreesStand
  <2> DEFINE kept == WithoutTrees(store, job[r].deletes)
             new == job[r].inserts
  <2>1. /\ job[r].pc = "upsert" /\ job'[r].pc = "success"
        /\ \A q \in Requests \ {r} : job'[q] = job[q]
    BY <1>1, <1>5, CommitIsSuccess
  <2>2. RowsMove(kept, new, job[r].updates)
    BY <1>1, <1>5, CommitMoves DEF StoreInv, StoreRows
  <2>3. SaveRight(r, job[r])
    BY <1>1, <2>1 DEF StoreInv, SavesInv, Saving
  <2>4. SettledStays
    BY <2>1 DEF SettledStays, Settled, SettledNext
  <2>5. \A y \in new : ~Settled(y.id)
    <3>1. \A y \in new : y.id[1] = r
      BY <2>3 DEF SaveRight, InsertRight
    <3> QED
      BY <2>1, <3>1, StoreAssumption DEF Settled
  <2>6. \A x \in store \ kept : job[r].force /\ x.root \in job[r].deletes
    BY <2>3 DEF WithoutTrees, SaveRight
  <2>7. /\ \A x \in kept : x \in store
        /\ \A x \in kept, z \in store : z.root = x.root => z \in kept
    BY DEF WithoutTrees
  <2> HIDE DEF kept, new
  <2> QED
    BY <2>1, <2>2, <2>4, <2>5, <2>6, <2>7, MovedTexts
<1>6. CASE GenerationNext /\ UNCHANGED indexVars
  <2>1. SettledStays /\ UNCHANGED job
    BY <1>6 DEF indexVars, SettledStays, Settled, SettledNext
  <2>2. CASE RowsMove(store, {}, Nothing)
    BY <2>1, <2>2, MovedTexts
  <2>3. CASE UNCHANGED store
    BY <2>1, <2>3, SameStoreTexts
  <2> QED
    BY <1>6, <2>2, <2>3, GenerationMoves DEF DescribedIn
<1>7. CASE IndexNext
  <2>1. CASE SourceChanges
    BY <1>1, <1>2, <2>1, SourceChangesType
  <2> QED
    BY <1>1, <1>3, <1>4, <1>5, <1>7, <2>1, IndexCases
<1> QED
  BY <1>2, <1>6, <1>7 DEF Next, vars, indexVars

(* Whatever overlaps: a description disappears only with a database that a  *)
(* force_refresh deletes and replaces.                                      *)
THEOREM DescriptionsArePermanent == Spec => DescriptionsStay
<1>1. MetaInv /\ [Next]_vars =>
        [\A x \in store : x.text # NoText =>
           \/ \E y \in store' : y.id = x.id /\ y.text # NoText
           \/ \E r \in Requests : job[r].force /\ x.root \in job[r].deletes
                                  /\ job'[r].pc = "success"]_vars
  BY TextsMove DEF TextsStand
<1> QED
  BY <1>1, MetaAlways, PTL DEF Spec, DescriptionsStay

(* A run that describes, or has described, all it loaded: what has no text  *)
(* yet belongs to a table still to do.                                      *)
Awaits(g, i) ==
  \E x \in run[g].rows : x.id = i /\ (x.id \in run[g].todo \/ x.parent \in run[g].todo)

Describing(g) ==
  /\ \A x \in run[g].rows : Settled(x.id)
  /\ \A x \in run[g].rows, y \in store :
       x.id = y.id /\ x.text # NoText => y.text # NoText
  /\ \A y \in store : y.id \in IdsOf(run[g].rows) =>
       y.text # NoText \/ Awaits(g, y.id)
  /\ run[g].pc = "success" => run[g].todo = {}

DescribeInv ==
  \A g \in Runs : run[g].pc \in {"generate", "success"} => Describing(g)

LEMMA RunCases ==
  ASSUME MetaInv, [Next]_vars, NEW g \in Runs
  PROVE  \/ run'[g] = run[g]
         \/ Load(g)
         \/ \E t \in run[g].todo : DescribedIn(g, t)
         \/ Finish(g)
         \/ run'[g].pc \notin {"generate", "success"}
<1>1. CASE UNCHANGED run
  BY <1>1
<1>2. CASE GenerationNext
  <2>1. PICK h \in Runs : Load(h) \/ NoDatabase(h) \/ Generate(h) \/ Crash(h)
    BY <1>2 DEF GenerationNext
  <2>2. run \in [Runs -> RunType]
    BY DEF MetaInv, TypesInv, RunsInv
  <2>3. CASE h # g
    BY <2>1, <2>2, <2>3 DEF Load, NoDatabase, Generate, Finish, DescribeTable,
                            CommitFails, Rollback, Crash
  <2>4. CASE h = g
    <3>1. CASE \E t \in run[g].todo : DescribeTable(g, t)
      BY <3>1, DescribeMoves DEF MetaInv, TypesInv, StoreInv, StoreRows
    <3>2. CASE \/ NoDatabase(g) \/ Crash(g)
               \/ \E t \in run[g].todo : CommitFails(g, t)
      <4>1. CASE NoDatabase(g)
        <5>1. run'[g] = [run[g] EXCEPT !.pc = "not_found"] /\ run[g] \in RunType
          BY <2>2, <4>1 DEF NoDatabase
        <5>2. run'[g].pc = "not_found"
          BY <5>1 DEF RunType
        <5> QED
          BY <5>2
      <4>2. CASE Crash(g)
        BY <2>2, <4>2 DEF Crash, NewRun
      <4>3. CASE \E t \in run[g].todo : CommitFails(g, t)
        BY <2>2, <4>3 DEF CommitFails, Rollback, NewRun
      <4> QED
        BY <3>2, <4>1, <4>2, <4>3
    <3> QED
      BY <2>1, <2>4, <3>1, <3>2 DEF Generate
  <2> QED
    BY <2>3, <2>4
<1> QED
  BY <1>1, <1>2 DEF Next, vars, indexVars

LEMMA LoadDescribes ==
  ASSUME MetaInv, NEW g \in Runs, Load(g), UNCHANGED job
  PROVE  Describing(g)'
<1>1. /\ run \in [Runs -> RunType] /\ UniqueIds /\ Numbered
  BY DEF MetaInv, TypesInv, RunsInv, StoreInv, StoreRows
<1>2. PICK d \in RowsNamed(store, {DatabaseName}), names \in Selections :
        LET tables == RowsNamed({x \in store : x.root = d.id}, names)
            columns == {x \in store : x.parent \in IdsOf(tables)}
        IN run' = [run EXCEPT ![g] =
             [pc |-> "generate", todo |-> IdsOf(tables),
              rows |-> {Loaded(x) : x \in tables \union columns}]]
  BY DEF Load
<1> DEFINE tables == RowsNamed({x \in store : x.root = d.id}, names)
           columns == {x \in store : x.parent \in IdsOf(tables)}
<1>3. /\ run'[g].pc = "generate" /\ run'[g].todo = IdsOf(tables)
      /\ run'[g].rows = {Loaded(x) : x \in tables \union columns}
  BY <1>1, <1>2
<1>4. /\ \A x \in tables \union columns : x \in store
      /\ \A x \in tables \union columns : x.id \in IdsOf(tables) \/ x.parent \in IdsOf(tables)
  BY DEF RowsNamed, IdsOf
<1>5. store' = store
  BY DEF Load
<1>6. \A x : Loaded(x).id = x.id /\ Loaded(x).parent = x.parent /\ Loaded(x).text = x.text
  BY DEF Loaded
<1> HIDE DEF tables, columns
<1>7. \A x \in run'[g].rows : \E z \in tables \union columns : x = Loaded(z) /\ z \in store
  BY <1>3, <1>4
<1>8. \A x \in run'[g].rows : Settled(x.id)'
  <2>1. \A x \in run'[g].rows : Settled(x.id)
    BY <1>1, <1>6, <1>7 DEF Numbered
  <2> QED
    BY <2>1 DEF Settled
<1>9. \A x \in run'[g].rows, y \in store' :
        x.id = y.id /\ x.text # NoText => y.text # NoText
  BY <1>1, <1>5, <1>6, <1>7 DEF UniqueIds
<1>10. ASSUME NEW y \in store', y.id \in {x.id : x \in run'[g].rows}
       PROVE  \E x \in run'[g].rows :
                x.id = y.id /\ (x.id \in run'[g].todo \/ x.parent \in run'[g].todo)
  <2>1. PICK z \in tables \union columns : Loaded(z) \in run'[g].rows /\ z.id = y.id
    BY <1>3, <1>6, <1>10
  <2> QED
    BY <1>3, <1>4, <1>6, <2>1
<1> QED
  BY <1>3, <1>8, <1>9, <1>10 DEF Describing, Awaits, IdsOf

LEMMA DescribeInvStep == MetaInv /\ DescribeInv /\ [Next]_vars => DescribeInv'
<1> SUFFICES ASSUME MetaInv, DescribeInv, [Next]_vars,
                    NEW g \in Runs, run'[g].pc \in {"generate", "success"}
             PROVE  Describing(g)'
  BY DEF DescribeInv
<1>1. TextsStand /\ run \in [Runs -> RunType]
  BY TextsMove DEF MetaInv, TypesInv, RunsInv
(* As long as the loaded rows stay the same, so do the first two parts.     *)
<1>2. ASSUME Describing(g), run'[g].rows = run[g].rows
      PROVE  /\ \A x \in run'[g].rows : Settled(x.id)'
             /\ \A x \in run'[g].rows, y \in store' :
                  x.id = y.id /\ x.text # NoText => y.text # NoText
             /\ \A y \in store' : y.id \in IdsOf(run[g].rows) =>
                  \E x \in store : x.id = y.id /\ (x.text # NoText => y.text # NoText)
  <2>1. \A x \in run[g].rows : Settled(x.id) /\ SettledNext(x.id)
    BY <1>1, <1>2 DEF Describing, TextsStand, SettledStays
  <2>2. \A y \in store' : y.id \in IdsOf(run[g].rows) =>
          \E x \in store : x.id = y.id /\ (x.text # NoText => y.text # NoText)
    BY <1>1, <2>1 DEF IdsOf, TextsStand
  <2>3. \A x \in run[g].rows, y \in store' :
          x.id = y.id /\ x.text # NoText => y.text # NoText
    BY <1>2, <2>2 DEF Describing, IdsOf
  <2> QED
    BY <1>2, <2>1, <2>2, <2>3 DEF Settled, SettledNext
<1>3. CASE run'[g] = run[g]
  <2>1. Describing(g)
    BY <1>3 DEF DescribeInv
  <2>2. \A y \in store' : y.id \in IdsOf(run[g].rows) => y.text # NoText \/ Awaits(g, y.id)
    BY <1>2, <1>3, <2>1 DEF Describing
  <2> QED
    BY <1>2, <1>3, <2>1, <2>2 DEF Describing, Awaits, IdsOf
<1>4. CASE Load(g)
  <2>1. UNCHANGED job
    <3>1. run'[g] # run[g]
      BY <1>1, <1>4 DEF Load
    <3> QED
      BY <3>1 DEF Next, vars, indexVars
  <2> QED
    BY <1>4, <2>1, LoadDescribes
<1>5. ASSUME NEW t \in run[g].todo, DescribedIn(g, t) PROVE Describing(g)'
  <2>1. /\ run[g].pc = "generate" /\ run'[g].pc = "generate"
        /\ run'[g].rows = run[g].rows /\ run'[g].todo = run[g].todo \ {t}
    BY <1>1, <1>5 DEF DescribedIn, RunType
  <2>2. Describing(g)
    BY <2>1 DEF DescribeInv
  <2>3. ASSUME NEW y \in store', y.id \in IdsOf(run[g].rows), y.text = NoText
        PROVE  \E x \in run'[g].rows :
                 x.id = y.id /\ (x.id \in run'[g].todo \/ x.parent \in run'[g].todo)
    <3>1. PICK z \in store : z.id = y.id /\ z.text = NoText
      BY <1>2, <2>1, <2>2, <2>3
    <3>2. PICK x \in run[g].rows :
            x.id = y.id /\ (x.id \in run[g].todo \/ x.parent \in run[g].todo)
      BY <2>2, <2>3, <3>1 DEF Describing, Awaits
    <3>3. ASSUME x.id = t \/ x.parent = t PROVE FALSE
      <4>1. y.id \in IdsOf(RowsOf(g, t))
        BY <3>2, <3>3 DEF IdsOf, RowsOf
      <4>2. PICK w \in RowsOf(g, t) : w.id = y.id /\ w.text # NoText
        BY <1>5, <2>3, <4>1 DEF DescribedIn
      <4> QED
        BY <2>2, <3>1, <4>2 DEF Describing, RowsOf
    <3> QED
      BY <2>1, <3>2, <3>3
  <2> QED
    BY <1>2, <2>1, <2>2, <2>3 DEF Describing, Awaits, IdsOf
<1>6. CASE Finish(g)
  <2>1. /\ run[g].pc = "generate" /\ run[g].todo = {} /\ run'[g].todo = {}
        /\ run'[g].rows = run[g].rows
    BY <1>1, <1>6 DEF Finish, RunType
  <2>2. Describing(g)
    BY <2>1 DEF DescribeInv
  <2>3. \A y \in store' : y.id \in IdsOf(run[g].rows) => y.text # NoText
    BY <1>2, <2>1, <2>2 DEF Describing, Awaits
  <2> QED
    BY <1>2, <2>1, <2>2, <2>3 DEF Describing, IdsOf
<1> QED
  BY <1>3, <1>4, <1>5, <1>6, RunCases

(* A run that reports success has left no row it loaded without a text.     *)
THEOREM SuccessIsComplete == Spec => []SuccessDescribesAll
<1>1. Init => DescribeInv
  BY DEF Init, GenerationInit, NewRun, DescribeInv
<1>2. DescribeInv => SuccessDescribesAll
  BY DEF DescribeInv, Describing, Awaits, SuccessDescribesAll
<1> QED
  BY <1>1, <1>2, MetaAlways, DescribeInvStep, PTL DEF Spec

----------------------------------------------------------------------------
(* Duplicates.                                                              *)

Distinct(rows) == \A x, y \in rows : x.parent = y.parent /\ Name(x) = Name(y) => x = y

(* Without an overlap one request at most is saving, and neither the index  *)
(* nor what that request sees of it has two rows of a name.                 *)
SingleInv ==
  ~overlapped =>
    /\ \A q, r \in Requests : job[q].pc = "upsert" /\ job[r].pc = "upsert" => q = r
    /\ Distinct(store)
    /\ \A r \in Requests : job[r].pc = "upsert" => Distinct(View(r))

LEMMA DistinctMoves ==
  ASSUME NEW kept, NEW new, NEW moved, Distinct(kept \union new),
         \A x \in kept, y \in new : x.id # y.id,
         \A y \in moved : \/ y \in new
                          \/ \E x \in kept : x.id = y.id /\ x.parent = y.parent,
         \A y, z \in moved \ new : y.id = z.id => y = z
  PROVE  Distinct(moved \union new)
<1> SUFFICES ASSUME NEW y \in moved \union new, NEW z \in moved \union new,
                    y.parent = z.parent, Name(y) = Name(z)
             PROVE  y = z
  BY DEF Distinct
<1>1. PICK v \in kept \union new :
        /\ v.id = y.id /\ v.parent = y.parent /\ (y \in new <=> v \in new)
        /\ y \in new => v = y
  OBVIOUS
<1>2. PICK w \in kept \union new :
        /\ w.id = z.id /\ w.parent = z.parent /\ (z \in new <=> w \in new)
        /\ z \in new => w = z
  OBVIOUS
<1>3. Name(v) = Name(y) /\ Name(w) = Name(z)
  BY <1>1, <1>2 DEF Name
<1>4. v = w
  BY <1>1, <1>2, <1>3 DEF Distinct
<1> QED
  BY <1>1, <1>2, <1>4

(* The rows of a saving request carry a number the store does not know.     *)
LEMMA OwnRowsAreNew ==
  ASSUME StoreInv, NEW r \in Requests, job[r].pc = "upsert"
  PROVE  \A x \in store, y \in job[r].inserts : x.id # y.id
<1>1. \A y \in job[r].inserts : y.id[1] = r
  BY DEF StoreInv, SavesInv, Saving, SaveRight, InsertRight
<1>2. \A x \in store : x.id[1] # r
  BY StoreAssumption DEF StoreInv, Numbered, Settled
<1> QED
  BY <1>1, <1>2

LEMMA SingleInit == Init => SingleInv
<1> SUFFICES ASSUME Init PROVE SingleInv
  OBVIOUS
<1>1. store \in {{}, EarlierIndex} /\ job = [r \in Requests |-> NewJob]
  BY DEF Init, IndexInit
<1>2. \A r \in Requests : job[r].pc = "idle"
  BY <1>1 DEF NewJob
<1>3. Distinct(store)
  BY <1>1, EarlierRows DEF Distinct
<1> QED
  BY <1>2, <1>3 DEF SingleInv

LEMMA SingleQuiet ==
  ASSUME SingleInv, Quiet
  PROVE  SingleInv'
<1>1. /\ store' = store /\ overlapped' = overlapped
      /\ \A q \in Requests : job'[q].pc = "upsert" => job'[q] = job[q]
  BY DEF Quiet
<1> QED
  BY <1>1 DEF SingleInv, View, Distinct

LEMMA SingleBegin ==
  ASSUME MetaInv, SingleInv, NEW r \in Requests, UpsertDatabase(r)
  PROVE  SingleInv'
<1> SUFFICES ASSUME ~overlapped' PROVE SingleInv'
  BY DEF SingleInv
<1>1. /\ job[r].pc = "upsert_database" /\ job'[r].pc = "upsert" /\ Begun(r)
      /\ \A q \in Requests \ {r} : job'[q] = job[q]
      /\ overlapped' = (overlapped \/ \E q \in Requests \ {r} : job[q].pc = "upsert")
      /\ UNCHANGED store
  BY BeginStep DEF MetaInv, TypesInv
<1>2. ~overlapped /\ \A q \in Requests \ {r} : job'[q].pc # "upsert"
  BY <1>1
<1>3. Distinct(store)
  BY <1>2 DEF SingleInv
<1> DEFINE row == NewRow(r, DatabaseName, NoRow, <<r, DatabaseName>>, NoFacts)
           kept == WithoutTrees(store, job'[r].deletes)
<1>4. \A x \in store : Name(x) = DatabaseName => x.parent = NoRow /\ x.root = x.id
  BY DEF MetaInv, StoreInv, StoreRows, AllPlaced, Placed
<1>5. Name(row) = DatabaseName /\ row.parent = NoRow
  BY RowIdIs, ObjectFacts DEF NewRow, Name
<1>6. kept \subseteq store
  BY DEF WithoutTrees
<1>7. \/ /\ job'[r].inserts = {row} /\ \A x \in kept : Name(x) # DatabaseName
      \/ job'[r].inserts = {}
  <2>1. CASE RowsNamed(store, {DatabaseName}) = {}
    BY <1>1, <1>6, <2>1 DEF Begun, RowsNamed
  <2>2. ASSUME NEW d \in RowsNamed(store, {DatabaseName}), job'[r].deletes = {d.id}
        PROVE  \A x \in kept : Name(x) # DatabaseName
    <3>1. d \in store /\ Name(d) = DatabaseName
      BY <2>2 DEF RowsNamed
    <3>2. \A x \in kept : x \in store /\ x.root # d.id
      BY <2>2 DEF WithoutTrees
    <3> QED
      BY <1>3, <1>4, <3>1, <3>2 DEF Distinct
  <2> QED
    BY <1>1, <2>1, <2>2 DEF Begun
<1>8. View(r)' = kept \union job'[r].inserts
  BY <1>1 DEF View, WithoutTrees
<1>9. Distinct(View(r)')
  <2> HIDE DEF kept, row
  <2>1. \A x \in kept, y \in job'[r].inserts : Name(x) # Name(y)
    BY <1>5, <1>7
  <2>2. \A x, y \in job'[r].inserts : x = y
    BY <1>7
  <2> QED
    BY <1>3, <1>6, <1>8, <2>1, <2>2 DEF Distinct
<1> QED
  BY <1>1, <1>2, <1>3, <1>9 DEF SingleInv, Distinct

LEMMA SingleUpsert ==
  ASSUME MetaInv, SingleInv, NEW r \in Requests, Upsert(r)
  PROVE  SingleInv'
<1> SUFFICES ASSUME ~overlapped' PROVE SingleInv'
  BY DEF SingleInv
<1>1. DatabaseName \in DOMAIN job[r].ids
  BY DEF Upsert, MetaInv, StoreInv, SavesInv, Saving, SaveRight
<1>2. /\ JobsInv /\ job[r].pc = "upsert" /\ job'[r].pc = "upsert"
      /\ job'[r].deletes = job[r].deletes
      /\ \E o \in Pending(r) : Upserted(r, o)
      /\ \A q \in Requests \ {r} : job'[q] = job[q]
      /\ UNCHANGED <<store, overlapped>>
  BY <1>1, UpsertStep DEF MetaInv, TypesInv
<1>3. Distinct(store) /\ Distinct(View(r))
  BY <1>2 DEF SingleInv
<1>4. PICK o \in Pending(r) : Upserted(r, o)
  BY <1>2
<1> DEFINE row == NewRow(r, o, job[r].ids[Parent[o]], job[r].ids[DatabaseName],
                         FactsOf(r, o))
<1>5. View(r)' = WithoutTrees(store, job[r].deletes) \union job'[r].inserts
  BY <1>2 DEF View, WithoutTrees
<1>6. Name(row) = o /\ row.parent = job[r].ids[Parent[o]]
  BY DEF NewRow, Name
<1>7. Distinct(View(r)')
  <2>1. CASE job'[r].inserts = job[r].inserts
    BY <1>3, <1>5, <2>1 DEF View
  <2>2. CASE Match(r, o) = {} /\ job'[r].inserts = job[r].inserts \union {row}
    <3>1. View(r)' = View(r) \union {row}
      BY <1>5, <2>2 DEF View
    <3>2. \A x \in View(r) : ~(x.parent = row.parent /\ Name(x) = Name(row))
      BY <1>6, <2>2 DEF Match, RowsNamed, ChildrenOf
    <3> HIDE DEF row
    <3> QED
      BY <1>3, <3>1, <3>2 DEF Distinct
  <2> QED
    BY <1>4, <2>1, <2>2 DEF Upserted
<1>8. \A q \in Requests \ {r} : job[q].pc # "upsert"
  BY <1>2 DEF SingleInv
<1> QED
  BY <1>2, <1>3, <1>7, <1>8 DEF SingleInv, Distinct

LEMMA SingleCommit ==
  ASSUME MetaInv, SingleInv, NEW r \in Requests, Commit(r)
  PROVE  SingleInv'
<1> SUFFICES ASSUME ~overlapped' PROVE SingleInv'
  BY DEF SingleInv
<1> DEFINE kept == WithoutTrees(store, job[r].deletes)
           new == job[r].inserts
           upd == job[r].updates
<1>1. JobsInv /\ StoreInv /\ store \in SUBSET Row /\ UniqueIds
  BY DEF MetaInv, TypesInv, StoreInv, StoreRows
<1>2. /\ job[r].pc = "upsert" /\ job'[r].pc = "success"
      /\ \A q \in Requests \ {r} : job'[q] = job[q]
      /\ UNCHANGED overlapped
  BY <1>1, CommitIsSuccess
<1>3. RowsMove(kept, new, upd)
  BY <1>1, CommitMoves
<1>4. Distinct(kept \union new)
  BY <1>2 DEF SingleInv, View
<1>5. \A x \in kept, y \in new : x.id # y.id
  BY <1>1, <1>2, OwnRowsAreNew DEF WithoutTrees
<1> HIDE DEF kept, new, upd
<1>6. \A y \in store' : y \in new \/ \E x \in kept : x.id = y.id /\ x.parent = y.parent
  BY <1>3 DEF RowsMove, Same
<1>7. new \subseteq store' /\ \A y, z \in store' \ new : y.id = z.id => y = z
  BY <1>3 DEF RowsMove
<1>8. Distinct(store' \union new)
  BY <1>4, <1>5, <1>6, <1>7, DistinctMoves
<1>9. Distinct(store)'
  BY <1>7, <1>8 DEF Distinct
<1>10. \A q \in Requests : job'[q].pc # "upsert"
  BY <1>2 DEF SingleInv
<1> QED
  BY <1>9, <1>10 DEF SingleInv

LEMMA SingleDescribe ==
  ASSUME MetaInv, SingleInv, UNCHANGED <<job, overlapped>>, RowsMove(store, {}, Nothing)
  PROVE  SingleInv'
<1> SUFFICES ASSUME ~overlapped' PROVE SingleInv'
  BY DEF SingleInv
<1>1. /\ \A y \in store' : \E x \in store :
           x.id = y.id /\ x.parent = y.parent /\ x.root = y.root
      /\ \A y, z \in store' : y.id = z.id => y = z
  BY DEF RowsMove, Same
<1>2. Distinct(store) /\ StoreInv
  BY DEF SingleInv, MetaInv
<1>3. Distinct(store')
  <2>1. Distinct(store \union {})
    BY <1>2 DEF Distinct
  <2>2. /\ \A x \in store, y \in {} : x.id # y.id
        /\ \A y \in store' : \/ y \in {}
                              \/ \E x \in store : x.id = y.id /\ x.parent = y.parent
        /\ \A y, z \in store' \ {} : y.id = z.id => y = z
    BY <1>1
  <2>3. Distinct(store' \union {})
    BY ONLY <2>1, <2>2, DistinctMoves
  <2> QED
    BY <2>3 DEF Distinct
<1>4. ASSUME NEW q \in Requests, job[q].pc = "upsert" PROVE Distinct(View(q)')
  <2> DEFINE kept == WithoutTrees(store, job[q].deletes)
             new == job[q].inserts
             moved == WithoutTrees(store', job[q].deletes)
  <2>1. Distinct(kept \union new)
    BY <1>4 DEF SingleInv, View
  <2>2. \A x \in kept, y \in new : x.id # y.id
    BY <1>2, <1>4, OwnRowsAreNew DEF WithoutTrees
  <2>3. /\ \A y \in moved : \E x \in kept : x.id = y.id /\ x.parent = y.parent
        /\ \A y, z \in moved \ new : y.id = z.id => y = z
    BY <1>1 DEF WithoutTrees
  <2>4. View(q)' = moved \union new
    BY DEF View, WithoutTrees
  <2> HIDE DEF kept, new, moved
  <2>5. \A y \in moved : \/ y \in new
                         \/ \E x \in kept : x.id = y.id /\ x.parent = y.parent
    BY <2>3
  <2>6. Distinct(moved \union new)
    BY ONLY <2>1, <2>2, <2>3, <2>5, DistinctMoves
  <2> QED
    BY <2>4, <2>6
<1> QED
  BY <1>3, <1>4 DEF SingleInv, Distinct

LEMMA SingleStep == MetaInv /\ SingleInv /\ [Next]_vars => SingleInv'
<1> SUFFICES ASSUME MetaInv, SingleInv, [Next]_vars PROVE SingleInv'
  OBVIOUS
<1>1. CASE UNCHANGED <<store, job, overlapped>>
  <2>1. Quiet
    BY <1>1 DEF Quiet
  <2> QED
    BY <2>1, SingleQuiet
<1>2. CASE IndexNext
  <2>1. SourceInv /\ JobsInv
    BY DEF MetaInv, TypesInv
  <2>2. CASE SourceChanges
    BY <1>1, <2>1, <2>2, SourceChangesType
  <2> QED
    BY <1>2, <2>1, <2>2, IndexCases, SingleQuiet, SingleBegin, SingleUpsert, SingleCommit
<1>3. CASE GenerationNext /\ UNCHANGED indexVars
  <2>1. UNCHANGED <<job, overlapped>>
    BY <1>3 DEF indexVars
  <2>2. CASE UNCHANGED store
    BY <1>1, <2>1, <2>2
  <2> QED
    BY <1>3, <2>1, <2>2, GenerationMoves, SingleDescribe DEF DescribedIn
<1> QED
  BY <1>1, <1>2, <1>3 DEF Next, vars, indexVars

(* As long as no two requests save at the same time, no two rows of one     *)
(* name are under one parent, however often the source is indexed again.    *)
THEOREM OneRowPerName == Spec => []NoDuplicates
<1>1. SingleInv => NoDuplicates
  BY DEF SingleInv, Distinct, NoDuplicates
<1> QED
  BY <1>1, SingleInit, MetaAlways, SingleStep, PTL DEF Spec

----------------------------------------------------------------------------
(* What an undisturbed request knows of the source, and makes of it.        *)

Seen(r) ==
  LET j == job[r]
  IN /\ j.pc \in {"fetch_tables", "fetch_columns", "fetch_keys", "sample"} \union SavePcs =>
          j.schemas = SourceSchemas
     /\ j.pc \in {"fetch_columns", "fetch_keys", "sample"} => j.tables = SourceTables
     /\ j.pc \in {"fetch_keys", "sample"} => DOMAIN j.columns = source.columns
     /\ j.pc \in SavePcs => DOMAIN j.columns = Indexable(r)
     /\ j.pc \in {"fetch_keys", "sample"} \union SavePcs =>
          \A c \in DOMAIN j.columns : j.columns[c] = source.version[c]

(* The row of o is inserted, or kept, with the facts of the crawl.          *)
Inserted(r, o) ==
  \E x \in job[r].inserts :
    x.id = job[r].ids[o] /\ (o \in Columns => x.facts.version = job[r].columns[o])

FactsAfter(r, x) ==
  IF x.id \in DOMAIN job[r].updates THEN job[r].updates[x.id] ELSE x.facts

Found(r, o) ==
  \E x \in WithoutTrees(store, job[r].deletes) :
    /\ x.id = job[r].ids[o]
    /\ o \in Columns => FactsAfter(r, x).version = job[r].columns[o]

Saved(r) ==
  /\ job[r].force => job[r].ids[DatabaseName] = <<r, DatabaseName>>
  /\ \A i \in DOMAIN job[r].updates : i[2] \in DOMAIN job[r].ids
  /\ \A o \in DOMAIN job[r].ids : Inserted(r, o) \/ Found(r, o)

Mirrored(r) ==
  /\ \A c \in Indexable(r) : \E x \in store :
       /\ Name(x) = c /\ x.root = job[r].ids[DatabaseName]
       /\ x.facts.version = source.version[c]
  /\ job[r].force => {Name(x) : x \in RowsIndexed(r)} =
       {DatabaseName} \union SourceSchemas \union Indexable(r)
         \union {Parent[c] : c \in Indexable(r)}

MirrorsNow(r) ==
  /\ Seen(r)
  /\ job[r].pc = "upsert" => Saved(r)
  /\ job[r].pc = "success" => Mirrored(r)

MirrorInv == \A r \in Requests : ~disturbed[r] => MirrorsNow(r)

LEMMA RestMirrors ==
  ASSUME NEW r \in Requests, job'[r].pc \in {"idle", "failed", "fetch_schemas"}
  PROVE  MirrorsNow(r)'
BY DEF MirrorsNow, Seen, SavePcs

(* Neither the steps of others nor new texts are a disturbance.             *)
LEMMA MirrorsStand ==
  ASSUME NEW r \in Requests, MirrorsNow(r), job'[r] = job[r], source' = source,
         RowsMove(store, {}, Nothing)
  PROVE  MirrorsNow(r)'
<1>1. /\ \A x \in store : \E y \in store' :
           y.id = x.id /\ y.root = x.root /\ y.facts = x.facts
      /\ \A y \in store' : \E x \in store :
           y.id = x.id /\ y.root = x.root /\ y.facts = x.facts
  BY DEF RowsMove, Same, Nothing
<1>2. /\ SourceSchemas' = SourceSchemas /\ SourceTables' = SourceTables
      /\ Indexable(r)' = Indexable(r)
  BY DEF SourceSchemas, SourceTables, Indexable, HasSamples, FirstLook, FullScan
<1>3. Seen(r)'
  BY <1>2 DEF MirrorsNow, Seen
<1>4. ASSUME job[r].pc = "upsert" PROVE Saved(r)'
  <2>1. ASSUME NEW o \in DOMAIN job[r].ids, Inserted(r, o) PROVE Inserted(r, o)'
    BY <2>1 DEF Inserted
  <2>2. ASSUME NEW o \in DOMAIN job[r].ids, Found(r, o) PROVE Found(r, o)'
    <3>1. PICK x \in store :
            /\ x.root \notin job[r].deletes /\ x.id = job[r].ids[o]
            /\ o \in Columns => FactsAfter(r, x).version = job[r].columns[o]
      BY <2>2 DEF Found, WithoutTrees
    <3>2. PICK y \in store' : y.id = x.id /\ y.root = x.root /\ y.facts = x.facts
      BY <1>1
    <3> QED
      BY <3>1, <3>2 DEF Found, FactsAfter, WithoutTrees
  <2> QED
    BY <1>4, <2>1, <2>2 DEF MirrorsNow, Saved
<1>5. ASSUME job[r].pc = "success" PROVE Mirrored(r)'
  <2>1. Mirrored(r)
    BY <1>5 DEF MirrorsNow
  <2>2. {Name(x) : x \in RowsIndexed(r)} = {Name(x) : x \in RowsIndexed(r)'}
    BY <1>1 DEF RowsIndexed, Name
  <2>3. \A c \in Indexable(r) : \E y \in store' :
          /\ Name(y) = c /\ y.root = job[r].ids[DatabaseName]
          /\ y.facts.version = source.version[c]
    BY <1>1, <2>1 DEF Mirrored, Name
  <2> QED
    BY <1>2, <2>1, <2>2, <2>3 DEF Mirrored
<1> QED
  BY <1>3, <1>4, <1>5 DEF MirrorsNow

LEMMA StillMoves ==
  ASSUME UniqueIds, UNCHANGED store
  PROVE  RowsMove(store, {}, Nothing)
BY DEF UniqueIds, RowsMove, Same, Nothing

LEMMA FetchMirrors ==
  ASSUME JobsInv, NEW r \in Requests, MirrorsNow(r),
         \/ FetchSchemas(r) \/ FetchTables(r) \/ FetchColumns(r) \/ FetchKeys(r)
         \/ FetchFails(r) /\ ~Fail(r),
         SourceInv
  PROVE  MirrorsNow(r)'
<1>1. job[r] \in JobType
  BY DEF JobsInv
<1>2. Seen(r)
  BY DEF MirrorsNow
<1>3. source' = source => SourceSchemas' = SourceSchemas /\ SourceTables' = SourceTables
  BY DEF SourceSchemas, SourceTables
<1>4. CASE FetchSchemas(r)
  <2>1. /\ job'[r].pc = "fetch_tables" /\ job'[r].schemas = SourceSchemas
        /\ source' = source
    BY <1>1, <1>4 DEF FetchSchemas, Answered, JobsInv, JobType
  <2> QED
    BY <1>3, <2>1 DEF MirrorsNow, Seen, SavePcs
<1>5. CASE FetchTables(r)
  <2>1. /\ job[r].pc = "fetch_tables" /\ job'[r].pc = "fetch_columns"
        /\ job'[r].schemas = job[r].schemas /\ job'[r].tables = SourceTables
        /\ source' = source
    BY <1>1, <1>5 DEF FetchTables, Answered, JobsInv, JobType
  <2> QED
    BY <1>2, <1>3, <2>1 DEF MirrorsNow, Seen, SavePcs
<1>6. CASE FetchColumns(r)
  <2> DEFINE columns == Restrict(source.version, source.columns)
  <2>1. /\ job[r].pc = "fetch_columns" /\ job'[r].pc = "fetch_keys"
        /\ job'[r].schemas = job[r].schemas /\ job'[r].tables = job[r].tables
        /\ job'[r].columns = columns
        /\ source' = source
    BY <1>1, <1>6 DEF FetchColumns, Answered, JobsInv, JobType
  <2>2. DOMAIN columns = source.columns /\ \A c \in source.columns : columns[c] = source.version[c]
    BY SourceFacts
  <2> HIDE DEF columns
  <2> QED
    BY <1>2, <1>3, <2>1, <2>2 DEF MirrorsNow, Seen, SavePcs
<1>7. CASE FetchKeys(r)
  <2>1. /\ job[r].pc = "fetch_keys" /\ job'[r].pc = "sample"
        /\ job'[r].schemas = job[r].schemas /\ job'[r].tables = job[r].tables
        /\ job'[r].columns = job[r].columns
        /\ source' = source
    BY <1>1, <1>7 DEF FetchKeys, Answered, JobsInv, JobType
  <2> QED
    BY <1>2, <1>3, <2>1 DEF MirrorsNow, Seen, SavePcs
<1>8. CASE FetchFails(r) /\ ~Fail(r)
  <2>1. /\ job[r].pc \in FetchPcs /\ job'[r].pc = job[r].pc
        /\ job'[r].schemas = job[r].schemas /\ job'[r].tables = job[r].tables
        /\ job'[r].columns = job[r].columns
        /\ source' = source
    BY <1>1, <1>8 DEF FetchFails, JobsInv, JobType
  <2> QED
    BY <1>2, <1>3, <2>1 DEF MirrorsNow, Seen, SavePcs, FetchPcs
<1> QED
  BY <1>4, <1>5, <1>6, <1>7, <1>8

(* What is left after sampling is what is to be indexed.                    *)
LEMMA SampleMirrors ==
  ASSUME JobsInv, NEW r \in Requests, MirrorsNow(r), Sample(r)
  PROVE  MirrorsNow(r)'
<1>1. job[r].pc = "sample" /\ source' = source
  BY DEF Sample
<1>2. /\ job[r].schemas = SourceSchemas /\ job[r].tables = SourceTables
      /\ DOMAIN job[r].columns = source.columns
      /\ \A c \in DOMAIN job[r].columns : job[r].columns[c] = source.version[c]
  BY <1>1 DEF MirrorsNow, Seen
<1>3. PICK unread \in SUBSET job[r].tables :
        LET sampled == (job[r].tables \intersect SourceTables) \ unread
            kept == Kept(r, sampled)
        IN /\ job'[r].pc = "upsert_database"
           /\ job'[r].schemas = job[r].schemas
           /\ job'[r].unread = {t \in unread : HasSamples(t)}
           /\ DOMAIN job'[r].columns =
                {c \in DOMAIN job[r].columns : Parent[c] \in kept}
           /\ \A c \in DOMAIN job'[r].columns : job'[r].columns[c] = job[r].columns[c]
  BY SampleStep
<1> DEFINE kept == Kept(r, (job[r].tables \intersect SourceTables) \ unread)
<1>4. \A c \in source.columns :
        Parent[c] \in kept <=> HasSamples(Parent[c]) /\ Parent[c] \notin unread
  <2>1. \A c \in source.columns : Parent[c] \in SourceTables
    BY DEF SourceTables
  <2> QED
    BY <1>2, <2>1 DEF Kept
<1> HIDE DEF kept
<1>5. DOMAIN job'[r].columns = {c \in source.columns : Parent[c] \in kept}
  BY <1>2, <1>3 DEF kept
<1>6. /\ SourceSchemas' = SourceSchemas
      /\ \A t : HasSamples(t)' <=> HasSamples(t)
  BY <1>1 DEF SourceSchemas, SourceTables, HasSamples, FirstLook, FullScan
<1>7. Indexable(r)' = {c \in source.columns : HasSamples(Parent[c]) /\ Parent[c] \notin unread}
  BY <1>1, <1>3, <1>6 DEF Indexable
<1>8. DOMAIN job'[r].columns = Indexable(r)'
  BY <1>4, <1>5, <1>7
<1>9. /\ job'[r].pc = "upsert_database" /\ job'[r].schemas = SourceSchemas
      /\ \A c \in DOMAIN job'[r].columns : job'[r].columns[c] = source.version[c]
  BY <1>2, <1>3
<1> QED
  BY <1>1, <1>6, <1>8, <1>9 DEF MirrorsNow, Seen, SavePcs

(* What the crawl has seen stays the same throughout the transaction.       *)
LEMMA SeenStands ==
  ASSUME NEW r \in Requests, Seen(r), SameCrawl(r), source' = source,
         job[r].pc \in SavePcs, job'[r].pc \in SavePcs
  PROVE  Seen(r)'
<1>1. SourceSchemas' = SourceSchemas /\ Indexable(r)' = Indexable(r)
  BY DEF SourceSchemas, SourceTables, Indexable, HasSamples, FirstLook, FullScan, SameCrawl
<1> QED
  BY <1>1 DEF Seen, SameCrawl, SavePcs

LEMMA BeginMirrors ==
  ASSUME JobsInv, store \in SUBSET Row, NEW r \in Requests, MirrorsNow(r),
         UpsertDatabase(r)
  PROVE  MirrorsNow(r)'
<1>1. /\ job[r].pc = "upsert_database" /\ job'[r].pc = "upsert"
      /\ DOMAIN job'[r].ids = {DatabaseName} /\ DOMAIN job'[r].updates = {}
      /\ SameCrawl(r) /\ Begun(r) /\ UNCHANGED <<store, source>>
  BY BeginStep
<1>2. Seen(r)'
  BY <1>1, SeenStands DEF MirrorsNow, SavePcs
<1>3. DatabaseName \notin Columns
  BY StoreAssumption
<1>4. CASE /\ job'[r].ids[DatabaseName] = <<r, DatabaseName>>
           /\ job'[r].inserts =
                {NewRow(r, DatabaseName, NoRow, <<r, DatabaseName>>, NoFacts)}
  <2>1. NewRow(r, DatabaseName, NoRow, <<r, DatabaseName>>, NoFacts).id = <<r, DatabaseName>>
    BY DEF NewRow
  <2>2. Inserted(r, DatabaseName)'
    BY <1>3, <1>4, <2>1 DEF Inserted
  <2> QED
    BY <1>1, <1>2, <1>4, <2>2 DEF MirrorsNow, Saved
<1>5. CASE /\ \E x \in RowsNamed(store, {DatabaseName}) : job'[r].ids[DatabaseName] = x.id
           /\ job'[r].deletes = {} /\ ~job[r].force
  <2>1. Found(r, DatabaseName)'
    BY <1>1, <1>3, <1>5 DEF Found, WithoutTrees, RowsNamed
  <2> QED
    BY <1>1, <1>2, <1>5, <2>1 DEF MirrorsNow, Saved, SameCrawl
<1> QED
  BY <1>1, <1>4, <1>5 DEF Begun

LEMMA UpsertMirrors ==
  ASSUME JobsInv, store \in SUBSET Row, StoreInv, NEW r \in Requests, MirrorsNow(r),
         Upsert(r)
  PROVE  MirrorsNow(r)'
<1> DEFINE i == job[r].ids
           kept == WithoutTrees(store, job[r].deletes)
<1>1. job[r].pc = "upsert" /\ SaveRight(r, job[r])
  BY DEF Upsert, StoreInv, SavesInv, Saving
<1>2. /\ DatabaseName \in DOMAIN i
      /\ \A p \in DOMAIN i : i[p][2] = p
      /\ \A x \in job[r].inserts : Name(x) \in DOMAIN i
  BY <1>1 DEF SaveRight, InsertRight
<1>3. /\ job'[r].pc = "upsert" /\ SameCrawl(r) /\ job'[r].deletes = job[r].deletes
      /\ \E o \in Pending(r) : Upserted(r, o)
      /\ UNCHANGED <<store, source>>
  BY <1>2, UpsertStep
<1>4. Saved(r) /\ Seen(r)
  BY <1>1 DEF MirrorsNow
<1>5. Seen(r)'
  BY <1>1, <1>3, <1>4, SeenStands DEF SavePcs
<1>6. PICK o \in Pending(r) : Upserted(r, o)
  BY <1>3
<1>7. /\ o \in Objects /\ o # DatabaseName /\ o \notin DOMAIN i
      /\ o \in Columns => o \in DOMAIN job[r].columns
  BY PendingIs
<1> DEFINE facts == FactsOf(r, o)
           row == NewRow(r, o, i[Parent[o]], i[DatabaseName], facts)
<1>8. o \in Columns => facts.version = job[r].columns[o]
  BY <1>7, FactsOfType
<1>9. row.id = <<r, o>> /\ row.facts = facts
  BY DEF NewRow
<1>10. job'[r].columns = job[r].columns /\ job'[r].force = job[r].force
  BY <1>3 DEF SameCrawl
<1>11. ASSUME NEW id, job'[r].ids = Put(i, o, id)
       PROVE  /\ DOMAIN job'[r].ids = DOMAIN i \union {o} /\ job'[r].ids[o] = id
              /\ \A p \in DOMAIN i : job'[r].ids[p] = i[p]
  BY <1>7, <1>11 DEF Put
<1> HIDE DEF facts, row, i, kept
(* What had been saved before.                                              *)
<1>12. ASSUME NEW p \in DOMAIN i, job'[r].ids[p] = i[p],
              job[r].inserts \subseteq job'[r].inserts,
              \A x \in kept : x.id = i[p] => FactsAfter(r, x)' = FactsAfter(r, x)
       PROVE  Inserted(r, p)' \/ Found(r, p)'
  <2>1. CASE Inserted(r, p)
    BY <1>10, <1>12, <2>1 DEF Inserted, i
  <2>2. CASE Found(r, p)
    <3>1. PICK x \in kept :
            /\ x.id = i[p]
            /\ p \in Columns => FactsAfter(r, x).version = job[r].columns[p]
      BY <2>2 DEF Found, kept, i
    <3>2. x \in WithoutTrees(store', job'[r].deletes)
      BY <1>3, <3>1 DEF kept, WithoutTrees
    <3> QED
      BY <1>10, <1>12, <3>1, <3>2 DEF Found
  <2> QED
    BY <1>4, <2>1, <2>2 DEF Saved, i
<1>13. CASE /\ job'[r].ids = Put(i, o, <<r, o>>)
            /\ job'[r].inserts = job[r].inserts \union {row}
            /\ job'[r].updates = job[r].updates
  <2>1. \A x : FactsAfter(r, x)' = FactsAfter(r, x)
    BY <1>13 DEF FactsAfter
  <2>2. Inserted(r, o)'
    BY <1>8, <1>9, <1>10, <1>11, <1>13 DEF Inserted
  <2>3. \A p \in DOMAIN i : Inserted(r, p)' \/ Found(r, p)'
    BY <1>11, <1>12, <1>13, <2>1
  <2>4. Saved(r)'
    BY <1>2, <1>4, <1>10, <1>11, <1>13, <2>2, <2>3 DEF Saved, i
  <2> QED
    BY <1>3, <1>5, <2>4 DEF MirrorsNow
<1>14. ASSUME NEW z \in Match(r, o),
              job'[r].ids = Put(i, o, z.id), job'[r].inserts = job[r].inserts,
              job'[r].updates = IF z.facts = facts THEN job[r].updates
                                ELSE Put(job[r].updates, z.id, facts)
       PROVE  MirrorsNow(r)'
  <2>1. z \in kept \union job[r].inserts /\ z.id[2] = o
    BY DEF Match, RowsNamed, ChildrenOf, View, Name, kept
  <2>2. z \in kept
    BY <1>2, <1>7, <2>1 DEF Name
  <2>3. z.id \notin DOMAIN job[r].updates
    BY <1>4, <1>7, <2>1 DEF Saved, i
  <2>4. /\ DOMAIN job'[r].updates \subseteq DOMAIN job[r].updates \union {z.id}
        /\ \A k \in DOMAIN job[r].updates :
             k \in DOMAIN job'[r].updates /\ job'[r].updates[k] = job[r].updates[k]
        /\ z.facts # facts => z.id \in DOMAIN job'[r].updates /\ job'[r].updates[z.id] = facts
        /\ z.facts = facts => z.id \notin DOMAIN job'[r].updates
    BY <1>14, <2>3 DEF Put
  <2>5. FactsAfter(r, z)' = facts
    BY <2>4 DEF FactsAfter
  <2>6. \A x : x.id # z.id => FactsAfter(r, x)' = FactsAfter(r, x)
    BY <2>4 DEF FactsAfter
  <2>7. Found(r, o)'
    <3>1. z \in WithoutTrees(store', job'[r].deletes)
      BY <1>3, <2>2 DEF kept, WithoutTrees
    <3> QED
      BY <1>8, <1>10, <1>11, <1>14, <2>5, <3>1 DEF Found
  <2>8. \A p \in DOMAIN i : i[p] # z.id
    BY <1>2, <1>7, <2>1
  <2>9. \A p \in DOMAIN i : Inserted(r, p)' \/ Found(r, p)'
    BY <1>11, <1>12, <1>14, <2>6, <2>8
  <2>10. \A k \in DOMAIN job'[r].updates : k[2] \in DOMAIN job'[r].ids
    BY <1>4, <1>11, <1>14, <2>1, <2>4 DEF Saved, i
  <2>11. Saved(r)'
    BY <1>2, <1>4, <1>10, <1>11, <1>14, <2>7, <2>9, <2>10 DEF Saved, i
  <2> QED
    BY <1>3, <1>5, <2>11 DEF MirrorsNow
<1> QED
  BY <1>6, <1>13, <1>14 DEF Upserted, facts, row, i

(* An undisturbed request has saved all there was to save when nothing is   *)
(* left whose parent has been saved.                                        *)
LEMMA AllSaved ==
  ASSUME JobsInv, NEW r \in Requests, Seen(r), job[r].pc = "upsert",
         Filtered(job[r]), SaveRight(r, job[r]), Pending(r) = {}, SourceInv
  PROVE  /\ DOMAIN job[r].columns = Indexable(r)
         /\ DOMAIN job[r].ids = {DatabaseName} \union SourceSchemas \union Indexable(r)
                                  \union {Parent[c] : c \in Indexable(r)}
<1> DEFINE i == job[r].ids
<1>1. /\ DatabaseName \in DOMAIN i /\ DOMAIN i \subseteq Objectives(job[r])
      /\ job[r].schemas = SourceSchemas /\ DOMAIN job[r].columns = Indexable(r)
  BY DEF SaveRight, Seen, SavePcs
<1>2. /\ Waiting(r, job[r].schemas) = {} /\ Waiting(r, job[r].tables) = {}
      /\ Waiting(r, DOMAIN job[r].columns) = {}
  BY DEF Pending
<1>3. job[r].tables = {Parent[c] : c \in Indexable(r)}
  BY <1>1 DEF Filtered
<1>4. \A c \in Indexable(r) : Parent[c] \in SourceTables
  BY DEF Indexable, SourceTables
<1>5. SourceSchemas \subseteq DOMAIN i
  <2>1. \A s \in SourceSchemas : Parent[s] = DatabaseName
    BY SourceFacts, StoreAssumption
  <2> QED
    BY <1>1, <1>2, <2>1 DEF Waiting
<1>6. job[r].tables \subseteq DOMAIN i
  <2>1. \A t \in job[r].tables : Parent[t] \in SourceSchemas
    BY <1>3, <1>4 DEF SourceSchemas
  <2> QED
    BY <1>2, <1>5, <2>1 DEF Waiting
<1>7. Indexable(r) \subseteq DOMAIN i
  BY <1>1, <1>2, <1>3, <1>6 DEF Waiting
<1> QED
  BY <1>1, <1>3, <1>5, <1>6, <1>7 DEF Objectives

LEMMA CommitMirrors ==
  ASSUME MetaInv, NEW r \in Requests, MirrorsNow(r), Commit(r)
  PROVE  MirrorsNow(r)'
<1> DEFINE i == job[r].ids
           kept == WithoutTrees(store, job[r].deletes)
           new == job[r].inserts
           upd == job[r].updates
           tree == i[DatabaseName]
<1>1. /\ SourceInv /\ JobsInv /\ StoreInv /\ store \in SUBSET Row /\ UniqueIds
      /\ Rooted /\ Numbered
  BY DEF MetaInv, TypesInv, StoreInv, StoreRows
<1>2. /\ job[r].pc = "upsert" /\ job'[r].pc = "success"
      /\ job'[r].force = job[r].force /\ job'[r].unread = job[r].unread
      /\ job'[r].ids[DatabaseName] = tree
      /\ source' = source
  BY <1>1, CommitIsSuccess
<1>3. SaveRight(r, job[r]) /\ FoundStand(r) /\ Filtered(job[r]) /\ Pending(r) = {}
  BY <1>1, <1>2 DEF StoreInv, SavesInv, Saving, SavePcs, Commit
<1>4. Seen(r) /\ Saved(r)
  BY <1>2 DEF MirrorsNow
<1>5. /\ DOMAIN job[r].columns = Indexable(r)
      /\ DOMAIN i = {DatabaseName} \union SourceSchemas \union Indexable(r)
                      \union {Parent[c] : c \in Indexable(r)}
  BY <1>1, <1>2, <1>3, <1>4, AllSaved
<1>6. /\ \A c \in Indexable(r) : job[r].columns[c] = source.version[c]
      /\ Indexable(r) \subseteq Columns
  BY <1>1, <1>2, <1>4, <1>5 DEF Seen, SavePcs, Indexable, SourceInv
<1>7. RowsMove(kept, new, upd)
  BY <1>1, CommitMoves
<1>8. /\ \A y \in store' : y \in new \/ \E x \in kept : Same(x, y, upd)
      /\ \A x \in kept : \E y \in store' : Same(x, y, upd)
      /\ new \subseteq store'
  BY <1>7 DEF RowsMove
<1>9. \A x, y : Same(x, y, upd) =>
        y.id = x.id /\ y.root = x.root /\ y.facts = FactsAfter(r, x)
  BY DEF Same, FactsAfter
<1>10. /\ \A o \in DOMAIN i : i[o][2] = o
       /\ \A x \in new : x.root = tree /\ Name(x) \in DOMAIN i /\ i[Name(x)] = x.id
  BY <1>3 DEF SaveRight, InsertRight
<1>11. \A o \in DOMAIN i, x \in kept : x \in store /\ (x.id = i[o] => x.root = tree)
  BY <1>3 DEF FoundStand, WithoutTrees
<1>12. \A o \in DOMAIN i :
         \/ \E x \in new : x.id = i[o] /\ (o \in Columns => x.facts.version = job[r].columns[o])
         \/ \E x \in kept : x.id = i[o]
              /\ (o \in Columns => FactsAfter(r, x).version = job[r].columns[o])
  BY <1>4 DEF Saved, Inserted, Found
<1>13. Indexable(r)' = Indexable(r) /\ SourceSchemas' = SourceSchemas
  BY <1>2 DEF Indexable, HasSamples, FirstLook, FullScan, SourceSchemas, SourceTables
<1>14. job[r].force => tree = <<r, DatabaseName>>
  BY <1>4 DEF Saved
<1> HIDE DEF i, kept, new, upd, tree
<1>15. ASSUME NEW c \in Indexable(r)
       PROVE  \E y \in store' : /\ Name(y) = c /\ y.root = tree
                                /\ y.facts.version = source.version[c]
  <2>1. c \in DOMAIN i /\ c \in Columns /\ job[r].columns[c] = source.version[c]
    BY <1>5, <1>6
  <2>2. CASE \E x \in new : x.id = i[c] /\ x.facts.version = job[r].columns[c]
    BY <1>8, <1>10, <2>1, <2>2 DEF Name
  <2>3. CASE \E x \in kept : x.id = i[c] /\ FactsAfter(r, x).version = job[r].columns[c]
    <3>1. PICK x \in kept : x.id = i[c] /\ FactsAfter(r, x).version = job[r].columns[c]
      BY <2>3
    <3>2. PICK y \in store' : Same(x, y, upd)
      BY <1>8
    <3>3. y.id = i[c] /\ y.root = tree /\ y.facts = FactsAfter(r, x)
      BY <1>9, <1>11, <2>1, <3>1, <3>2
    <3> QED
      BY <1>10, <2>1, <3>1, <3>3 DEF Name
  <2> QED
    BY <1>12, <2>1, <2>2, <2>3
(* No row of the store belongs to a tree of r.                              *)
<1>16. ASSUME job[r].force
       PROVE  {Name(y) : y \in {y \in store' : y.root = tree}} = DOMAIN i
  <2>1. \A x \in kept : x.root # tree
    <3>1. \A x \in store : x.root # <<r, DatabaseName>>
      <4> SUFFICES ASSUME NEW x \in store, x.root = <<r, DatabaseName>> PROVE FALSE
        OBVIOUS
      <4>1. PICK d \in store : d.id = <<r, DatabaseName>>
        BY <1>1 DEF Rooted
      <4>2. Settled(d.id) /\ d.id[1] = r
        BY <1>1, <4>1 DEF Numbered
      <4> QED
        BY <1>2, <4>2, StoreAssumption DEF Settled
    <3> QED
      BY <1>14, <1>16, <3>1 DEF kept, WithoutTrees
  <2>2. \A y \in store' : y.root = tree <=> y \in new
    BY <1>8, <1>9, <1>10, <2>1
  <2>3. \A o \in DOMAIN i : \E x \in new : x.id = i[o] /\ Name(x) = o
    BY <1>10, <1>11, <1>12, <2>1 DEF Name
  <2>4. {y \in store' : y.root = tree} = new
    BY <1>8, <2>2
  <2>5. {Name(y) : y \in new} = DOMAIN i
    <3>1. \A o \in DOMAIN i : o \in {Name(y) : y \in new}
      BY <2>3
    <3>2. \A y \in new : Name(y) \in DOMAIN i
      BY <1>10
    <3> QED
      BY <3>1, <3>2
  <2> QED
    BY <2>4, <2>5
<1>17. Mirrored(r)'
  <2>1. RowsIndexed(r)' = {y \in store' : y.root = tree}
    BY <1>2 DEF RowsIndexed
  <2> QED
    BY <1>2, <1>5, <1>13, <1>15, <1>16, <2>1 DEF Mirrored
<1>18. Seen(r)'
  BY <1>2 DEF Seen, SavePcs
<1> QED
  BY <1>2, <1>17, <1>18 DEF MirrorsNow

(* The steps of a request, up to the rollbacks.                             *)
LEMMA RequestSteps ==
  ASSUME NEW q \in Requests,
         Work(q) \/ Fault(q) \/ \E force \in BOOLEAN : Start(q, force)
  PROVE  \/ Fail(q) \/ Commit(q) \/ UpsertDatabase(q) \/ Upsert(q) \/ Sample(q)
         \/ FetchSchemas(q) \/ FetchTables(q) \/ FetchColumns(q) \/ FetchKeys(q)
         \/ FetchFails(q) /\ ~Fail(q)
         \/ \E force \in BOOLEAN : Start(q, force)
BY DEF Work, Crawl, Save, Fault, ForeignKeyFails, SaveFails

LEMMA OthersStand ==
  ASSUME MetaInv, NEW q \in Requests, NEW r \in Requests \ {q},
         Work(q) \/ Fault(q) \/ \E force \in BOOLEAN : Start(q, force), ~Commit(q)
  PROVE  job'[r] = job[r] /\ disturbed'[r] = disturbed[r] /\ UNCHANGED <<store, source>>
<1>1. SourceInv /\ JobsInv /\ store \in SUBSET Row /\ StoreInv
  BY DEF MetaInv, TypesInv
<1>2. CASE Fail(q)
  BY <1>1, <1>2 DEF Fail, EndAs, JobsInv
<1>3. CASE UpsertDatabase(q)
  BY <1>1, <1>3, BeginStep
<1>4. CASE Upsert(q)
  <2>1. DatabaseName \in DOMAIN job[q].ids
    BY <1>1, <1>4 DEF Upsert, StoreInv, SavesInv, Saving, SaveRight
  <2> QED
    BY <1>1, <1>4, <2>1, UpsertStep
<1>5. CASE \/ FetchSchemas(q) \/ FetchTables(q) \/ FetchColumns(q) \/ FetchKeys(q)
  BY <1>1, <1>5 DEF FetchSchemas, FetchTables, FetchColumns, FetchKeys, Answered, JobsInv
<1>6. CASE FetchFails(q) /\ ~Fail(q)
  BY <1>1, <1>6 DEF FetchFails, JobsInv
<1>7. CASE Sample(q)
  <2>1. CrawlStep(q)
    BY <1>1, <1>7, SampleStep
  <2> QED
    BY <1>1, <2>1, CrawlStepType
<1>8. CASE \E force \in BOOLEAN : Start(q, force)
  BY <1>1, <1>8 DEF Start, JobsInv
<1> QED
  BY <1>2, <1>3, <1>4, <1>5, <1>6, <1>7, <1>8, RequestSteps

LEMMA MirrorStep == MetaInv /\ MirrorInv /\ [Next]_vars => MirrorInv'
<1> SUFFICES ASSUME MetaInv, MirrorInv, [Next]_vars, NEW r \in Requests, ~disturbed'[r]
             PROVE  MirrorsNow(r)'
  BY DEF MirrorInv
<1>1. SourceInv /\ JobsInv /\ store \in SUBSET Row /\ StoreInv /\ UniqueIds
  BY DEF MetaInv, TypesInv, StoreInv, StoreRows
<1>2. CASE job'[r] = job[r] /\ disturbed'[r] = disturbed[r] /\ UNCHANGED <<store, source>>
  <2>1. MirrorsNow(r) /\ RowsMove(store, {}, Nothing)
    BY <1>1, <1>2, StillMoves DEF MirrorInv
  <2> QED
    BY <1>2, <2>1, MirrorsStand
<1>3. CASE disturbed' = [q \in Requests |-> Underway(q)] /\ job' = job
  BY <1>3, RestMirrors DEF Underway
<1>4. CASE SourceChanges
  <2>1. disturbed' = [q \in Requests |-> Underway(q)] /\ job' = job
    BY <1>4 DEF SourceChanges, EditSource
  <2> QED
    BY <1>3, <2>1
<1>5. ASSUME NEW q \in Requests, q # r,
             Work(q) \/ Fault(q) \/ \E force \in BOOLEAN : Start(q, force)
      PROVE  MirrorsNow(r)'
  <2>1. CASE Commit(q)
    <3>1. job'[r] = job[r]
      BY <1>1, <1>5, <2>1, CommitIsSuccess
    <3>2. ~Underway(r)
      BY <1>5, <2>1 DEF Commit
    <3> QED
      BY <3>1, <3>2, RestMirrors DEF Underway
  <2> QED
    BY <1>2, <1>5, <2>1, OthersStand
<1>6. ASSUME Work(r) \/ Fault(r) \/ \E force \in BOOLEAN : Start(r, force)
      PROVE  MirrorsNow(r)'
  <2>1. CASE Fail(r)
    BY <1>1, <2>1, FailStep, RestMirrors
  <2>2. CASE \E force \in BOOLEAN : Start(r, force)
    <3>1. job'[r].pc = "fetch_schemas"
      BY <1>1, <2>2 DEF Start, JobsInv, JobType
    <3> QED
      BY <3>1, RestMirrors
  <2>3. CASE /\ \/ Commit(r) \/ UpsertDatabase(r) \/ Upsert(r) \/ Sample(r)
                \/ FetchSchemas(r) \/ FetchTables(r) \/ FetchColumns(r) \/ FetchKeys(r)
                \/ FetchFails(r) /\ ~Fail(r)
    <3>1. disturbed'[r] = disturbed[r]
      BY <1>1, <2>3 DEF Commit, UpsertDatabase, Upsert, Sample, FetchSchemas,
           FetchTables, FetchColumns, FetchKeys, FetchFails, Answered, JobsInv
    <3>2. MirrorsNow(r)
      BY <3>1 DEF MirrorInv
    <3> QED
      BY <1>1, <2>3, <3>2, CommitMirrors, UpsertMirrors, BeginMirrors, SampleMirrors,
         FetchMirrors
  <2> QED
    BY <1>6, <2>1, <2>2, <2>3, RequestSteps
<1>7. CASE GenerationNext /\ UNCHANGED indexVars
  <2>1. UNCHANGED <<job, source, disturbed>>
    BY <1>7 DEF indexVars
  <2>2. RowsMove(store, {}, Nothing)
    BY <1>1, <1>7, GenerationMoves, StillMoves DEF DescribedIn
  <2> QED
    BY <2>1, <2>2, MirrorsStand DEF MirrorInv
<1>8. CASE UNCHANGED vars
  BY <1>2, <1>8 DEF vars, indexVars
<1> QED
  BY <1>4, <1>5, <1>6, <1>7, <1>8 DEF Next, IndexNext

LEMMA MirrorHolds == MetaInv /\ MirrorInv => IndexMirrorsSource
<1> SUFFICES ASSUME MetaInv, NEW r \in Requests, Mirrored(r)
             PROVE  /\ \A c \in Indexable(r) : \E x \in RowsNamed(RowsIndexed(r), {c}) :
                         RightPlace(x) /\ x.facts.version = source.version[c]
                    /\ job[r].force =>
                         /\ {Name(x) : x \in RowsIndexed(r)} =
                              {DatabaseName} \union SourceSchemas \union Indexable(r)
                                \union {Parent[c] : c \in Indexable(r)}
                         /\ \A x \in RowsIndexed(r) : RightPlace(x)
  BY DEF MirrorInv, MirrorsNow, IndexMirrorsSource
<1>1. \A x \in store : RightPlace(x)
  BY DEF MetaInv, StoreInv, StoreRows, AllPlaced, Placed, RightPlace
<1> QED
  BY <1>1 DEF Mirrored, RowsNamed, RowsIndexed

(* An index request that succeeds undisturbed leaves the index a mirror of  *)
(* what it was to find of the source; a forced one leaves nothing else.     *)
THEOREM IndexIsMirror == Spec => []IndexMirrorsSource
<1>1. Init => MirrorInv
  <2> SUFFICES ASSUME Init, NEW r \in Requests PROVE MirrorsNow(r)
    BY DEF MirrorInv
  <2>1. job[r].pc = "idle"
    BY DEF Init, IndexInit, NewJob
  <2> QED
    BY <2>1 DEF MirrorsNow, Seen, SavePcs
<1> QED
  BY <1>1, MetaAlways, MirrorStep, MirrorHolds, PTL DEF Spec

----------------------------------------------------------------------------
(* The index as its readers see it.                                         *)

Entry(x) == [id |-> x.id, schema |-> x.parent[2], name |-> Name(x),
             columns |-> {Name(y) : y \in ChildrenOf(store, x.id)}]

(* A table is in its schema, and what is in it are its columns.             *)
LEMMA TableOfIndex ==
  ASSUME MetaInv, NEW x \in RowsNamed(store, Tables)
  PROVE  Entry(x) \in Catalog!Entry /\ Entry(x).id \in IdsGiven
<1>1. /\ store \in SUBSET Row /\ UniqueIds /\ AllPlaced /\ Numbered
  BY DEF MetaInv, TypesInv, StoreInv, StoreRows
<1>2. x \in store /\ x \in Row /\ Name(x) \in Tables /\ Settled(x.id) /\ x.id \in RowId
  BY <1>1 DEF RowsNamed, Row, Numbered
<1>3. Name(x) # DatabaseName
  BY <1>2, StoreAssumption
<1>4. x.parent[2] \in Schemas
  <2>1. PICK y \in store : y.id = x.parent /\ Name(y) = Parent[Name(x)]
    BY <1>1, <1>2, <1>3 DEF AllPlaced, Placed
  <2> QED
    BY <1>2, <2>1, ObjectFacts DEF Name
<1>5. ASSUME NEW y \in ChildrenOf(store, x.id) PROVE Name(y) \in Columns
  <2>1. y \in store /\ y \in Row /\ y.parent = x.id /\ Placed(y, store)
    BY <1>1 DEF ChildrenOf, AllPlaced
  <2>2. Name(y) \in Objects /\ Name(y) # DatabaseName
    BY <1>2, <2>1, StoreAssumption DEF Placed, Row, RowId, Name
  <2>3. Parent[Name(y)] = Name(x)
    BY <2>1, <2>2 DEF Placed, Name
  <2> QED
    BY <1>2, <2>2, <2>3, StoreAssumption DEF Objects
<1>6. x.id \in IdsGiven
  BY <1>2 DEF IdsGiven, Settled, RowId
<1> QED
  BY <1>2, <1>4, <1>5, <1>6 DEF Entry, Catalog!Entry

LEMMA IndexIsNumbered ==
  ASSUME MetaInv
  PROVE  Catalog!Numbered(TablesIndexed, IdsGiven)
<1>1. \A e \in TablesIndexed :
        \E x \in RowsNamed(store, Tables) : e = Entry(x) /\ e.id = x.id
  BY DEF TablesIndexed, Entry
<1>2. \A e \in TablesIndexed : e \in Catalog!Entry /\ e.id \in IdsGiven
  BY <1>1, TableOfIndex
<1>3. \A e, f \in TablesIndexed : e.id = f.id => e = f
  BY <1>1 DEF MetaInv, StoreInv, StoreRows, UniqueIds, RowsNamed
<1>4. IdsGiven \subseteq RowId
  BY DEF IdsGiven, RowId
<1> QED
  BY <1>2, <1>3, <1>4 DEF Catalog!Numbered

(* A table whose identifier was there before is the same table still.       *)
LEMMA TableContinues ==
  ASSUME MetaInv, TreesStand, NEW e \in TablesIndexed', e.id \in IdsGiven
  PROVE  \E d \in TablesIndexed : Catalog!Continues(e, d)
<1>1. PICK y \in store' :
        /\ Name(y) \in Tables
        /\ e = [id |-> y.id, schema |-> y.parent[2], name |-> Name(y),
                columns |-> {Name(z) : z \in {w \in store' : w.parent = y.id}}]
  BY DEF TablesIndexed, RowsNamed, ChildrenOf, Name
<1>2. Settled(y.id)
  BY <1>1, StoreAssumption DEF IdsGiven, Settled, RowId
<1>3. PICK x \in store :
        /\ x.id = y.id /\ x.parent = y.parent
        /\ \A z \in store : z.root = x.root =>
             \E w \in store' : w.id = z.id /\ w.parent = z.parent
  BY <1>2 DEF TreesStand
<1>4. x \in RowsNamed(store, Tables) /\ Name(x) = Name(y)
  BY <1>1, <1>3 DEF RowsNamed, Name
<1>5. ASSUME NEW z \in ChildrenOf(store, x.id)
      PROVE  \E w \in store' : w.parent = y.id /\ Name(w) = Name(z)
  <2>1. z \in store /\ z.parent = x.id
    BY DEF ChildrenOf
  <2>2. z.root = x.root
    <3>1. x \in Row /\ Placed(z, store) /\ UniqueIds
      BY DEF MetaInv, TypesInv, StoreInv, StoreRows, AllPlaced, ChildrenOf
    <3>2. z.parent # NoRow
      BY <2>1, <3>1, StoreAssumption DEF Row, RowId
    <3> QED
      BY <2>1, <3>1, <3>2 DEF Placed, UniqueIds
  <2> QED
    BY <1>3, <2>1, <2>2 DEF Name
<1>6. Entry(x) \in TablesIndexed
  BY <1>4 DEF TablesIndexed, Entry
<1>7. Catalog!Continues(e, Entry(x))
  BY <1>1, <1>3, <1>4, <1>5 DEF Catalog!Continues, Entry
<1> QED
  BY <1>6, <1>7

(* The index requests keep to the contract that the readers of the index    *)
(* rely on: whatever overlaps or fails, a table that stays is the same      *)
(* table with all its columns, and identifiers are never given again.       *)
THEOREM IndexKeepsContract == Spec => ImplementsCatalog
<1>1. Init => Catalog!Init
  BY MetaInit, IndexIsNumbered DEF Catalog!Init
<1>2. ASSUME MetaInv, MetaInv', [Next]_vars
      PROVE  Catalog!Next
  <2>1. Catalog!Numbered(TablesIndexed', IdsGiven')
    <3>1. Catalog!Numbered(TablesIndexed, IdsGiven)'
      BY <1>2, IndexIsNumbered, PTL
    <3> QED
      BY <3>1 DEF Catalog!Numbered, Catalog!Entry
  <2>2. TreesStand /\ SettledStays
    BY <1>2, TextsMove DEF TextsStand
  <2>3. IdsGiven \subseteq IdsGiven'
    BY <2>2 DEF IdsGiven, SettledStays, Settled, SettledNext, RowId
  <2>4. \A e \in TablesIndexed' : e.id \in IdsGiven =>
          \E d \in TablesIndexed : Catalog!Continues(e, d)
    BY <1>2, <2>2, TableContinues
  <2> QED
    BY <2>1, <2>3, <2>4 DEF Catalog!Next, Catalog!Commit
<1> QED
  BY <1>1, <1>2, MetaAlways, PTL DEF Spec, ImplementsCatalog, Catalog!Spec

=============================================================================
