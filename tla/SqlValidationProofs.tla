------------------------ MODULE SqlValidationProofs ------------------------
(***************************************************************************)
(* What SqlValidation guarantees for all queries, all contents of the      *)
(* index and any number of commits between the reads of a validation.      *)
(* Nothing is supposed of the commits but the contract of SchemaCatalog,   *)
(* which the commits of SqlValidation are shown to keep and which          *)
(* OfflineMetadata implements.                                             *)
(*                                                                         *)
(* That an accepted query's columns exist at the moment of the answer      *)
(* rests on how the rows read so far stand to the index: a row that is     *)
(* still there has kept its schema and its name and has lost no column,    *)
(* and one that is gone has a number nobody gets again.  Its tables were   *)
(* there when they were read.  ReadInv says both.                          *)
(***************************************************************************)
EXTENDS SqlValidation, TLAPS

(* Any step that the contract allows.                                       *)
AnyCommit ==
  /\ lastId' \in Nat /\ Index!Next
  /\ changes' = changes + 1 /\ seen' = seen \union {catalog'}
  /\ UNCHANGED validation

OpenNext == Validate \/ AnyCommit

OpenSpec == Init /\ [][OpenNext]_vars

(* TypeOK without the bound on the number of commits.                       *)
Typed ==
  /\ catalog \subseteq TableRow /\ IdsUnique(catalog)
  /\ lastId \in Nat /\ \A x \in catalog : x.id \in 1..lastId
  /\ changes \in Nat
  /\ query \in Queries
  /\ pc \in {"received", "done"} \/ Reading
  /\ DOMAIN alias_map \subseteq Names /\ \A a \in DOMAIN alias_map : alias_map[a] \in Keys
  /\ rows \subseteq TableRow /\ orphaned \in BOOLEAN
  /\ DOMAIN last \subseteq Keys
  /\ \A k \in DOMAIN last : \E x \in rows : x.id = last[k] /\ k \in KeysOf(x)
  /\ verdict \in {"none", "accepted", "rejected", "failed"}
  /\ catalog \in seen /\ seen \subseteq SUBSET TableRow

RowsStand ==
  \A x \in rows :
    /\ x.id \in 1..lastId
    /\ \A y \in catalog : y.id = x.id =>
         y.schema = x.schema /\ y.name = x.name /\ x.columns \subseteq y.columns

AliasesRight ==
  pc \notin {"received", "done"} =>
    /\ \A n \in DOMAIN alias_map :
         \E t \in query.tables : t.alias = n /\ alias_map[n] = Key(t)
    /\ \A t \in query.tables : t.alias # None => t.alias \in DOMAIN alias_map

(* The rows were in the index together: a table each of whose references is *)
(* known was there then, and no two shared a name if none ever did.         *)
RowsWereThere ==
  /\ pc \in {"fetch_both", "fetch_columns", "fetch_schemas"}
       /\ (\A t \in RealTables(query) : TableKnown(t))
     => \E found \in seen : TablesThere(query, found)
  /\ (\A found \in seen : NamesUnique(found)) => NamesUnique(rows)

ReadInv == Typed /\ IdsUnique(rows) /\ RowsStand /\ AliasesRight /\ RowsWereThere

----------------------------------------------------------------------------
(* A key tells its table.                                                   *)

LEMMA KeyInKeys ==
  ASSUME NEW t \in TableRef
  PROVE  Key(t) \in Keys
BY DEF Key, Keys, Full, Short, TableRef

LEMMA KeysOfRow ==
  ASSUME NEW x \in TableRow
  PROVE  KeysOf(x) \subseteq Keys
BY DEF KeysOf, Keys, Full, Short, TableRow

(* A row with the key of a reference is one the reference can stand for,    *)
(* and one with its short name has its name.                                *)
LEMMA KeyDenotes ==
  ASSUME NEW t, NEW x
  PROVE  /\ Key(t) \in KeysOf(x) => x.name = t.name /\ t.schema \in {None, x.schema}
         /\ Short(t) \in KeysOf(x) => x.name = t.name
<1>1. ASSUME NEW m, NEW n, NEW s PROVE <<m>> # <<s, n>>
  OBVIOUS
<1>2. ASSUME NEW m, NEW n, <<m>> = <<n>> PROVE m = n
  BY <1>2
<1>3. ASSUME NEW m, NEW n, NEW r, NEW s, <<r, m>> = <<s, n>> PROVE r = s /\ m = n
  BY <1>3
<1>4. Short(t) \in KeysOf(x) => x.name = t.name
  <2>1. ASSUME Short(t) \in KeysOf(x) PROVE x.name = t.name
    <3>1. <<t.name>> = <<x.name>>
      BY <2>1, <1>1 DEF Short, Full, KeysOf
    <3> QED BY <3>1, <1>2
  <2> QED BY <2>1
<1>5. Key(t) \in KeysOf(x) => x.name = t.name /\ t.schema \in {None, x.schema}
  <2>1. CASE t.schema = None
    BY <1>4, <2>1 DEF Key
  <2>2. ASSUME t.schema # None, Key(t) \in KeysOf(x)
        PROVE  x.name = t.name /\ t.schema = x.schema
    <3>1. <<t.schema, t.name>> = <<x.schema, x.name>>
      BY <2>2, <1>1 DEF Key, Short, Full, KeysOf
    <3> QED BY <3>1, <1>3
  <2> QED BY <2>1, <2>2
<1> QED BY <1>4, <1>5

(* What is loaded of the rows, before and after their columns are read.     *)
LEMMA LoadedRows ==
  ASSUME Typed, IdsUnique(rows)
  PROVE  /\ Loaded \subseteq TableRow /\ IdsUnique(Loaded)
         /\ \A x \in rows : \E z \in Loaded :
              z.id = x.id /\ z.schema = x.schema /\ z.name = x.name
         /\ \A z \in Loaded : \E x \in rows :
              /\ z.id = x.id /\ z.schema = x.schema /\ z.name = x.name
              /\ IF pc \in {"fetch_both", "fetch_columns"}
                 THEN z.columns = ColumnsOf(x.id) ELSE z = x
<1>1. CASE pc \in {"fetch_both", "fetch_columns"}
  <2> DEFINE full(x) == [x EXCEPT !.columns = ColumnsOf(x.id)]
  <2>1. Loaded = {full(x) : x \in rows}
    BY <1>1 DEF Loaded
  <2>2. \A n : ColumnsOf(n) \subseteq ColumnNames
    BY DEF ColumnsOf, Typed, TableRow
  <2>3. \A x \in rows :
          /\ full(x) \in TableRow /\ full(x).id = x.id
          /\ full(x).columns = ColumnsOf(x.id)
          /\ full(x).schema = x.schema /\ full(x).name = x.name
    BY <2>2 DEF Typed, TableRow
  <2> HIDE DEF full
  <2>4. \A z \in Loaded : \E x \in rows :
          /\ z = full(x) /\ z.id = x.id /\ z.columns = ColumnsOf(x.id)
          /\ z.schema = x.schema /\ z.name = x.name /\ z \in TableRow
    BY <2>1, <2>3
  <2>5. IdsUnique(Loaded)
    BY <2>4 DEF IdsUnique
  <2>6. \A x \in rows : \E z \in Loaded :
          z.id = x.id /\ z.schema = x.schema /\ z.name = x.name
    BY <2>1, <2>3
  <2> QED BY <1>1, <2>4, <2>5, <2>6
<1>2. CASE pc \notin {"fetch_both", "fetch_columns"}
  BY <1>2 DEF Loaded, Typed
<1> QED BY <1>1, <1>2

LEMMA SameKeys ==
  ASSUME NEW x, NEW z, z.schema = x.schema, z.name = x.name
  PROVE  KeysOf(z) = KeysOf(x)
BY DEF KeysOf, Full, Short

(* Whatever HasColumn finds, it finds in a loaded row with that key.        *)
LEMMA HasColumnInRow ==
  ASSUME Typed, IdsUnique(rows), NEW k, NEW c, HasColumn(k, c)
  PROVE  \E z \in Loaded : k \in KeysOf(z) /\ c \in z.columns
<1>1. PICK z \in Loaded : z.id = last[k] /\ c \in z.columns
  BY DEF HasColumn
<1>2. PICK y \in rows : y.id = last[k] /\ k \in KeysOf(y)
  BY DEF HasColumn, InMetadata, Typed
<1>3. PICK x \in rows : z.id = x.id /\ z.schema = x.schema /\ z.name = x.name
  BY LoadedRows
<1>4. x = y
  BY <1>1, <1>2, <1>3 DEF IdsUnique
<1> QED BY <1>1, <1>2, <1>3, <1>4, SameKeys

----------------------------------------------------------------------------
(* The invariant.                                                           *)

LEMMA InitInv == ASSUME Init PROVE ReadInv
<1> USE DEF Init, Nothing
<1>1. Typed
  BY ValidationAssumption DEF Typed
<1> QED
  BY <1>1 DEF ReadInv, IdsUnique, RowsStand, AliasesRight, RowsWereThere, NamesUnique

LEMMA AnswerKeepsInv ==
  ASSUME ReadInv, NEW v \in {"accepted", "rejected", "failed"}, Answer(v)
  PROVE  ReadInv'
<1> USE DEF Answer, index, Nothing
<1>1. Typed'
  BY DEF ReadInv, Typed, IdsUnique
<1>2. /\ IdsUnique(rows)'
      /\ RowsStand'
      /\ AliasesRight'
      /\ RowsWereThere'
  BY DEF IdsUnique, RowsStand, AliasesRight, RowsWereThere, NamesUnique
<1> QED BY <1>1, <1>2 DEF ReadInv

LEMMA AnalyseKeepsInv == ASSUME ReadInv, Analyse PROVE ReadInv'
<1> USE DEF ReadInv
<1>1. query \in Query
  BY ValidationAssumption DEF Typed
<1> DEFINE aliased == {t \in query.tables : t.alias # None}
           names == {t.alias : t \in aliased}
<1>2. PICK latest \in [names -> aliased] :
        /\ \A n \in names : latest[n].alias = n
        /\ alias_map' = [n \in names |-> Key(latest[n])]
  BY DEF Analyse, AliasMaps
<1>3. aliased \subseteq TableRef /\ names \subseteq Names
  BY <1>1 DEF Query, TableRef
<1>4. \A n \in names : alias_map'[n] \in Keys
  BY <1>2, <1>3, KeyInKeys
<1>5. Typed'
  BY <1>2, <1>3, <1>4 DEF Analyse, index, Reading, Typed, IdsUnique
<1>6. AliasesRight'
  <2>1. \A n \in DOMAIN alias_map' :
          \E t \in query.tables : t.alias = n /\ alias_map'[n] = Key(t)
    BY <1>2
  <2>2. \A t \in query.tables : t.alias # None => t.alias \in DOMAIN alias_map'
    BY <1>2
  <2> QED BY <2>1, <2>2 DEF AliasesRight, Analyse, Key, Short, Full
<1>7. IdsUnique(rows)' /\ RowsStand' /\ RowsWereThere'
  BY DEF Analyse, index, IdsUnique, RowsStand, RowsWereThere, NamesUnique, Full
<1> QED BY <1>5, <1>6, <1>7

LEMMA FetchTablesKeepsInv == ASSUME ReadInv, FetchTables PROVE ReadInv'
<1> USE DEF ReadInv
<1> DEFINE found == {x \in catalog : x.name \in {t.name : t \in RealTables(query)}}
           bare(x) == [x EXCEPT !.columns = {}]
<1>1. PICK f \in LastRows(found) : last' = [k \in DOMAIN f |-> f[k].id]
  BY DEF FetchTables
<1>2. rows' = {bare(x) : x \in found} /\ found \subseteq catalog
  BY DEF FetchTables
<1>3. \A x \in catalog :
        /\ bare(x) \in TableRow /\ bare(x).id = x.id /\ bare(x).columns = {}
        /\ bare(x).schema = x.schema /\ bare(x).name = x.name
  BY DEF Typed, TableRow
<1>4. \A x \in catalog : KeysOf(bare(x)) = KeysOf(x)
  BY <1>3 DEF KeysOf, Full, Short
<1>5. \A k \in DOMAIN f : f[k] \in found /\ k \in KeysOf(f[k]) /\ k \in Keys
  <2>1. \A k \in DOMAIN f : f[k] \in found /\ k \in KeysOf(f[k])
    BY <1>1 DEF LastRows
  <2> QED BY <2>1, KeysOfRow DEF Typed
<1>6. \A k \in DOMAIN last' : \E x \in rows' : x.id = last'[k] /\ k \in KeysOf(x)
  <2> SUFFICES ASSUME NEW k \in DOMAIN last'
               PROVE  \E x \in rows' : x.id = last'[k] /\ k \in KeysOf(x)
    OBVIOUS
  <2>1. k \in DOMAIN f /\ last'[k] = f[k].id
    BY <1>1
  <2>2. f[k] \in catalog /\ bare(f[k]) \in rows' /\ k \in KeysOf(f[k])
    BY <1>2, <1>5, <2>1
  <2> QED BY <1>3, <1>4, <2>1, <2>2
<1>7. Typed'
  <2>1. rows' \subseteq TableRow
    BY <1>2, <1>3
  <2>2. DOMAIN last' \subseteq Keys
    BY <1>1, <1>5
  <2> QED
    BY <1>6, <2>1, <2>2
    DEF FetchTables, index, Reading, Typed, IdsUnique, KeysOf, Full, Short
<1> HIDE DEF bare
<1>8. \A z \in rows' : \E x \in catalog :
        /\ z = bare(x) /\ z.id = x.id /\ z.columns = {}
        /\ z.schema = x.schema /\ z.name = x.name
  BY <1>2, <1>3
<1>9. IdsUnique(rows)'
  BY <1>8 DEF Typed, IdsUnique
<1>11. RowsStand'
  <2> SUFFICES ASSUME NEW z \in rows'
               PROVE  /\ z.id \in 1..lastId
                      /\ \A y \in catalog : y.id = z.id =>
                           /\ y.schema = z.schema /\ y.name = z.name
                           /\ z.columns \subseteq y.columns
    BY DEF RowsStand, FetchTables, index
  <2> QED BY <1>8 DEF Typed, IdsUnique
<1>10. AliasesRight'
  BY DEF FetchTables, index, Reading, AliasesRight, Key, Short, Full
<1>12. (\A t \in RealTables(query) : TableKnown(t))' =>
         \E there \in seen' : TablesThere(query, there)
  <2> SUFFICES ASSUME \A t \in RealTables(query) : TableKnown(t)'
               PROVE  TablesThere(query, catalog)
    BY DEF FetchTables, index, Typed, RealTables
  <2> SUFFICES ASSUME NEW t \in RealTables(query)
               PROVE  Denoted(t, catalog) # {}
    BY DEF TablesThere
  <2>1. Key(t) \in DOMAIN f
    BY <1>1 DEF TableKnown, InMetadata, Key, Short, Full
  <2>2. f[Key(t)] \in catalog /\ Key(t) \in KeysOf(f[Key(t)])
    BY <1>2, <1>5, <2>1
  <2> QED BY <2>2, KeyDenotes DEF Denoted
<1>13. (\A there \in seen : NamesUnique(there)) => NamesUnique(rows')
  BY <1>8 DEF Typed, NamesUnique, Full
<1>14. RowsWereThere'
  BY <1>12, <1>13 DEF RowsWereThere, FetchTables, index, RealTables, TablesThere,
                      Denoted, NamesUnique, Full
<1> QED BY <1>7, <1>9, <1>10, <1>11, <1>14

LEMMA FetchColumnsKeepsInv == ASSUME ReadInv, FetchColumns PROVE ReadInv'
<1> USE DEF ReadInv
<1>1. rows' = Loaded /\ pc = "fetch_both" /\ pc' = "fetch_schemas"
      /\ UNCHANGED <<index, query, alias_map, orphaned, last, verdict>>
  BY DEF FetchColumns
<1>2. /\ Loaded \subseteq TableRow /\ IdsUnique(Loaded)
      /\ \A x \in rows : \E z \in Loaded :
           z.id = x.id /\ z.schema = x.schema /\ z.name = x.name
      /\ \A z \in Loaded : \E x \in rows :
           /\ z.id = x.id /\ z.schema = x.schema /\ z.name = x.name
           /\ z.columns = ColumnsOf(x.id)
  BY <1>1, LoadedRows
<1>3. Typed'
  <2>1. \A k \in DOMAIN last : \E z \in rows' : z.id = last[k] /\ k \in KeysOf(z)
    BY <1>1, <1>2, SameKeys DEF Typed
  <2> QED
    BY <1>1, <1>2, <2>1 DEF index, Reading, Typed, IdsUnique, KeysOf, Full, Short
<1>4. IdsUnique(rows)'
  BY <1>1, <1>2 DEF IdsUnique
<1>5. \A x \in catalog : ColumnsOf(x.id) = x.columns
  BY DEF ColumnsOf, Typed, IdsUnique
<1>6. RowsStand'
  <2> SUFFICES ASSUME NEW z \in rows'
               PROVE  /\ z.id \in 1..lastId
                      /\ \A y \in catalog : y.id = z.id =>
                           /\ y.schema = z.schema /\ y.name = z.name
                           /\ z.columns \subseteq y.columns
    BY <1>1 DEF RowsStand, index
  <2>1. PICK x \in rows : /\ z.id = x.id /\ z.columns = ColumnsOf(x.id)
                          /\ z.schema = x.schema /\ z.name = x.name
    BY <1>1, <1>2
  <2> QED BY <2>1, <1>5 DEF RowsStand
<1>7. AliasesRight'
  BY <1>1 DEF Reading, AliasesRight, Key, Short, Full
<1>8. RowsWereThere'
  <2>1. NamesUnique(rows) => NamesUnique(rows)'
    BY <1>1, <1>2 DEF NamesUnique, Full
  <2> QED
    BY <1>1, <2>1 DEF RowsWereThere, index, RealTables, TableKnown, InMetadata, Key,
                      Short, Full, TablesThere, Denoted, NamesUnique
<1> QED BY <1>3, <1>4, <1>6, <1>7, <1>8

LEMMA FetchSchemasKeepsInv == ASSUME ReadInv, FetchSchemas PROVE ReadInv'
<1> USE DEF ReadInv, FetchSchemas, index
<1>1. Typed'
  BY DEF Gone, Reading, Typed, IdsUnique, KeysOf, Full, Short
<1>2. IdsUnique(rows)' /\ RowsStand'
  BY DEF IdsUnique, RowsStand
<1>3. AliasesRight'
  BY DEF AliasesRight, Key, Short, Full
<1>4. RowsWereThere'
  BY DEF RowsWereThere, RealTables, TableKnown, InMetadata, Key, Short, Full,
         TablesThere, Denoted, NamesUnique
<1> QED BY <1>1, <1>2, <1>3, <1>4

LEMMA ValidateKeepsInv == ASSUME ReadInv, Validate PROVE ReadInv'
<1>1. CASE Refuse
  BY <1>1, AnswerKeepsInv DEF Refuse
<1>2. CASE NothingToLookUp
  BY <1>2, AnswerKeepsInv DEF NothingToLookUp
<1>3. CASE Analyse
  BY <1>3, AnalyseKeepsInv
<1>4. CASE FetchTables
  BY <1>4, FetchTablesKeepsInv
<1>5. CASE FetchColumns
  BY <1>5, FetchColumnsKeepsInv
<1>6. CASE FetchSchemas
  BY <1>6, FetchSchemasKeepsInv
<1>7. CASE FetchRest
  BY <1>7, AnswerKeepsInv DEF FetchRest
<1>8. CASE DatabaseFails
  BY <1>8, AnswerKeepsInv DEF DatabaseFails
<1> QED BY <1>1, <1>2, <1>3, <1>4, <1>5, <1>6, <1>7, <1>8 DEF Validate

(* The contract, in the words of SqlValidation.                             *)
LEMMA ContractIs ==
  ASSUME Typed
  PROVE  Index!Commit <=>
           /\ catalog' \subseteq TableRow /\ IdsUnique(catalog)'
           /\ \A x \in catalog' : x.id \in 1..lastId'
           /\ (1..lastId') \subseteq Nat /\ (1..lastId) \subseteq (1..lastId')
           /\ \A y \in catalog' : y.id \in 1..lastId =>
                \E x \in catalog : Index!Continues(y, x)
BY DEF Index!Commit, Index!Numbered, Index!Entry, TableRow, IdsUnique

(* Identifiers given to other rows are a commit that changes no table.      *)
LEMMA NextCommits == ASSUME Typed, Index!Next PROVE Index!Commit
<1>1. CASE Index!Reserve
  <2>1. \A y \in catalog' : y.id \in 1..lastId => \E x \in catalog : Index!Continues(y, x)
    BY <1>1 DEF Index!Reserve, Index!Continues
  <2> QED
    BY <1>1, <2>1, ContractIs DEF Index!Reserve, Typed, IdsUnique
<1> QED BY <1>1 DEF Index!Next

(* A commit disturbs the index only; what the rows read need of it is that  *)
(* a number they have is never that of another table.                       *)
LEMMA CommitKeepsInv == ASSUME ReadInv, AnyCommit PROVE ReadInv'
<1> USE DEF ReadInv, validation
<1>1. /\ catalog' \subseteq TableRow /\ IdsUnique(catalog)'
      /\ \A x \in catalog' : x.id \in 1..lastId'
      /\ (1..lastId) \subseteq (1..lastId')
      /\ \A y \in catalog' : y.id \in 1..lastId =>
           \E x \in catalog : /\ x.id = y.id /\ x.schema = y.schema /\ x.name = y.name
                              /\ x.columns \subseteq y.columns
  BY NextCommits, ContractIs DEF AnyCommit, Index!Continues
<1>2. Typed'
  BY <1>1 DEF AnyCommit, Reading, Typed, IdsUnique, KeysOf, Full, Short
<1>3. IdsUnique(rows)'
  BY DEF AnyCommit, IdsUnique
<1>4. RowsStand'
  <2> SUFFICES ASSUME NEW x \in rows
               PROVE  /\ x.id \in 1..lastId'
                      /\ \A y \in catalog' : y.id = x.id =>
                           /\ y.schema = x.schema /\ y.name = x.name
                           /\ x.columns \subseteq y.columns
    BY DEF AnyCommit, RowsStand
  <2>1. x.id \in 1..lastId /\ x.id \in 1..lastId'
    BY <1>1 DEF RowsStand
  <2>2. ASSUME NEW y \in catalog', y.id = x.id
        PROVE  y.schema = x.schema /\ y.name = x.name /\ x.columns \subseteq y.columns
    <3>1. PICK z \in catalog : /\ z.id = y.id /\ z.schema = y.schema
                               /\ z.name = y.name /\ z.columns \subseteq y.columns
      BY <1>1, <2>1, <2>2
    <3> QED BY <3>1, <2>2 DEF RowsStand
  <2> QED BY <2>1, <2>2
<1>5. AliasesRight'
  BY DEF AnyCommit, AliasesRight, Key, Short, Full
<1>6. RowsWereThere'
  BY DEF AnyCommit, RowsWereThere, RealTables, TableKnown, InMetadata, Key, Short,
         Full, TablesThere, Denoted, NamesUnique
<1> QED BY <1>2, <1>3, <1>4, <1>5, <1>6

(* New columns, new tables and a whole index anew are such commits.         *)
LEMMA IndexKeepsContract == ASSUME ReadInv, IndexCommits PROVE AnyCommit
<1> USE DEF ReadInv
<1>1. /\ changes' = changes + 1 /\ seen' = seen \union {catalog'}
      /\ UNCHANGED validation
  BY DEF IndexCommits
<1>5. ASSUME catalog' \subseteq TableRow, IdsUnique(catalog)',
             lastId' \in Nat, lastId' >= lastId,
             \A x \in catalog' : x.id \in 1..lastId',
             \A y \in catalog' : y.id \in 1..lastId =>
               \E x \in catalog : /\ x.id = y.id /\ x.schema = y.schema /\ x.name = y.name
                                  /\ x.columns \subseteq y.columns
      PROVE  AnyCommit
  <2>1. (1..lastId') \subseteq Nat /\ (1..lastId) \subseteq (1..lastId')
    BY <1>5 DEF Typed
  <2>2. \A y \in catalog' : y.id \in 1..lastId => \E x \in catalog : Index!Continues(y, x)
    BY <1>5 DEF Index!Continues
  <2> QED BY <1>1, <1>5, <2>1, <2>2, ContractIs DEF AnyCommit, Index!Next
<1>2. CASE AddColumn
  <2>1. PICK x \in catalog, c \in ColumnNames :
          /\ catalog' = (catalog \ {x}) \union {[x EXCEPT !.columns = @ \union {c}]}
          /\ lastId' = lastId
    BY <1>2 DEF AddColumn
  <2> DEFINE wider == [x EXCEPT !.columns = @ \union {c}]
  <2>2. /\ wider \in TableRow /\ wider.id = x.id /\ wider.schema = x.schema
        /\ wider.name = x.name /\ wider.columns = x.columns \union {c}
    BY DEF Typed, TableRow
  <2> HIDE DEF wider
  <2>3. catalog' = (catalog \ {x}) \union {wider}
    BY <2>1 DEF wider
  <2>4. catalog' \subseteq TableRow /\ \A y \in catalog' : y.id \in 1..lastId
    BY <2>2, <2>3 DEF Typed
  <2>5. IdsUnique(catalog)'
    BY <2>2, <2>3 DEF Typed, IdsUnique
  <2>6. \A y \in catalog' : \E z \in catalog :
          /\ z.id = y.id /\ z.schema = y.schema /\ z.name = y.name
          /\ z.columns \subseteq y.columns
    BY <2>2, <2>3
  <2>7. lastId' \in Nat /\ lastId' >= lastId
    BY <2>1 DEF Typed
  <2> QED BY <1>1, <2>1, <2>4, <2>5, <2>6, <2>7, <1>5
<1>3. CASE AddTable
  <2>1. PICK s \in Schemas, n \in Names, c \in ColumnNames :
          catalog' = catalog \union
            {[id |-> lastId + 1, schema |-> s, name |-> n, columns |-> {c}]}
    BY <1>3 DEF AddTable
  <2> DEFINE new == [id |-> lastId + 1, schema |-> s, name |-> n, columns |-> {c}]
  <2>2. lastId' = lastId + 1 /\ lastId \in Nat
    BY <1>3 DEF AddTable, Typed
  <2>3. new \in TableRow /\ new.id = lastId + 1
    BY <2>2 DEF TableRow
  <2> HIDE DEF new
  <2>4. catalog' = catalog \union {new}
    BY <2>1 DEF new
  <2>5. catalog' \subseteq TableRow /\ \A y \in catalog' : y.id \in 1..lastId'
    BY <2>2, <2>3, <2>4 DEF Typed
  <2>6. IdsUnique(catalog)'
    BY <2>2, <2>3, <2>4 DEF Typed, IdsUnique
  <2>7. \A y \in catalog' : y.id \in 1..lastId => y \in catalog
    BY <2>2, <2>3, <2>4
  <2> QED BY <1>1, <2>2, <2>5, <2>6, <2>7, <1>5
<1>4. CASE ForceRefresh
  <2> DEFINE new(x) == [x EXCEPT !.id = lastId + @]
  <2>1. PICK deleted \in SUBSET catalog : \E found \in SUBSET deleted :
          catalog' = (catalog \ deleted) \union {new(x) : x \in found}
    BY <1>4 DEF ForceRefresh
  <2>10. PICK found \in SUBSET deleted :
           catalog' = (catalog \ deleted) \union {new(x) : x \in found}
    BY <2>1
  <2>2. lastId' = 2 * lastId /\ lastId \in Nat
    BY <1>4 DEF ForceRefresh, Typed
  <2>3. \A x \in found : /\ new(x) \in TableRow /\ new(x).id = lastId + x.id
                         /\ x.id \in 1..lastId
    BY <2>2 DEF Typed, TableRow
  <2> HIDE DEF new
  <2>4. \A y \in catalog' :
          \/ y \in catalog /\ y.id \in 1..lastId
          \/ /\ y \in TableRow /\ y.id \in (lastId + 1)..lastId'
             /\ \E x \in found : y = new(x) /\ y.id = lastId + x.id
    <3>1. ASSUME NEW x \in found PROVE new(x).id \in (lastId + 1)..lastId'
      BY <2>2, <2>3
    <3> QED BY <2>10, <2>3, <3>1 DEF Typed
  <2>5. catalog' \subseteq TableRow
    BY <2>4 DEF Typed
  <2>6. IdsUnique(catalog)'
    BY <2>2, <2>4, <2>3 DEF Typed, IdsUnique
  <2>7. lastId' \in Nat /\ lastId' >= lastId /\ \A y \in catalog' : y.id \in 1..lastId'
    BY <2>2, <2>4
  <2>8. \A y \in catalog' : y.id \in 1..lastId => y \in catalog
    BY <2>2, <2>4
  <2> QED BY <1>1, <2>5, <2>6, <2>7, <2>8, <1>5
<1> QED BY <1>2, <1>3, <1>4 DEF IndexCommits

LEMMA ReadInvStep == ASSUME ReadInv, [OpenNext]_vars PROVE ReadInv'
<1>1. CASE OpenNext
  BY <1>1, ValidateKeepsInv, CommitKeepsInv DEF OpenNext
<1>2. CASE UNCHANGED vars
  <2>1. Typed' /\ IdsUnique(rows)' /\ RowsStand' /\ AliasesRight'
    BY <1>2 DEF vars, ReadInv, Reading, Typed, IdsUnique, RowsStand, AliasesRight,
                KeysOf, Key, Full, Short
  <2>2. RowsWereThere'
    BY <1>2 DEF vars, ReadInv, RowsWereThere, RealTables, TableKnown, InMetadata,
                Key, Short, Full, TablesThere, Denoted, NamesUnique
  <2> QED BY <2>1, <2>2 DEF ReadInv
<1> QED BY <1>1, <1>2

LEMMA ReadInvHolds == OpenSpec => []ReadInv
BY InitInv, ReadInvStep, PTL DEF OpenSpec

(* What holds of a validation beside commits that keep the contract holds   *)
(* beside those of the index requests.                                      *)
LEMMA IndexIsAllowed == Spec => OpenSpec /\ []ReadInv
<1>1. ReadInv /\ [Next]_vars => [OpenNext]_vars
  BY IndexKeepsContract DEF Next, OpenNext
<1>2. ReadInv /\ [Next]_vars => ReadInv'
  BY <1>1, ReadInvStep
<1> QED BY <1>1, <1>2, InitInv, PTL DEF Spec, OpenSpec

(* Only rows with a name of the query are read.                             *)
RowsNamed == \A x \in rows : x.name \in {t.name : t \in RealTables(query)}

LEMMA RowsNamedStep ==
  ASSUME ReadInv, RowsNamed, [OpenNext]_vars
  PROVE  RowsNamed'
<1>1. CASE FetchTables
  <2> DEFINE found == {x \in catalog : x.name \in {t.name : t \in RealTables(query)}}
             bare(x) == [x EXCEPT !.columns = {}]
  <2>1. rows' = {bare(x) : x \in found} /\ query' = query
    BY <1>1 DEF FetchTables
  <2>2. \A x \in found : bare(x).name = x.name
    BY DEF ReadInv, Typed, TableRow
  <2>3. \A x \in found : x.name \in {t.name : t \in RealTables(query)}
    OBVIOUS
  <2> HIDE DEF bare, found
  <2> QED BY <2>1, <2>2, <2>3 DEF RowsNamed, RealTables
<1>2. CASE FetchColumns
  <2>1. rows' = Loaded /\ query' = query
    BY <1>2 DEF FetchColumns
  <2>2. \A z \in Loaded : \E x \in rows : z.name = x.name
    BY LoadedRows DEF ReadInv
  <2> QED BY <2>1, <2>2 DEF RowsNamed, RealTables
<1>3. ASSUME NEW v, Answer(v) PROVE RowsNamed'
  BY <1>3 DEF Answer, RowsNamed
<1>4. CASE UNCHANGED <<rows, query>>
  BY <1>4 DEF RowsNamed, RealTables
<1> QED
  BY <1>1, <1>2, <1>3, <1>4
  DEF OpenNext, vars, validation, Validate, Refuse, NothingToLookUp, Analyse,
      FetchSchemas, FetchRest, DatabaseFails, AnyCommit

LEMMA RowsNamedHolds == OpenSpec => []RowsNamed
<1>1. Init => RowsNamed
  BY DEF Init, RowsNamed
<1> QED BY <1>1, RowsNamedStep, ReadInvHolds, PTL DEF OpenSpec

----------------------------------------------------------------------------
(* The moment a query is accepted.                                          *)

LEMMA AcceptingStep ==
  ASSUME OpenNext, Accepts
  PROVE  \/ RealTables(query) = {} /\ query.columns = {}
         \/ /\ Verified /\ ~Orphaned
            /\ pc \in {"fetch_columns", "fetch_schemas"}
<1>1. CASE Validate
  <2>1. CASE Refuse
    BY <2>1 DEF Refuse, Answer, Accepts
  <2>2. CASE NothingToLookUp
    BY <2>2 DEF NothingToLookUp
  <2>3. CASE Analyse \/ FetchTables \/ FetchColumns \/ FetchSchemas
    BY <2>3 DEF Analyse, FetchTables, FetchColumns, FetchSchemas, Accepts
  <2>4. CASE FetchRest
    BY <2>4 DEF FetchRest, Answer, Accepts
  <2>5. CASE DatabaseFails
    BY <2>5 DEF DatabaseFails, Answer, Accepts
  <2> QED BY <1>1, <2>1, <2>2, <2>3, <2>4, <2>5 DEF Validate
<1>2. CASE AnyCommit
  BY <1>2 DEF AnyCommit, validation, Accepts
<1> QED BY <1>1, <1>2 DEF OpenNext

(* At the last read, each column read is a column of a table that is in the *)
(* index: the columns come from there, or the row is still there and keeps  *)
(* those it had.                                                            *)
LEMMA ColumnInCatalog ==
  ASSUME ReadInv, ~Orphaned, pc \in {"fetch_columns", "fetch_schemas"},
         NEW z \in Loaded, NEW c \in z.columns
  PROVE  \E y \in catalog : y.schema = z.schema /\ y.name = z.name /\ c \in y.columns
<1>1. PICK x \in rows :
        /\ z.id = x.id /\ z.schema = x.schema /\ z.name = x.name
        /\ IF pc \in {"fetch_both", "fetch_columns"}
           THEN z.columns = ColumnsOf(x.id) ELSE z = x
  BY LoadedRows DEF ReadInv
<1>2. CASE pc = "fetch_columns"
  <2>1. PICK y \in catalog : y.id = x.id /\ c \in y.columns
    BY <1>1, <1>2 DEF ColumnsOf
  <2> QED BY <1>1, <2>1 DEF ReadInv, RowsStand
<1>3. CASE pc = "fetch_schemas"
  <2>1. PICK y \in catalog : y.id = x.id
    BY <1>3 DEF Orphaned, Gone
  <2> QED BY <1>1, <1>3, <2>1 DEF ReadInv, RowsStand
<1> QED BY <1>2, <1>3

LEMMA FoundByKey ==
  ASSUME ReadInv, ~Orphaned, pc \in {"fetch_columns", "fetch_schemas"},
         NEW t, NEW col, HasColumn(Key(t), col.column)
  PROVE  Has(t, col, catalog)
<1>1. PICK z \in Loaded : Key(t) \in KeysOf(z) /\ col.column \in z.columns
  BY HasColumnInRow DEF ReadInv
<1>2. z.name = t.name /\ t.schema \in {None, z.schema}
  BY <1>1, KeyDenotes
<1> QED BY <1>1, <1>2, ColumnInCatalog DEF Has, Denoted

(* The short name may have been set by another table, unless names are      *)
(* unique.                                                                  *)
LEMMA FoundByShortName ==
  ASSUME ReadInv, ~Orphaned, pc \in {"fetch_columns", "fetch_schemas"},
         NamesUnique(rows), NEW t, TableKnown(t),
         NEW col, HasColumn(Short(t), col.column)
  PROVE  Has(t, col, catalog)
<1>1. PICK z \in Loaded : Short(t) \in KeysOf(z) /\ col.column \in z.columns
  BY HasColumnInRow DEF ReadInv
<1>2. PICK x \in rows : z.schema = x.schema /\ z.name = x.name
  BY LoadedRows DEF ReadInv
<1>3. PICK w \in rows : Key(t) \in KeysOf(w)
  BY DEF TableKnown, InMetadata, ReadInv, Typed
<1>4. x.name = t.name /\ w.name = t.name /\ t.schema \in {None, w.schema}
  BY <1>1, <1>2, <1>3, KeyDenotes
<1>5. <<x.schema, x.name>> = <<w.schema, w.name>>
  BY <1>4 DEF NamesUnique, Full
<1>6. x.schema = w.schema
  BY <1>5
<1> QED BY <1>1, <1>2, <1>4, <1>6, ColumnInCatalog DEF Has, Denoted

(* A qualified column, in a query of one scope.                             *)
LEMMA QualifiedColumn ==
  ASSUME ReadInv, ~Orphaned, Verified, pc \in {"fetch_columns", "fetch_schemas"},
         OneScope(query), NamesUnique(rows),
         NEW col \in query.columns, NEW t \in query.tables, Exposed(t) = col.table
  PROVE  Has(t, col, catalog)
<1>1. query \in Query
  BY ValidationAssumption DEF ReadInv, Typed
<1>2. t \in TableRef /\ t \in RealTables(query)
  BY <1>1 DEF Query, OneScope, RealTables
<1>3. col.table # None
  BY <1>2, ValidationAssumption DEF TableRef, Exposed
<1>4. HasColumn(ResolvedKey(col), col.column) /\ TableKnown(t)
  BY <1>2, <1>3 DEF Verified, ColumnKnown
<1>5. CASE col.table \in DOMAIN alias_map
  <2>1. PICK u \in query.tables : u.alias = col.table /\ alias_map[col.table] = Key(u)
    BY <1>5 DEF ReadInv, AliasesRight
  <2>2. u = t
    BY <2>1, <1>3 DEF Exposed, OneScope
  <2> QED BY <1>4, <1>5, <2>1, <2>2, FoundByKey DEF ResolvedKey
<1>6. CASE col.table \notin DOMAIN alias_map
  <2>1. t.alias = None
    BY <1>6 DEF ReadInv, AliasesRight, Exposed
  <2>2. ResolvedKey(col) = Short(t)
    BY <1>6, <2>1 DEF ResolvedKey, Short, Exposed
  <2> QED BY <1>4, <2>2, FoundByShortName
<1> QED BY <1>5, <1>6

LEMMA UnqualifiedColumn ==
  ASSUME ReadInv, ~Orphaned, Verified, pc \in {"fetch_columns", "fetch_schemas"},
         NamesUnique(rows), NEW col \in query.columns, col.table = None
  PROVE  \E t \in query.tables : Has(t, col, catalog)
<1>1. PICK t \in RealTables(query) :
        HasColumn(Key(t), col.column) \/ HasColumn(Short(t), col.column)
  BY DEF Verified, ColumnKnown
<1>2. t \in query.tables /\ TableKnown(t)
  BY <1>1 DEF RealTables, Verified
<1> QED BY <1>1, <1>2, FoundByKey, FoundByShortName

(* Whatever key a column is looked up by, it leads to a table with a name   *)
(* of the query, for no other rows are read.                                *)
LEMMA NamedColumn ==
  ASSUME ReadInv, RowsNamed, ~Orphaned, pc \in {"fetch_columns", "fetch_schemas"},
         NEW k, NEW c, HasColumn(k, c)
  PROVE  \E y \in catalog :
           y.name \in {t.name : t \in RealTables(query)} /\ c \in y.columns
<1>1. PICK z \in Loaded : c \in z.columns
  BY HasColumnInRow DEF ReadInv
<1>2. z.name \in {t.name : t \in RealTables(query)}
  BY LoadedRows DEF RowsNamed, ReadInv
<1> QED BY <1>1, <1>2, ColumnInCatalog

LEMMA AcceptedTables ==
  ASSUME ReadInv, RowsNamed, OpenNext, Accepts
  PROVE  /\ \E found \in seen : TablesThere(query, found)
         /\ ColumnsSomewhere(query, catalog)
<1>1. CASE RealTables(query) = {} /\ query.columns = {}
  BY <1>1 DEF ReadInv, Typed, TablesThere, ColumnsSomewhere
<1>2. CASE Verified /\ ~Orphaned /\ pc \in {"fetch_columns", "fetch_schemas"}
  <2>1. \E found \in seen : TablesThere(query, found)
    BY <1>2 DEF ReadInv, RowsWereThere, Verified
  <2>2. ASSUME NEW col \in query.columns
        PROVE  \E y \in catalog : /\ y.name \in {t.name : t \in RealTables(query)}
                                  /\ col.column \in y.columns
    <3>1. PICK k : HasColumn(k, col.column)
      BY <1>2 DEF Verified, ColumnKnown
    <3> QED BY <1>2, <3>1, NamedColumn
  <2> QED BY <2>1, <2>2 DEF ColumnsSomewhere
<1> QED BY <1>1, <1>2, AcceptingStep

LEMMA AcceptedColumns ==
  ASSUME ReadInv, OpenNext, Accepts, OneScope(query),
         \A found \in seen : NamesUnique(found)
  PROVE  ColumnsThere(query, catalog)
<1> SUFFICES ASSUME NEW col \in query.columns
             PROVE  /\ \A t \in query.tables :
                         Exposed(t) = col.table => Has(t, col, catalog)
                    /\ col.table = None => \E t \in query.tables : Has(t, col, catalog)
  BY DEF ColumnsThere
<1>1. Verified /\ ~Orphaned /\ pc \in {"fetch_columns", "fetch_schemas"}
  BY AcceptingStep
<1>2. NamesUnique(rows)
  BY DEF ReadInv, RowsWereThere
<1>3. \A t \in query.tables : Exposed(t) = col.table => Has(t, col, catalog)
  BY <1>1, <1>2, QualifiedColumn
<1>4. col.table = None => \E t \in query.tables : Has(t, col, catalog)
  BY <1>1, <1>2, UnqualifiedColumn
<1> QED BY <1>3, <1>4

LEMMA AcceptedTablesOpen == OpenSpec => AcceptedTablesExist
<1>1. ReadInv /\ RowsNamed /\ [OpenNext]_vars =>
        [Accepts => /\ \E found \in seen : TablesThere(query, found)
                    /\ ColumnsSomewhere(query, catalog)]_vars
  BY AcceptedTables
<1> QED
  BY <1>1, ReadInvHolds, RowsNamedHolds, PTL DEF OpenSpec, AcceptedTablesExist

LEMMA AcceptedColumnsOpen == OpenSpec => AcceptedColumnsExist
<1>1. ReadInv /\ [OpenNext]_vars =>
        [Accepts /\ OneScope(query) /\ (\A found \in seen : NamesUnique(found))
           => ColumnsThere(query, catalog)]_vars
  BY AcceptedColumns
<1> QED BY <1>1, ReadInvHolds, PTL DEF OpenSpec, AcceptedColumnsExist

----------------------------------------------------------------------------
(* The moment a query is rejected.                                          *)

(* The map leads from every loaded row's keys to some row.                  *)
AllKeysLoaded ==
  pc \in {"fetch_both", "fetch_columns", "fetch_schemas"} =>
    \A x \in rows : KeysOf(x) \subseteq DOMAIN last

LEMMA AllKeysLoadedStep ==
  ASSUME ReadInv, AllKeysLoaded, [OpenNext]_vars
  PROVE  AllKeysLoaded'
<1>1. CASE FetchTables
  <2> DEFINE found == {x \in catalog : x.name \in {t.name : t \in RealTables(query)}}
             bare(x) == [x EXCEPT !.columns = {}]
  <2>1. PICK f \in LastRows(found) : last' = [k \in DOMAIN f |-> f[k].id]
    BY <1>1 DEF FetchTables
  <2>2. rows' = {bare(x) : x \in found} /\ found \subseteq catalog
    BY <1>1 DEF FetchTables
  <2>3. \A x \in catalog : KeysOf(bare(x)) = KeysOf(x)
    BY DEF ReadInv, Typed, TableRow, KeysOf, Full, Short
  <2>4. DOMAIN last' = UNION {KeysOf(x) : x \in found}
    BY <2>1 DEF LastRows
  <2> HIDE DEF found, bare
  <2> QED BY <2>2, <2>3, <2>4 DEF AllKeysLoaded
<1>2. CASE FetchColumns
  <2>1. rows' = Loaded /\ last' = last /\ pc = "fetch_both"
    BY <1>2 DEF FetchColumns
  <2>2. \A z \in Loaded : \E x \in rows : KeysOf(z) = KeysOf(x)
    BY LoadedRows, SameKeys DEF ReadInv
  <2> QED BY <2>1, <2>2 DEF AllKeysLoaded
<1>3. CASE UNCHANGED validation \/ FetchSchemas
  BY <1>3 DEF validation, FetchSchemas, AllKeysLoaded, KeysOf, Full, Short
<1>4. ASSUME NEW v, Answer(v) PROVE AllKeysLoaded'
  BY <1>4 DEF Answer, AllKeysLoaded
<1>5. CASE Analyse
  BY <1>5 DEF Analyse, AllKeysLoaded
<1> QED
  BY <1>1, <1>2, <1>3, <1>4, <1>5
  DEF OpenNext, vars, validation, Validate, Refuse, NothingToLookUp, FetchRest,
      DatabaseFails, AnyCommit

(* There is no verdict before the end.                                      *)
Undecided == pc # "done" => verdict = "none"

LEMMA UndecidedStep ==
  ASSUME Undecided, [OpenNext]_vars
  PROVE  Undecided'
<1>1. CASE UNCHANGED validation
  BY <1>1 DEF validation, Undecided
<1>2. ASSUME NEW v, Answer(v) PROVE Undecided'
  BY <1>2 DEF Answer, Undecided
<1>3. CASE Analyse \/ FetchTables \/ FetchColumns \/ FetchSchemas
  BY <1>3 DEF Analyse, FetchTables, FetchColumns, FetchSchemas, Undecided
<1> QED
  BY <1>1, <1>2, <1>3
  DEF OpenNext, vars, validation, Validate, Refuse, NothingToLookUp, FetchRest,
      DatabaseFails, AnyCommit

(* If each name is in the index once, both keys of a reference lead to the  *)
(* row it stands for.                                                       *)
LEMMA KeyLeadsToRow ==
  ASSUME ReadInv, AllKeysLoaded, pc \in {"fetch_columns", "fetch_schemas"},
         UpToDate, RowsUnique(catalog),
         NEW t \in RealTables(query), NEW x \in Denoted(t, catalog),
         NEW k \in {Key(t), Short(t)}
  PROVE  k \in DOMAIN last /\ x \in Loaded /\ last[k] = x.id
<1>1. x \in Loaded /\ x.name = t.name /\ t.schema \in {None, x.schema}
  BY DEF UpToDate, Denoted
<1>2. Short(t) \in KeysOf(x) /\ Key(t) \in KeysOf(x)
  BY <1>1 DEF Key, Short, Full, KeysOf
<1>3. k \in DOMAIN last
  <2>1. PICK r \in rows : x.schema = r.schema /\ x.name = r.name
    BY <1>1, LoadedRows DEF ReadInv
  <2>2. k \in KeysOf(r)
    BY <1>2, <2>1, SameKeys
  <2> QED BY <2>2 DEF AllKeysLoaded
<1>4. PICK y \in rows : y.id = last[k] /\ k \in KeysOf(y)
  BY <1>3 DEF ReadInv, Typed
<1>5. y.name = t.name
  BY <1>4, KeyDenotes
<1>6. PICK z \in Loaded : z.id = y.id /\ z.name = y.name
  BY LoadedRows DEF ReadInv
<1>7. z = x
  BY <1>1, <1>5, <1>6 DEF UpToDate, RowsUnique
<1> QED BY <1>1, <1>3, <1>4, <1>6, <1>7

LEMMA ValidIsVerified ==
  ASSUME ReadInv, AllKeysLoaded, pc \in {"fetch_columns", "fetch_schemas"},
         UpToDate, OneScope(query), RowsUnique(catalog), ~RefersToNothing(query, catalog)
  PROVE  Verified
<1>0. /\ \A t \in query.tables : Denoted(t, catalog) # {}
      /\ \A col \in query.columns : \E t \in query.tables :
           col.table \in {None, Exposed(t)} /\ Has(t, col, catalog)
  BY DEF RefersToNothing
<1>1. RealTables(query) = query.tables
  BY DEF RealTables, OneScope
<1>2. ASSUME NEW t \in RealTables(query) PROVE TableKnown(t)
  BY <1>0, <1>1, KeyLeadsToRow DEF TableKnown, InMetadata
<1>3. ASSUME NEW col \in query.columns PROVE ColumnKnown(col)
  <2>1. PICK t \in query.tables : col.table \in {None, Exposed(t)} /\ Has(t, col, catalog)
    BY <1>0
  <2>2. PICK x \in Denoted(t, catalog) : col.column \in x.columns
    BY <2>1 DEF Has
  <2>3. HasColumn(Key(t), col.column) /\ HasColumn(Short(t), col.column)
    BY <1>1, <2>2, KeyLeadsToRow DEF HasColumn, InMetadata
  <2>4. CASE col.table = None
    BY <1>1, <2>3, <2>4 DEF ColumnKnown
  <2>5. CASE col.table # None
    <3>1. Exposed(t) = col.table
      BY <2>1, <2>5
    <3>2. ResolvedKey(col) \in {Key(t), Short(t)}
      <4>1. CASE col.table \in DOMAIN alias_map
        <5>1. PICK u \in query.tables : u.alias = col.table /\ alias_map[col.table] = Key(u)
          BY <4>1 DEF ReadInv, AliasesRight
        <5>2. u = t
          BY <2>5, <3>1, <5>1 DEF Exposed, OneScope
        <5> QED BY <4>1, <5>1, <5>2 DEF ResolvedKey
      <4>2. CASE col.table \notin DOMAIN alias_map
        <5>1. t.alias = None
          BY <3>1, <4>2 DEF ReadInv, AliasesRight, Exposed
        <5> QED BY <3>1, <4>2, <5>1 DEF ResolvedKey, Short, Exposed
      <4> QED BY <4>1, <4>2
    <3> QED BY <2>3, <2>5, <3>2 DEF ColumnKnown
  <2> QED BY <2>4, <2>5
<1> QED BY <1>2, <1>3 DEF Verified

LEMMA ValidIsAcceptedOpen == OpenSpec => ValidIsNotRejected
<1>1. ASSUME ReadInv, AllKeysLoaded, Undecided, OpenNext,
             verdict' = "rejected", Reading, UpToDate,
             OneScope(query), RowsUnique(catalog)
      PROVE  RefersToNothing(query, catalog)
  <2>1. CASE FetchRest
    <3>1. ~Verified /\ pc \in {"fetch_columns", "fetch_schemas"}
      BY <1>1, <2>1 DEF FetchRest, Answer
    <3> QED BY <1>1, <3>1, ValidIsVerified
  <2>2. CASE DatabaseFails \/ AnyCommit
    BY <1>1, <2>2 DEF DatabaseFails, Answer, AnyCommit, validation, Reading, Undecided
  <2>3. CASE Refuse \/ NothingToLookUp \/ Analyse
    BY <1>1, <2>3 DEF Refuse, NothingToLookUp, Analyse, Reading
  <2>4. CASE FetchTables \/ FetchColumns \/ FetchSchemas
    BY <1>1, <2>4 DEF FetchTables, FetchColumns, FetchSchemas, Reading, Undecided
  <2> QED BY <1>1, <2>1, <2>2, <2>3, <2>4 DEF OpenNext, Validate
<1>2. ReadInv /\ AllKeysLoaded /\ Undecided /\ [OpenNext]_vars =>
        [/\ verdict' = "rejected" /\ Reading /\ UpToDate
         /\ OneScope(query) /\ RowsUnique(catalog)
         => RefersToNothing(query, catalog)]_vars
  BY <1>1
<1>3. Init => AllKeysLoaded /\ Undecided
  BY DEF Init, AllKeysLoaded, Undecided
<1>4. ReadInv /\ AllKeysLoaded /\ Undecided /\ [OpenNext]_vars => AllKeysLoaded' /\ Undecided'
  BY AllKeysLoadedStep, UndecidedStep
<1> QED
  BY <1>2, <1>3, <1>4, ReadInvHolds, PTL DEF OpenSpec, ValidIsNotRejected

----------------------------------------------------------------------------
(* Every step is a step of what a validation promises, or none.             *)

(* Only a query gets as far as the index, and as long as nothing is         *)
(* committed the rows read are those of the index.                          *)
Steady ==
  /\ pc \notin {"received", "done"} => query.kind = "query"
  /\ seen = {catalog} /\ pc \in {"fetch_both", "fetch_columns", "fetch_schemas"}
       => UpToDate

LEMMA SteadyStep ==
  ASSUME ReadInv, Steady, [OpenNext]_vars
  PROVE  Steady'
<1> DEFINE found == {x \in catalog : x.name \in {t.name : t \in RealTables(query)}}
<1>1. CASE Analyse
  BY <1>1 DEF Analyse, Steady
<1>2. CASE FetchTables
  <2> DEFINE bare(x) == [x EXCEPT !.columns = {}]
             full(x) == [x EXCEPT !.columns = ColumnsOf(x.id)]
  <2>1. /\ rows' = {bare(x) : x \in found} /\ pc = "fetch_tables" /\ pc' = "fetch_both"
        /\ catalog' = catalog /\ query' = query
    BY <1>2 DEF FetchTables, index
  <2>2. \A x \in found : full(bare(x)) = x
    <3>1. \A x \in catalog : ColumnsOf(x.id) = x.columns
      BY DEF ColumnsOf, ReadInv, Typed, IdsUnique
    <3> QED BY <3>1 DEF ReadInv, Typed, TableRow
  <2>3. Loaded' = {full(x) : x \in rows'}
    BY <2>1 DEF Loaded, ColumnsOf
  <2>4. Loaded' = found
    <3> HIDE DEF found, bare, full
    <3> QED BY <2>1, <2>2, <2>3
  <2> QED BY <2>1, <2>4 DEF Steady, UpToDate, RealTables
<1>3. CASE FetchColumns
  <2>1. /\ rows' = Loaded /\ pc = "fetch_both" /\ pc' = "fetch_schemas"
        /\ UNCHANGED <<index, query>>
    BY <1>3 DEF FetchColumns
  <2>2. Loaded' = Loaded
    BY <2>1 DEF Loaded
  <2> QED BY <2>1, <2>2 DEF Steady, UpToDate, RealTables, index
<1>4. CASE FetchSchemas
  BY <1>4 DEF FetchSchemas, Steady, UpToDate, RealTables, index, Loaded, ColumnsOf
<1>5. CASE AnyCommit
  <2>1. UNCHANGED validation /\ seen' = seen \union {catalog'} /\ catalog \in seen
    BY <1>5 DEF AnyCommit, ReadInv, Typed
  <2>2. ASSUME seen' = {catalog'} PROVE catalog' = catalog /\ seen = {catalog}
    BY <2>1, <2>2
  <2> QED
    BY <2>1, <2>2 DEF validation, Steady, UpToDate, Loaded, ColumnsOf, RealTables
<1>6. ASSUME NEW v, Answer(v) PROVE Steady'
  BY <1>6 DEF Answer, Steady
<1>7. CASE UNCHANGED vars
  BY <1>7 DEF vars, Steady, UpToDate, Loaded, ColumnsOf, RealTables
<1> QED
  BY <1>1, <1>2, <1>3, <1>4, <1>5, <1>6, <1>7
  DEF OpenNext, Validate, Refuse, NothingToLookUp, FetchRest, DatabaseFails

(* The promise speaks of a query in the same words.                         *)
LEMMA SameWords ==
  ASSUME NEW q, NEW found
  PROVE  /\ Service!TablesThere(q, found) <=> TablesThere(q, found)
         /\ Service!ColumnsThere(q, found) <=> ColumnsThere(q, found)
         /\ Service!ColumnsSomewhere(q, found) <=> ColumnsSomewhere(q, found)
         /\ Service!RefersToNothing(q, found) <=> RefersToNothing(q, found)
         /\ Service!OneScope(q) <=> OneScope(q)
         /\ Service!NamesUnique(found) <=> NamesUnique(found)
         /\ Service!RowsUnique(found) <=> RowsUnique(found)
         /\ Service!TableRow = TableRow
<1>1. /\ \A t : Service!Denoted(t, found) = Denoted(t, found)
      /\ \A t : Service!Exposed(t) = Exposed(t)
  BY DEF Service!Denoted, Denoted, Service!Exposed, Exposed
<1>2. \A t, col : Service!Has(t, col, found) <=> Has(t, col, found)
  BY <1>1 DEF Service!Has, Has
<1>3. Service!RealTables(q) = RealTables(q)
  BY DEF Service!RealTables, RealTables
<1>4. /\ Service!TablesThere(q, found) <=> TablesThere(q, found)
      /\ Service!ColumnsSomewhere(q, found) <=> ColumnsSomewhere(q, found)
  BY <1>1, <1>3 DEF Service!TablesThere, TablesThere,
                    Service!ColumnsSomewhere, ColumnsSomewhere
<1>5. Service!ColumnsThere(q, found) <=> ColumnsThere(q, found)
  BY <1>1, <1>2 DEF Service!ColumnsThere, ColumnsThere
<1>6. Service!RefersToNothing(q, found) <=> RefersToNothing(q, found)
  BY <1>1, <1>2 DEF Service!RefersToNothing, RefersToNothing
<1>7. Service!OneScope(q) <=> OneScope(q)
  BY <1>1 DEF Service!OneScope, OneScope
<1>8. /\ Service!NamesUnique(found) <=> NamesUnique(found)
      /\ Service!RowsUnique(found) <=> RowsUnique(found)
      /\ Service!TableRow = TableRow
  BY DEF Service!NamesUnique, NamesUnique, Service!RowsUnique, RowsUnique,
         Service!Full, Full, Service!TableRow, TableRow
<1> QED BY <1>4, <1>5, <1>6, <1>7, <1>8

LEMMA AnswerGives ==
  ASSUME Undecided, pc # "done", NEW v, Answer(v)
  PROVE  Service!Give(v)
BY DEF Undecided, Answer, index, Service!Give

LEMMA AcceptingIsAccept ==
  ASSUME ReadInv, RowsNamed, Undecided, OpenNext, pc # "done", Answer("accepted"),
         query.kind = "query"
  PROVE  Service!Accept
<1>1. Accepts
  BY DEF Undecided, Answer, Accepts
<1>2. /\ \E found \in seen : Service!TablesThere(query, found)
      /\ Service!ColumnsSomewhere(query, catalog)
  BY <1>1, AcceptedTables, SameWords
<1>3. Service!OneScope(query) /\ (\A found \in seen : Service!NamesUnique(found))
        => Service!ColumnsThere(query, catalog)
  BY <1>1, AcceptedColumns, SameWords
<1>4. Service!Give("accepted")
  BY AnswerGives
<1> QED BY <1>2, <1>3, <1>4 DEF Service!Accept

LEMMA LastReadIsService ==
  ASSUME ReadInv, RowsNamed, AllKeysLoaded, Undecided, Steady, FetchRest
  PROVE  Service!Next
<1>1. /\ pc \in {"fetch_columns", "fetch_schemas"} /\ query.kind = "query"
      /\ OpenNext
  BY DEF FetchRest, Steady, OpenNext, Validate
<1>2. CASE Orphaned
  <2>1. Service!Give("failed")
    BY <1>1, <1>2, AnswerGives DEF FetchRest
  <2> QED BY <1>1, <2>1 DEF Service!Fail, Service!Next
<1>3. CASE ~Orphaned /\ Verified
  <2>1. Answer("accepted")
    BY <1>3 DEF FetchRest
  <2> QED BY <1>1, <2>1, AcceptingIsAccept DEF Service!Next
<1>4. CASE ~Orphaned /\ ~Verified
  <2>1. Service!Give("rejected")
    BY <1>1, <1>4, AnswerGives DEF FetchRest
  <2>2. seen = {catalog} => UpToDate
    BY <1>1 DEF Steady
  <2>3. \/ seen # {catalog} \/ ~OneScope(query) \/ ~RowsUnique(catalog)
        \/ RefersToNothing(query, catalog)
    BY <1>1, <1>4, <2>2, ValidIsVerified
  <2> QED BY <2>1, <2>3, SameWords DEF Service!Reject, Service!Next
<1> QED BY <1>2, <1>3, <1>4

LEMMA ValidateIsService ==
  ASSUME ReadInv, RowsNamed, AllKeysLoaded, Undecided, Steady, Validate
  PROVE  Service!Next \/ UNCHANGED Service!vars
<1>1. CASE Refuse
  <2>1. query.kind # "query" /\ Service!Give("rejected")
    BY <1>1, AnswerGives DEF Refuse
  <2> QED BY <2>1 DEF Service!Reject, Service!Next
<1>2. CASE NothingToLookUp
  <2>1. /\ pc # "done" /\ query.kind = "query" /\ Answer("accepted") /\ OpenNext
    BY <1>2 DEF NothingToLookUp, OpenNext, Validate
  <2> QED BY <2>1, AcceptingIsAccept DEF Service!Next
<1>3. CASE Analyse \/ FetchTables \/ FetchColumns \/ FetchSchemas
  BY <1>3 DEF Analyse, FetchTables, FetchColumns, FetchSchemas, index, Service!vars
<1>4. CASE FetchRest
  BY <1>4, LastReadIsService
<1>5. CASE DatabaseFails
  <2>1. query.kind = "query" /\ Service!Give("failed")
    BY <1>5, AnswerGives DEF DatabaseFails, Reading, Steady
  <2> QED BY <2>1 DEF Service!Fail, Service!Next
<1> QED BY <1>1, <1>2, <1>3, <1>4, <1>5 DEF Validate

LEMMA CommitIsService ==
  ASSUME ReadInv, AnyCommit
  PROVE  Service!Commit
<1>1. catalog' \subseteq TableRow
  BY CommitKeepsInv DEF ReadInv, Typed
<1> QED
  BY <1>1, SameWords DEF AnyCommit, validation, Service!Commit

LEMMA ValidationOpen == OpenSpec => ImplementsValidator
<1>1. Init => Service!Init
  BY ValidationAssumption, SameWords DEF Init, Service!Init
<1>2. ASSUME ReadInv, RowsNamed, AllKeysLoaded, Undecided, Steady, [OpenNext]_vars
      PROVE  [Service!Next]_(Service!vars)
  <2>1. CASE Validate
    BY <1>2, <2>1, ValidateIsService
  <2>2. CASE AnyCommit
    BY <1>2, <2>2, CommitIsService DEF Service!Next
  <2>3. CASE UNCHANGED vars
    BY <2>3 DEF vars, Service!vars
  <2> QED BY <1>2, <2>1, <2>2, <2>3 DEF OpenNext
<1>3. Init => AllKeysLoaded /\ Undecided /\ Steady
  BY DEF Init, AllKeysLoaded, Undecided, Steady
<1>4. ReadInv /\ AllKeysLoaded /\ Undecided /\ Steady /\ [OpenNext]_vars
        => AllKeysLoaded' /\ Undecided' /\ Steady'
  BY AllKeysLoadedStep, UndecidedStep, SteadyStep
<1> QED
  BY <1>1, <1>2, <1>3, <1>4, ReadInvHolds, RowsNamedHolds, PTL
  DEF OpenSpec, ImplementsValidator, Service!Spec

----------------------------------------------------------------------------
(* The theorems.                                                            *)

(* Type correctness, and that rows of the index keep their identifiers to   *)
(* themselves.                                                              *)
THEOREM TypeCorrect == Spec => []TypeOK
<1> DEFINE Bounded == changes \in 0..MaxChanges
<1>1. Init => Bounded
  BY ValidationAssumption DEF Init
<1>2. Bounded /\ [Next]_vars => Bounded'
  <2> SUFFICES ASSUME Bounded, [Next]_vars PROVE Bounded'
    OBVIOUS
  <2>1. CASE IndexCommits
    BY <2>1, ValidationAssumption DEF IndexCommits
  <2>2. CASE UNCHANGED changes
    BY <2>2
  <2> QED
    BY <2>1, <2>2
    DEF Next, vars, Validate, Refuse, NothingToLookUp, Analyse, FetchTables,
        FetchColumns, FetchSchemas, FetchRest, DatabaseFails, Answer, index
<1>3. ReadInv /\ Bounded => TypeOK
  BY DEF ReadInv, Typed, TypeOK
<1> QED BY <1>1, <1>2, <1>3, IndexIsAllowed, PTL DEF Spec

(* Whatever else commits to the index, as long as it keeps to the contract  *)
(* of SchemaCatalog, the validation implements its promise, and accepts and *)
(* rejects rightly: the reader asks no more of the writers than the         *)
(* contract (sql_validation_service.py:178-289).                            *)
THEOREM ContractSuffices ==
  OpenSpec => /\ AcceptedTablesExist /\ AcceptedColumnsExist
              /\ ValidIsNotRejected /\ ImplementsValidator
BY AcceptedTablesOpen, AcceptedColumnsOpen, ValidIsAcceptedOpen, ValidationOpen

(* The commits of the index requests keep to the contract.                  *)
THEOREM CommitsKeepContract == Spec => ImplementsCatalog
<1>1. Init => Index!Init
  BY ValidationAssumption DEF Init, Index!Init, Index!Numbered, Index!Entry,
                              TableRow, IdsUnique
<1>2. ASSUME ReadInv, [Next]_vars
      PROVE  [Index!Next]_<<catalog, 1..lastId>>
  <2>1. CASE IndexCommits
    BY <1>2, <2>1, IndexKeepsContract DEF AnyCommit
  <2>2. CASE UNCHANGED <<catalog, lastId>>
    BY <2>2
  <2> QED
    BY <1>2, <2>1, <2>2
    DEF Next, vars, Validate, Refuse, NothingToLookUp, Analyse, FetchTables,
        FetchColumns, FetchSchemas, FetchRest, DatabaseFails, Answer, index
<1> QED
  BY <1>1, <1>2, IndexIsAllowed, PTL DEF Spec, ImplementsCatalog, Index!Spec

(* A query is accepted only if the tables it reads were in the index at one *)
(* moment since it was given, and its columns are there still, in whatever  *)
(* order columns and schemas are read and however many commits fall between *)
(* the reads.                                                               *)
THEOREM TablesExist == Spec => AcceptedTablesExist
BY IndexIsAllowed, ContractSuffices

(* If no two schemas shared a table name meanwhile, a query of one scope is *)
(* accepted only if all its columns exist at that moment.                   *)
THEOREM ColumnsExist == Spec => AcceptedColumnsExist
BY IndexIsAllowed, ContractSuffices

(* A query of one scope that the index as read bears out is not rejected.   *)
THEOREM ValidIsAccepted == Spec => ValidIsNotRejected
BY IndexIsAllowed, ContractSuffices

(* The service implements what a validation promises, for all queries and   *)
(* contents of the index, with commits anywhere between its reads.          *)
THEOREM ValidationImplementsPromise == Spec => ImplementsValidator
BY IndexIsAllowed, ContractSuffices

=============================================================================
