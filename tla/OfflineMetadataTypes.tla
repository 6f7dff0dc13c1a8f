------------------------ MODULE OfflineMetadataTypes ------------------------
(***************************************************************************)
(* What each step of OfflineMetadata is, spelled out once for the proofs   *)
(* in the modules that extend this one: the types a step keeps (TypesInv), *)
(* which parts of a job it leaves alone, and how it moves the rows of the  *)
(* store.                                                                  *)
(***************************************************************************)
EXTENDS OfflineMetadata, FiniteSetTheorems, TLAPS

Partial(S, T) == UNION {[D -> T] : D \in SUBSET S}

JobPcs == {"idle", "sample"} \union FetchPcs \union SavePcs \union Ended

JobType ==
  [pc : JobPcs, force : BOOLEAN, tries : 0..(MaxTries - 1),
   schemas : SUBSET Schemas, tables : SUBSET Tables,
   columns : Partial(Columns, Nat), keys : SUBSET (Columns \X Columns),
   unread : SUBSET Tables, listed : SUBSET Tables,
   ids : Partial(Objects, RowId), inserts : SUBSET Row,
   updates : Partial(RowId, Facts), deletes : SUBSET RowId]

RunPcs == {"idle", "generate", "success", "not_found", "aborted", "crashed"}

RunType == [pc : RunPcs, rows : SUBSET LoadedRow, todo : SUBSET RowId]

SourceInv ==
  /\ source.columns \in SUBSET Columns
  /\ source.version \in [Columns -> 0..edits]
  /\ source.contents \in [Tables -> Contents]
  /\ source = [columns |-> source.columns, version |-> source.version,
               contents |-> source.contents]
  /\ edits \in 0..MaxEdits

(* Only a request that is saving has rows and changes of its own.           *)
Bare(j) ==
  /\ j.pc # "upsert" => j.inserts = {} /\ DOMAIN j.updates = {} /\ j.deletes = {}
  /\ j.pc \notin {"upsert", "success"} => DOMAIN j.ids = {}

JobsInv ==
  /\ job \in [Requests -> JobType]
  /\ \A r \in Requests : Bare(job[r])
  /\ disturbed \in [Requests -> BOOLEAN] /\ overlapped \in BOOLEAN

RunsInv ==
  /\ run \in [Runs -> RunType]
  /\ \A g \in Runs : run[g].todo \subseteq IdsOf(run[g].rows)

TypesInv == SourceInv /\ JobsInv /\ RunsInv /\ store \in SUBSET Row

----------------------------------------------------------------------------
(* Data.                                                                    *)

LEMMA PartialParts ==
  ASSUME NEW S, NEW T, NEW f \in Partial(S, T)
  PROVE  /\ DOMAIN f \in SUBSET S
         /\ f \in [DOMAIN f -> T]
         /\ \A x \in DOMAIN f : f[x] \in T
<1>1. PICK D \in SUBSET S : f \in [D -> T]
  BY DEF Partial
<1> QED
  BY <1>1

LEMMA PartialIs ==
  ASSUME NEW S, NEW T, NEW D \in SUBSET S, NEW f \in [D -> T]
  PROVE  f \in Partial(S, T)
BY DEF Partial

LEMMA PutParts ==
  ASSUME NEW f, NEW x, NEW v
  PROVE  /\ DOMAIN Put(f, x, v) = DOMAIN f \union {x}
         /\ Put(f, x, v)[x] = v
         /\ \A y \in DOMAIN f : y # x => Put(f, x, v)[y] = f[y]
BY DEF Put

LEMMA PutType ==
  ASSUME NEW S, NEW T, NEW f \in Partial(S, T), NEW x \in S, NEW v \in T
  PROVE  Put(f, x, v) \in Partial(S, T)
<1>1. DOMAIN f \in SUBSET S /\ \A y \in DOMAIN f : f[y] \in T
  BY PartialParts
<1>2. Put(f, x, v) \in [DOMAIN f \union {x} -> T]
  BY <1>1 DEF Put
<1> QED
  BY <1>1, <1>2, PartialIs

LEMMA RestrictType ==
  ASSUME NEW S, NEW T, NEW f \in Partial(S, T), NEW D \in SUBSET DOMAIN f
  PROVE  /\ Restrict(f, D) \in Partial(S, T)
         /\ DOMAIN Restrict(f, D) = D
         /\ \A x \in D : Restrict(f, D)[x] = f[x]
<1>1. DOMAIN f \in SUBSET S /\ \A y \in DOMAIN f : f[y] \in T
  BY PartialParts
<1>2. Restrict(f, D) \in [D -> T]
  BY <1>1 DEF Restrict
<1> QED
  BY <1>1, <1>2, PartialIs DEF Restrict

LEMMA NothingType ==
  ASSUME NEW S, NEW T
  PROVE  Nothing \in Partial(S, T) /\ DOMAIN Nothing = {}
<1>1. Nothing \in [{} -> T] /\ DOMAIN Nothing = {}
  BY DEF Nothing
<1> QED
  BY <1>1, PartialIs

LEMMA NewJobType == NewJob \in JobType /\ Bare(NewJob)
<1>1. DOMAIN Nothing = {}
  BY NothingType
<1>2. /\ Nothing \in Partial(Columns, Nat) /\ Nothing \in Partial(Objects, RowId)
      /\ Nothing \in Partial(RowId, Facts)
  BY NothingType
<1>3. 0 \in 0..(MaxTries - 1)
  BY IndexAssumption
<1> QED
  BY <1>1, <1>2, <1>3 DEF NewJob, JobType, JobPcs, Bare

LEMMA ObjectFacts ==
  /\ DatabaseName \in Objects
  /\ Schemas \subseteq Objects /\ Tables \subseteq Objects /\ Columns \subseteq Objects
  /\ \A o \in Objects : o = DatabaseName \/ Parent[o] \in Objects
  /\ \A t \in Tables : Parent[t] \in Schemas
  /\ \A c \in Columns : Parent[c] \in Tables
BY StoreAssumption DEF Objects

LEMMA RowIdIs ==
  ASSUME NEW r \in Requests, NEW o \in Objects
  PROVE  /\ <<r, o>> \in RowId
         /\ <<r, o>>[1] = r /\ <<r, o>>[2] = o
         /\ <<r, o>> # NoRow
BY StoreAssumption DEF RowId

(* One request's job is replaced.                                           *)
LEMMA JobReplaced ==
  ASSUME JobsInv, NEW r \in Requests, NEW j \in JobType, Bare(j),
         job' = [job EXCEPT ![r] = j],
         disturbed' \in [Requests -> BOOLEAN], overlapped' \in BOOLEAN
  PROVE  /\ JobsInv'
         /\ job'[r] = j
         /\ \A q \in Requests \ {r} : job'[q] = job[q]
BY DEF JobsInv

----------------------------------------------------------------------------
(* The steps of a request up to its transaction.                            *)

(* The job of r before its transaction, and after a step of its crawl.      *)
Crawled(r, j) ==
  /\ j \in JobType
  /\ job[r].pc \in {"idle"} \union CrawlPcs
  /\ j.pc \in CrawlPcs \union {"upsert_database"}
  /\ j.ids = job[r].ids /\ j.inserts = job[r].inserts
  /\ j.updates = job[r].updates /\ j.deletes = job[r].deletes

CrawlStep(r) ==
  /\ \E j \in JobType : Crawled(r, j) /\ job' = [job EXCEPT ![r] = j]
  /\ UNCHANGED <<store, source, edits, disturbed, overlapped>>

LEMMA CrawlStepType ==
  ASSUME JobsInv, NEW r \in Requests, CrawlStep(r)
  PROVE  /\ JobsInv'
         /\ \A q \in Requests \ {r} : job'[q] = job[q]
         /\ job'[r].pc \in CrawlPcs \union {"upsert_database"}
         /\ job[r].pc \in {"idle"} \union CrawlPcs
         /\ UNCHANGED <<store, source, edits, disturbed, overlapped>>
<1>1. PICK j \in JobType : Crawled(r, j) /\ job' = [job EXCEPT ![r] = j]
  BY DEF CrawlStep
<1>2. Bare(j)
  BY <1>1 DEF Crawled, Bare, JobsInv, CrawlPcs, FetchPcs
<1>3. disturbed' \in [Requests -> BOOLEAN] /\ overlapped' \in BOOLEAN
  BY DEF CrawlStep, JobsInv
<1> QED
  BY <1>1, <1>2, <1>3, JobReplaced DEF CrawlStep, Crawled

LEMMA StartStep ==
  ASSUME JobsInv, NEW r \in Requests, NEW force \in BOOLEAN, Start(r, force)
  PROVE  CrawlStep(r)
<1> DEFINE j == [job[r] EXCEPT !.pc = "fetch_schemas", !.force = force]
<1>1. job[r] \in JobType
  BY DEF JobsInv
<1>2. job' = [job EXCEPT ![r] = j]
  BY DEF Start, JobsInv
<1>3. j \in JobType
  BY <1>1 DEF JobType, JobPcs, FetchPcs
<1>4. Crawled(r, j)
  BY <1>1, <1>3 DEF Crawled, JobType, CrawlPcs, FetchPcs, Start
<1> HIDE DEF j
<1> QED
  BY <1>2, <1>3, <1>4 DEF CrawlStep, Start

(* A query has been answered: answer is the job with what it found.         *)
LEMMA AnsweredStep ==
  ASSUME JobsInv, NEW r \in Requests, NEW pc \in FetchPcs,
         NEW next \in CrawlPcs, NEW answer \in JobType,
         answer.ids = job[r].ids, answer.inserts = job[r].inserts,
         answer.updates = job[r].updates, answer.deletes = job[r].deletes,
         Answered(r, pc, next, answer)
  PROVE  CrawlStep(r) /\ job'[r].pc \in CrawlPcs
<1> DEFINE j == [answer EXCEPT !.pc = next, !.tries = 0]
<1>1. 0 \in 0..(MaxTries - 1) /\ next \in JobPcs
  BY IndexAssumption DEF JobPcs, CrawlPcs
<1>2. j \in JobType
  BY <1>1 DEF JobType
<1>3. Crawled(r, j)
  BY <1>2 DEF Crawled, JobType, CrawlPcs, Answered
<1>4. job' = [job EXCEPT ![r] = j]
  BY DEF Answered
<1>5. j.pc = next
  BY DEF JobType
<1> HIDE DEF j
<1>6. job'[r] = j
  BY <1>4 DEF JobsInv
<1> QED
  BY <1>2, <1>3, <1>4, <1>5, <1>6 DEF CrawlStep, Answered

LEMMA SourceFacts ==
  ASSUME SourceInv
  PROVE  /\ SourceTables \subseteq Tables /\ SourceSchemas \subseteq Schemas
         /\ SourceKeys \subseteq Columns \X Columns
         /\ Restrict(source.version, source.columns) \in Partial(Columns, Nat)
         /\ DOMAIN Restrict(source.version, source.columns) = source.columns
         /\ \A c \in source.columns :
              Restrict(source.version, source.columns)[c] = source.version[c]
<1>1. SourceTables \subseteq Tables
  BY ObjectFacts DEF SourceTables, SourceInv
<1>2. SourceSchemas \subseteq Schemas
  BY <1>1, ObjectFacts DEF SourceSchemas
<1>3. SourceKeys \subseteq Columns \X Columns
  BY IndexAssumption DEF SourceKeys
<1>4. source.version \in [Columns -> Nat]
  BY DEF SourceInv
<1>5. Restrict(source.version, source.columns) \in [source.columns -> Nat]
  BY <1>4 DEF Restrict, SourceInv
<1> QED
  BY <1>1, <1>2, <1>3, <1>5, PartialIs DEF SourceInv, Restrict

LEMMA FetchSteps ==
  ASSUME SourceInv, JobsInv, NEW r \in Requests,
         \/ FetchSchemas(r) \/ FetchTables(r) \/ FetchColumns(r) \/ FetchKeys(r)
  PROVE  CrawlStep(r) /\ job'[r].pc \in CrawlPcs
<1>1. job[r] \in JobType
  BY DEF JobsInv
<1>2. CASE FetchSchemas(r)
  <2> DEFINE answer == [job[r] EXCEPT !.schemas = SourceSchemas]
  <2>1. answer \in JobType
    BY <1>1, SourceFacts DEF JobType
  <2>2. /\ answer.ids = job[r].ids /\ answer.inserts = job[r].inserts
        /\ answer.updates = job[r].updates /\ answer.deletes = job[r].deletes
    BY <1>1 DEF JobType
  <2>3. Answered(r, "fetch_schemas", "fetch_tables", answer)
    BY <1>2 DEF FetchSchemas
  <2> HIDE DEF answer
  <2> QED
    BY <2>1, <2>2, <2>3, AnsweredStep DEF CrawlPcs, FetchPcs
<1>3. CASE FetchTables(r)
  <2> DEFINE answer == [job[r] EXCEPT !.tables = SourceTables]
  <2>1. answer \in JobType
    BY <1>1, SourceFacts DEF JobType
  <2>2. /\ answer.ids = job[r].ids /\ answer.inserts = job[r].inserts
        /\ answer.updates = job[r].updates /\ answer.deletes = job[r].deletes
    BY <1>1 DEF JobType
  <2>3. Answered(r, "fetch_tables", "fetch_columns", answer)
    BY <1>3 DEF FetchTables
  <2> HIDE DEF answer
  <2> QED
    BY <2>1, <2>2, <2>3, AnsweredStep DEF CrawlPcs, FetchPcs
<1>4. CASE FetchColumns(r)
  <2> DEFINE columns == Restrict(source.version, source.columns)
             answer == [job[r] EXCEPT !.columns = columns]
  <2>1. columns \in Partial(Columns, Nat)
    BY SourceFacts
  <2>2. Answered(r, "fetch_columns", "fetch_keys", answer)
    BY <1>4 DEF FetchColumns
  <2> HIDE DEF columns
  <2>3. answer \in JobType
    BY <1>1, <2>1 DEF JobType
  <2>4. /\ answer.ids = job[r].ids /\ answer.inserts = job[r].inserts
        /\ answer.updates = job[r].updates /\ answer.deletes = job[r].deletes
    BY <1>1 DEF JobType
  <2> HIDE DEF answer
  <2> QED
    BY <2>2, <2>3, <2>4, AnsweredStep DEF CrawlPcs, FetchPcs
<1>5. CASE FetchKeys(r)
  <2>1. PICK found \in {SourceKeys, {}} :
          Answered(r, "fetch_keys", "sample", [job[r] EXCEPT !.keys = found])
    BY <1>5 DEF FetchKeys
  <2> DEFINE answer == [job[r] EXCEPT !.keys = found]
  <2>2. found \in SUBSET (Columns \X Columns)
    BY SourceFacts
  <2>3. answer \in JobType
    BY <1>1, <2>2 DEF JobType
  <2>4. /\ answer.ids = job[r].ids /\ answer.inserts = job[r].inserts
        /\ answer.updates = job[r].updates /\ answer.deletes = job[r].deletes
    BY <1>1 DEF JobType
  <2>5. Answered(r, "fetch_keys", "sample", answer)
    BY <2>1
  <2> HIDE DEF answer
  <2> QED
    BY <2>3, <2>4, <2>5, AnsweredStep DEF CrawlPcs, FetchPcs
<1> QED
  BY <1>2, <1>3, <1>4, <1>5

(* A fetch that fails is tried again, or fails the request.                 *)
LEMMA FetchFailsStep ==
  ASSUME JobsInv, NEW r \in Requests, FetchFails(r)
  PROVE  CrawlStep(r) \/ Fail(r)
<1>1. CASE NextTry(r) = MaxTries
  BY <1>1 DEF FetchFails
<1>2. CASE NextTry(r) # MaxTries
  <2> DEFINE j == [job[r] EXCEPT !.tries = NextTry(r)]
  <2>1. job[r] \in JobType /\ job[r].pc \in FetchPcs
        /\ job[r].tries \in 0..(MaxTries - 1)
    BY DEF JobsInv, FetchFails, JobType
  <2>2. NextTry(r) \in 0..(MaxTries - 1)
    BY <1>2, <2>1, IndexAssumption DEF NextTry
  <2>3. job' = [job EXCEPT ![r] = j]
        /\ UNCHANGED <<store, source, edits, disturbed, overlapped>>
    BY <1>2 DEF FetchFails, JobsInv
  <2>4. j \in JobType
    BY <2>1, <2>2 DEF JobType
  <2>5. Crawled(r, j)
    BY <2>1, <2>4 DEF Crawled, JobType, CrawlPcs
  <2> HIDE DEF j
  <2> QED
    BY <2>3, <2>4, <2>5 DEF CrawlStep
<1> QED
  BY <1>1, <1>2

(* What sampling makes of the job.                                          *)
SampledJob(r, unread) ==
  LET sampled == (job[r].tables \intersect SourceTables) \ unread
      kept == Kept(r, sampled)
  IN [job[r] EXCEPT
        !.pc = "upsert_database",
        !.unread = {t \in unread : HasSamples(t)},
        !.listed = sampled \intersect kept,
        !.tables = job[r].tables \intersect kept,
        !.columns = Restrict(@, {c \in DOMAIN @ : Parent[c] \in kept})]

LEMMA SampleStep ==
  ASSUME JobsInv, NEW r \in Requests, Sample(r)
  PROVE  /\ CrawlStep(r)
         /\ \E unread \in SUBSET job[r].tables :
              LET sampled == (job[r].tables \intersect SourceTables) \ unread
                  kept == Kept(r, sampled)
              IN /\ job'[r].pc = "upsert_database"
                 /\ job'[r].force = job[r].force
                 /\ job'[r].schemas = job[r].schemas
                 /\ job'[r].unread = {t \in unread : HasSamples(t)}
                 /\ job'[r].listed = kept
                 /\ job'[r].tables = kept
                 /\ DOMAIN job'[r].columns =
                      {c \in DOMAIN job[r].columns : Parent[c] \in kept}
                 /\ \A c \in DOMAIN job'[r].columns :
                      job'[r].columns[c] = job[r].columns[c]
<1>1. job[r].pc = "sample" /\ UNCHANGED <<store, source, edits, disturbed, overlapped>>
  BY DEF Sample
<1>2. PICK unread \in SUBSET job[r].tables :
        LET sampled == (job[r].tables \intersect SourceTables) \ unread
            kept == Kept(r, sampled)
        IN job' = [job EXCEPT
             ![r].pc = "upsert_database",
             ![r].unread = {t \in unread : HasSamples(t)},
             ![r].listed = sampled \intersect kept,
             ![r].tables = job[r].tables \intersect kept,
             ![r].columns = Restrict(@, {c \in DOMAIN @ : Parent[c] \in kept})]
  BY DEF Sample
<1> DEFINE sampled == (job[r].tables \intersect SourceTables) \ unread
           kept == Kept(r, sampled)
           blank == {t \in unread : HasSamples(t)}
           D == {c \in DOMAIN job[r].columns : Parent[c] \in kept}
           columns == Restrict(job[r].columns, D)
           j == [job[r] EXCEPT !.pc = "upsert_database", !.unread = blank,
                               !.listed = kept, !.tables = kept,
                               !.columns = columns]
<1>3. job[r] \in JobType /\ job[r].tables \in SUBSET Tables
      /\ job[r].columns \in Partial(Columns, Nat)
  BY DEF JobsInv, JobType
<1>4. sampled \in SUBSET Tables /\ kept \in SUBSET sampled /\ blank \in SUBSET Tables
      /\ kept \in SUBSET job[r].tables
  BY <1>3 DEF Kept
<1>5. D \in SUBSET DOMAIN job[r].columns
  OBVIOUS
<1>6. /\ columns \in Partial(Columns, Nat) /\ DOMAIN columns = D
      /\ \A c \in D : columns[c] = job[r].columns[c]
  <2> DEFINE f == job[r].columns
  <2>1. f \in Partial(Columns, Nat) /\ D \in SUBSET DOMAIN f
    BY <1>3, <1>5
  <2> HIDE DEF f, D
  <2>2. /\ Restrict(f, D) \in Partial(Columns, Nat) /\ DOMAIN Restrict(f, D) = D
        /\ \A c \in D : Restrict(f, D)[c] = f[c]
    BY <2>1, RestrictType
  <2> QED
    BY <2>2 DEF f
<1>7. job' = [job EXCEPT
             ![r].pc = "upsert_database",
             ![r].unread = blank,
             ![r].listed = sampled \intersect kept,
             ![r].tables = job[r].tables \intersect kept,
             ![r].columns = columns]
  BY <1>2, <1>3 DEF JobsInv, JobType
<1> HIDE DEF sampled, kept, blank, D, columns
<1>8. sampled \intersect kept = kept /\ job[r].tables \intersect kept = kept
  BY <1>4
<1>9. job' = [job EXCEPT ![r] = j]
  BY <1>7, <1>8 DEF JobsInv
<1>10. j \in JobType
  BY <1>3, <1>4, <1>6 DEF JobType, JobPcs, SavePcs
<1>11. Crawled(r, j)
  BY <1>1, <1>3, <1>10 DEF Crawled, JobType, CrawlPcs
<1>12. /\ j.pc = "upsert_database" /\ j.force = job[r].force
       /\ j.schemas = job[r].schemas /\ j.unread = blank
       /\ j.listed = kept /\ j.tables = kept /\ j.columns = columns
  BY <1>3 DEF JobType
<1>13. job'[r] = j
  BY <1>9 DEF JobsInv
<1> HIDE DEF j
<1>14. CrawlStep(r)
  BY <1>1, <1>9, <1>10, <1>11 DEF CrawlStep
<1> QED
  BY <1>6, <1>12, <1>13, <1>14 DEF sampled, kept, blank, D

(* A change of the source.                                                  *)
LEMMA SourceChangesType ==
  ASSUME SourceInv, JobsInv, SourceChanges
  PROVE  SourceInv' /\ JobsInv' /\ UNCHANGED <<store, job, overlapped>>
<1>1. ASSUME NEW changed, EditSource(changed)
      PROVE  /\ edits' = edits + 1 /\ edits' \in 0..MaxEdits
             /\ source' = changed
             /\ JobsInv' /\ UNCHANGED <<store, job, overlapped>>
  <2>1. edits' = edits + 1 /\ edits' \in 0..MaxEdits
    BY <1>1, IndexAssumption DEF EditSource, SourceInv
  <2>2. UNCHANGED <<store, job, overlapped>> /\ source' = changed
    BY <1>1 DEF EditSource
  <2>3. disturbed' \in [Requests -> BOOLEAN]
    BY <1>1 DEF EditSource, Underway
  <2> QED
    BY <2>1, <2>2, <2>3 DEF JobsInv
<1>2. /\ source.columns \in SUBSET Columns
      /\ source.version \in [Columns -> 0..edits]
      /\ source.contents \in [Tables -> Contents]
      /\ source = [columns |-> source.columns, version |-> source.version,
                   contents |-> source.contents]
  BY DEF SourceInv
<1>3. edits \in Nat /\ 0..edits \subseteq 0..(edits + 1)
  BY DEF SourceInv
<1> DEFINE Typed(x) ==
      /\ x.columns \in SUBSET Columns
      /\ x.version \in [Columns -> 0..(edits + 1)]
      /\ x.contents \in [Tables -> Contents]
      /\ x = [columns |-> x.columns, version |-> x.version, contents |-> x.contents]
<1>4. source.version \in [Columns -> 0..(edits + 1)]
  BY <1>2, <1>3
<1>5. ASSUME NEW columns \in SUBSET Columns
      PROVE  Typed([source EXCEPT !.columns = columns])
  BY <1>2, <1>4
<1>6. ASSUME NEW c \in Columns
      PROVE  Typed([source EXCEPT !.version[c] = @ + 1])
  <2>1. source.version[c] + 1 \in 0..(edits + 1)
    BY <1>2, <1>3
  <2>2. [source.version EXCEPT ![c] = @ + 1] \in [Columns -> 0..(edits + 1)]
    BY <1>4, <2>1
  <2> DEFINE v == [source.version EXCEPT ![c] = @ + 1]
  <2>3. [source EXCEPT !.version[c] = @ + 1] = [source EXCEPT !.version = v]
    BY <1>2
  <2> HIDE DEF v
  <2>4. v \in [Columns -> 0..(edits + 1)]
    BY <2>2 DEF v
  <2>5. Typed([source EXCEPT !.version = v])
    BY <1>2, <2>4
  <2> QED
    BY <2>3, <2>5
<1>7. ASSUME NEW t \in Tables, NEW k \in Contents
      PROVE  Typed([source EXCEPT !.contents[t] = k])
  <2> DEFINE v == [source.contents EXCEPT ![t] = k]
  <2>1. [source EXCEPT !.contents[t] = k] = [source EXCEPT !.contents = v]
    BY <1>2
  <2>2. v \in [Tables -> Contents]
    BY <1>2
  <2> HIDE DEF v
  <2>3. Typed([source EXCEPT !.contents = v])
    BY <1>2, <1>4, <2>2
  <2> QED
    BY <2>1, <2>3
<1>8. PICK changed : EditSource(changed) /\ Typed(changed)
  <2>1. CASE \E c \in Columns : Parent[c] \in Changing /\
               \/ /\ c \notin source.columns
                  /\ EditSource([source EXCEPT !.columns = @ \union {c}])
               \/ /\ c \in source.columns
                  /\ \/ EditSource([source EXCEPT !.columns = @ \ {c}])
                     \/ EditSource([source EXCEPT !.version[c] = @ + 1])
    <3>1. PICK c \in Columns :
            \/ EditSource([source EXCEPT !.columns = @ \union {c}])
            \/ EditSource([source EXCEPT !.columns = @ \ {c}])
            \/ EditSource([source EXCEPT !.version[c] = @ + 1])
      BY <2>1
    <3>2. /\ source.columns \union {c} \in SUBSET Columns
          /\ source.columns \ {c} \in SUBSET Columns
      BY <1>2
    <3>3. /\ Typed([source EXCEPT !.columns = source.columns \union {c}])
          /\ Typed([source EXCEPT !.columns = source.columns \ {c}])
      BY <3>2, <1>5
    <3>4. Typed([source EXCEPT !.version[c] = @ + 1])
      BY <1>6
    <3> HIDE DEF Typed
    <3> QED
      BY <3>1, <3>3, <3>4
  <2>2. CASE \E t \in Changing \intersect SourceTables :
               \E k \in Contents \ {source.contents[t]} :
                 EditSource([source EXCEPT !.contents[t] = k])
    <3>1. PICK t \in Changing, k \in Contents :
            EditSource([source EXCEPT !.contents[t] = k])
      BY <2>2
    <3>2. t \in Tables
      BY IndexAssumption
    <3>3. Typed([source EXCEPT !.contents[t] = k])
      BY <3>2, <1>7
    <3> HIDE DEF Typed
    <3> QED
      BY <3>1, <3>3
  <2> HIDE DEF Typed
  <2> QED
    BY <2>1, <2>2 DEF SourceChanges
<1> QED
  BY <1>1, <1>8 DEF SourceInv

(* The end of a request.                                                    *)
LEMMA FailStep ==
  ASSUME JobsInv, NEW r \in Requests, Fail(r)
  PROVE  /\ JobsInv'
         /\ job'[r].pc = "failed"
         /\ \A q \in Requests \ {r} : job'[q] = job[q]
         /\ UNCHANGED <<store, source, edits, overlapped>>
<1> DEFINE j == [NewJob EXCEPT !.pc = "failed"]
<1>1. job' = [job EXCEPT ![r] = j]
  BY DEF Fail, EndAs
<1>2. NewJob \in JobType /\ Bare(NewJob) /\ NewJob.pc = "idle"
  BY NewJobType DEF NewJob
<1>4. j \in JobType /\ j.pc = "failed"
  BY <1>2 DEF JobType, JobPcs, Ended
<1>5. Bare(j)
  BY <1>2 DEF Bare, JobType
<1>3. disturbed' \in [Requests -> BOOLEAN] /\ overlapped' \in BOOLEAN
  BY DEF Fail, JobsInv
<1> HIDE DEF j
<1> QED
  BY <1>1, <1>3, <1>4, <1>5, JobReplaced DEF Fail

LEMMA SuccessStep ==
  ASSUME JobsInv, NEW r \in Requests, EndAs(r, "success"),
         DatabaseName \in DOMAIN job[r].ids,
         disturbed' \in [Requests -> BOOLEAN], UNCHANGED overlapped
  PROVE  /\ JobsInv'
         /\ job'[r].pc = "success"
         /\ job'[r].force = job[r].force /\ job'[r].unread = job[r].unread
         /\ job'[r].ids[DatabaseName] = job[r].ids[DatabaseName]
         /\ \A q \in Requests \ {r} : job'[q] = job[q]
<1> DEFINE ids == Restrict(job[r].ids, {DatabaseName})
           j == [NewJob EXCEPT !.pc = "success", !.force = job[r].force,
                               !.unread = job[r].unread, !.ids = ids]
<1>1. job' = [job EXCEPT ![r] = j]
  BY DEF EndAs
<1>2. /\ job[r] \in JobType /\ job[r].ids \in Partial(Objects, RowId)
      /\ job[r].force \in BOOLEAN /\ job[r].unread \in SUBSET Tables
  BY DEF JobsInv, JobType
<1>3. {DatabaseName} \in SUBSET DOMAIN job[r].ids
  OBVIOUS
<1>4. ids \in Partial(Objects, RowId) /\ ids[DatabaseName] = job[r].ids[DatabaseName]
  BY <1>2, <1>3, RestrictType
<1> HIDE DEF ids
<1>5. NewJob \in JobType /\ Bare(NewJob) /\ NewJob.pc # "upsert"
  BY NewJobType DEF NewJob
<1>6. /\ j \in JobType /\ j.pc = "success" /\ j.force = job[r].force
      /\ j.unread = job[r].unread /\ j.ids = ids
  BY <1>2, <1>4, <1>5 DEF JobType, JobPcs, Ended
<1>7. Bare(j)
  BY <1>5 DEF Bare, JobType
<1>8. overlapped' \in BOOLEAN
  BY DEF JobsInv
<1> HIDE DEF j
<1>9. JobsInv' /\ job'[r] = j /\ \A q \in Requests \ {r} : job'[q] = job[q]
  BY <1>1, <1>6, <1>7, <1>8, JobReplaced
<1> QED
  BY <1>4, <1>6, <1>9

----------------------------------------------------------------------------
(* The steps of a transaction.                                              *)

LEMMA NewRowType ==
  ASSUME NEW r \in Requests, NEW o \in Objects, NEW parent \in RowId \union {NoRow},
         NEW root \in RowId, NEW facts \in Facts
  PROVE  /\ NewRow(r, o, parent, root, facts) \in Row
         /\ NewRow(r, o, parent, root, facts).id = <<r, o>>
         /\ NewRow(r, o, parent, root, facts).parent = parent
         /\ NewRow(r, o, parent, root, facts).root = root
         /\ NewRow(r, o, parent, root, facts).facts = facts
         /\ NewRow(r, o, parent, root, facts).text = NoText
         /\ Name(NewRow(r, o, parent, root, facts)) = o
BY RowIdIs DEF NewRow, Row, Name

LEMMA FactsOfType ==
  ASSUME JobsInv, NEW r \in Requests, NEW o \in Objects,
         o \in Columns => o \in DOMAIN job[r].columns
  PROVE  /\ FactsOf(r, o) \in Facts
         /\ o \in Columns => FactsOf(r, o).listed = (Parent[o] \in job[r].listed)
                             /\ FactsOf(r, o).version = job[r].columns[o]
         /\ o \notin Columns => FactsOf(r, o).listed = TRUE
<1>1. job[r].columns \in Partial(Columns, Nat)
  BY DEF JobsInv, JobType
<1>2. DOMAIN job[r].columns \in SUBSET Columns
      /\ \A c \in DOMAIN job[r].columns : job[r].columns[c] \in Nat
  BY <1>1, PartialParts
<1> DEFINE own == {c \in DOMAIN job[r].columns : Parent[c] = o}
<1>3. Cardinality(own) \in Nat
  <2>1. own \in SUBSET Columns
    BY <1>2
  <2> HIDE DEF own
  <2> QED
    BY <2>1, IndexAssumption, FS_Subset, FS_CardinalityType
<1>4. CASE o \in Columns
  BY <1>2, <1>4 DEF FactsOf, Facts
<1>5. CASE o \notin Columns /\ o \in Tables
  BY <1>3, <1>5 DEF FactsOf, Facts
<1>6. CASE o \notin Columns /\ o \notin Tables
  BY <1>6 DEF FactsOf, Facts, NoFacts
<1> QED
  BY <1>4, <1>5, <1>6

(* What the transaction leaves alone of the job.                            *)
SameCrawl(r) ==
  /\ job'[r].force = job[r].force /\ job'[r].schemas = job[r].schemas
  /\ job'[r].tables = job[r].tables /\ job'[r].columns = job[r].columns
  /\ job'[r].keys = job[r].keys /\ job'[r].listed = job[r].listed
  /\ job'[r].unread = job[r].unread

(* The databases row is inserted, in place of the one there is or not, or   *)
(* found.                                                                   *)
Begun(r) ==
  LET found == RowsNamed(store, {DatabaseName})
      new == <<r, DatabaseName>>
  IN \/ /\ job'[r].ids[DatabaseName] = new
        /\ job'[r].inserts = {NewRow(r, DatabaseName, NoRow, new, NoFacts)}
        /\ \/ found = {} /\ job'[r].deletes = {}
           \/ job[r].force /\ \E x \in found : job'[r].deletes = {x.id}
     \/ /\ \E x \in found : job'[r].ids[DatabaseName] = x.id
        /\ job'[r].inserts = {} /\ job'[r].deletes = {}
        /\ ~job[r].force

LEMMA BeginStep ==
  ASSUME JobsInv, store \in SUBSET Row, NEW r \in Requests, UpsertDatabase(r)
  PROVE  /\ JobsInv'
         /\ job[r].pc = "upsert_database" /\ job'[r].pc = "upsert"
         /\ DOMAIN job'[r].ids = {DatabaseName} /\ DOMAIN job'[r].updates = {}
         /\ SameCrawl(r) /\ Begun(r)
         /\ \A q \in Requests \ {r} : job'[q] = job[q]
         /\ overlapped' = (overlapped \/ \E q \in Requests \ {r} : job[q].pc = "upsert")
         /\ UNCHANGED <<store, source, edits, disturbed>>
<1> DEFINE found == RowsNamed(store, {DatabaseName})
           new == <<r, DatabaseName>>
           ids == Put(Nothing, DatabaseName, new)
           row == NewRow(r, DatabaseName, NoRow, new, NoFacts)
           inserting == [job[r] EXCEPT !.pc = "upsert", !.ids = ids, !.inserts = {row}]
<1>1. /\ job[r] \in JobType /\ job[r].pc = "upsert_database"
      /\ job[r].inserts = {} /\ DOMAIN job[r].updates = {} /\ job[r].deletes = {}
  BY DEF JobsInv, Bare, UpsertDatabase
<1>2. new \in RowId /\ NoFacts \in Facts /\ DatabaseName \in Objects
  BY RowIdIs, ObjectFacts DEF NoFacts, Facts
<1>3. row \in Row
  BY <1>2, NewRowType
<1>4. ASSUME NEW id \in RowId
      PROVE  /\ Put(Nothing, DatabaseName, id) \in Partial(Objects, RowId)
             /\ DOMAIN Put(Nothing, DatabaseName, id) = {DatabaseName}
             /\ Put(Nothing, DatabaseName, id)[DatabaseName] = id
  <2>1. Nothing \in Partial(Objects, RowId) /\ DOMAIN Nothing = {}
    BY NothingType
  <2>2. DOMAIN Nothing \union {DatabaseName} = {DatabaseName}
    BY <2>1
  <2>3. Put(Nothing, DatabaseName, id) \in Partial(Objects, RowId)
    BY <1>2, <2>1, PutType
  <2>4. /\ DOMAIN Put(Nothing, DatabaseName, id) = DOMAIN Nothing \union {DatabaseName}
        /\ Put(Nothing, DatabaseName, id)[DatabaseName] = id
    BY DEF Put
  <2> QED
    BY <2>2, <2>3, <2>4
<1>5. /\ UNCHANGED <<store, source, edits, disturbed>>
      /\ overlapped' = (overlapped \/ \E q \in Requests \ {r} : job[q].pc = "upsert")
  BY DEF UpsertDatabase
<1>6. disturbed' \in [Requests -> BOOLEAN] /\ overlapped' \in BOOLEAN
  BY <1>5 DEF JobsInv
<1>7. found \subseteq Row /\ \A x \in found : x.id \in RowId
  BY DEF RowsNamed, Row
<1>8. ids \in Partial(Objects, RowId) /\ DOMAIN ids = {DatabaseName}
      /\ ids[DatabaseName] = new
  BY <1>2, <1>4
<1>9. \/ found = {} /\ job' = [job EXCEPT ![r] = inserting]
      \/ job[r].force /\ \E x \in found :
           job' = [job EXCEPT ![r] = [inserting EXCEPT !.deletes = {x.id}]]
      \/ ~job[r].force /\ \E x \in found :
           job' = [job EXCEPT ![r].pc = "upsert",
                              ![r].ids = Put(Nothing, DatabaseName, x.id)]
  BY DEF UpsertDatabase
<1>10. CASE found = {} /\ job' = [job EXCEPT ![r] = inserting]
  <2> HIDE DEF ids, row, new
  <2>1. inserting \in JobType /\ inserting.pc = "upsert" /\ inserting.ids = ids
        /\ inserting.inserts = {row} /\ inserting.deletes = {}
        /\ DOMAIN inserting.updates = {}
    BY <1>1, <1>3, <1>8 DEF JobType, JobPcs, SavePcs
  <2>2. Bare(inserting)
    BY <2>1 DEF Bare
  <2>3. JobsInv' /\ job'[r] = inserting /\ \A q \in Requests \ {r} : job'[q] = job[q]
    <3> HIDE DEF inserting
    <3> QED
      BY <1>6, <1>10, <2>1, <2>2, JobReplaced
  <2>4. SameCrawl(r)
    BY <1>1, <2>3 DEF SameCrawl, JobType
  <2> HIDE DEF inserting
  <2>5. Begun(r)
    BY <1>8, <1>10, <2>1, <2>3 DEF Begun, row, new
  <2> QED
    BY <1>1, <1>5, <1>8, <2>1, <2>3, <2>4, <2>5
<1>11. CASE job[r].force /\ \E x \in found :
              job' = [job EXCEPT ![r] = [inserting EXCEPT !.deletes = {x.id}]]
  <2>0. PICK x \in found :
          job' = [job EXCEPT ![r] = [inserting EXCEPT !.deletes = {x.id}]]
    BY <1>11
  <2> DEFINE j == [inserting EXCEPT !.deletes = {x.id}]
  <2> HIDE DEF ids, row, new
  <2>1. j \in JobType /\ j.pc = "upsert" /\ j.ids = ids
        /\ j.inserts = {row} /\ j.deletes = {x.id} /\ DOMAIN j.updates = {}
    BY <1>1, <1>3, <1>7, <1>8 DEF JobType, JobPcs, SavePcs
  <2>2. Bare(j)
    BY <2>1 DEF Bare
  <2>3. JobsInv' /\ job'[r] = j /\ \A q \in Requests \ {r} : job'[q] = job[q]
    <3> HIDE DEF j
    <3> QED
      BY <1>6, <2>0, <2>1, <2>2, JobReplaced DEF j
  <2>4. SameCrawl(r)
    BY <1>1, <2>3 DEF SameCrawl, JobType
  <2> HIDE DEF j
  <2>5. Begun(r)
    BY <1>8, <1>11, <2>1, <2>3 DEF Begun, row, new
  <2> QED
    BY <1>1, <1>5, <1>8, <2>1, <2>3, <2>4, <2>5
<1>12. CASE ~job[r].force /\ \E x \in found :
              job' = [job EXCEPT ![r].pc = "upsert",
                                 ![r].ids = Put(Nothing, DatabaseName, x.id)]
  <2>0. PICK x \in found :
          job' = [job EXCEPT ![r].pc = "upsert",
                             ![r].ids = Put(Nothing, DatabaseName, x.id)]
    BY <1>12
  <2> DEFINE own == Put(Nothing, DatabaseName, x.id)
             j == [job[r] EXCEPT !.pc = "upsert", !.ids = own]
  <2>6. own \in Partial(Objects, RowId) /\ DOMAIN own = {DatabaseName}
        /\ own[DatabaseName] = x.id
    BY <1>4, <1>7
  <2> HIDE DEF own
  <2>7. job' = [job EXCEPT ![r] = j]
    BY <2>0 DEF JobsInv, own
  <2>1. j \in JobType /\ j.pc = "upsert" /\ j.ids = own
        /\ j.inserts = {} /\ j.deletes = {} /\ DOMAIN j.updates = {}
    BY <1>1, <2>6 DEF JobType, JobPcs, SavePcs
  <2>2. Bare(j)
    BY <2>1 DEF Bare
  <2>3. JobsInv' /\ job'[r] = j /\ \A q \in Requests \ {r} : job'[q] = job[q]
    <3> HIDE DEF j
    <3> QED
      BY <1>6, <2>7, <2>1, <2>2, JobReplaced
  <2>4. SameCrawl(r)
    BY <1>1, <2>3 DEF SameCrawl, JobType
  <2> HIDE DEF j
  <2>5. Begun(r)
    BY <1>12, <2>1, <2>3, <2>6 DEF Begun
  <2> QED
    BY <1>1, <1>5, <2>1, <2>3, <2>4, <2>5, <2>6
<1> HIDE DEF found, inserting
<1> QED
  BY <1>9, <1>10, <1>11, <1>12

(* One object is inserted under its parent, or found there.                 *)
Upserted(r, o) ==
  LET ids == job[r].ids
      new == <<r, o>>
      facts == FactsOf(r, o)
  IN \/ /\ Match(r, o) = {}
        /\ job'[r].ids = Put(ids, o, new)
        /\ job'[r].inserts = job[r].inserts \union
             {NewRow(r, o, ids[Parent[o]], ids[DatabaseName], facts)}
        /\ job'[r].updates = job[r].updates
     \/ \E x \in Match(r, o) :
        /\ job'[r].ids = Put(ids, o, x.id)
        /\ job'[r].inserts = job[r].inserts
        /\ job'[r].updates = IF x.facts = facts THEN job[r].updates
                             ELSE Put(job[r].updates, x.id, facts)

LEMMA PendingIs ==
  ASSUME JobsInv, NEW r \in Requests, NEW o \in Pending(r)
  PROVE  /\ o \in Objects /\ o # DatabaseName
         /\ o \notin DOMAIN job[r].ids /\ Parent[o] \in DOMAIN job[r].ids
         /\ o \in Schemas \union Tables \union Columns
         /\ o \in Columns => o \in DOMAIN job[r].columns
         /\ o \in Tables => o \in job[r].tables
<1>1. /\ job[r].schemas \subseteq Schemas /\ job[r].tables \subseteq Tables
      /\ job[r].columns \in Partial(Columns, Nat)
  BY DEF JobsInv, JobType
<1>2. DOMAIN job[r].columns \in SUBSET Columns
  BY <1>1, PartialParts
<1>3. \/ o \in Waiting(r, job[r].schemas) \/ o \in Waiting(r, job[r].tables)
      \/ o \in Waiting(r, DOMAIN job[r].columns)
  BY DEF Pending
<1>4. /\ o \in Schemas \union Tables \union Columns
      /\ o \notin DOMAIN job[r].ids /\ Parent[o] \in DOMAIN job[r].ids
      /\ \/ o \in Schemas \/ o \in job[r].tables \/ o \in DOMAIN job[r].columns
  BY <1>1, <1>2, <1>3 DEF Waiting
<1> QED
  BY <1>1, <1>2, <1>4, ObjectFacts, StoreAssumption

LEMMA UpsertStep ==
  ASSUME JobsInv, store \in SUBSET Row, NEW r \in Requests, Upsert(r),
         DatabaseName \in DOMAIN job[r].ids
  PROVE  /\ JobsInv'
         /\ job[r].pc = "upsert" /\ job'[r].pc = "upsert"
         /\ SameCrawl(r) /\ job'[r].deletes = job[r].deletes
         /\ \E o \in Pending(r) : Upserted(r, o)
         /\ \A q \in Requests \ {r} : job'[q] = job[q]
         /\ UNCHANGED <<store, source, edits, disturbed, overlapped>>
<1> DEFINE o == CHOOSE p \in Pending(r) : TRUE
           ids == job[r].ids
           new == <<r, o>>
           facts == FactsOf(r, o)
           row == NewRow(r, o, ids[Parent[o]], ids[DatabaseName], facts)
<1>1. o \in Pending(r)
  BY DEF Upsert
<1>2. /\ job[r].pc = "upsert"
      /\ UNCHANGED <<store, source, edits, disturbed, overlapped>>
      /\ \/ /\ Match(r, o) = {}
            /\ job' = [job EXCEPT ![r].ids = Put(@, o, new),
                                  ![r].inserts = @ \union {row}]
         \/ \E x \in Match(r, o) :
              job' = [job EXCEPT
                ![r].ids = Put(@, o, x.id),
                ![r].updates = IF x.facts = facts THEN @ ELSE Put(@, x.id, facts)]
  BY DEF Upsert
<1> HIDE DEF o
<1>3. /\ o \in Objects /\ o # DatabaseName
      /\ o \notin DOMAIN job[r].ids /\ Parent[o] \in DOMAIN job[r].ids
      /\ o \in Columns => o \in DOMAIN job[r].columns
  BY <1>1, PendingIs
<1>4. facts \in Facts
  BY <1>3, FactsOfType
<1>5. /\ job[r] \in JobType /\ ids \in Partial(Objects, RowId)
      /\ job[r].updates \in Partial(RowId, Facts) /\ job[r].inserts \in SUBSET Row
  BY DEF JobsInv, JobType
<1>6. \A p \in DOMAIN ids : ids[p] \in RowId
  BY <1>5, PartialParts
<1>7. new \in RowId
  BY <1>3, RowIdIs
<1>8. row \in Row
  BY <1>3, <1>4, <1>6, NewRowType
<1>9. \A x \in Match(r, o) : x.id \in RowId
  BY <1>5 DEF Match, RowsNamed, ChildrenOf, View, WithoutTrees, Row
<1>10. disturbed' \in [Requests -> BOOLEAN] /\ overlapped' \in BOOLEAN
  BY <1>2 DEF JobsInv
<1> HIDE DEF facts, row, new
<1>11. CASE /\ Match(r, o) = {}
            /\ job' = [job EXCEPT ![r].ids = Put(@, o, new),
                                  ![r].inserts = @ \union {row}]
  <2> DEFINE own == Put(ids, o, new)
             j == [job[r] EXCEPT !.ids = own, !.inserts = @ \union {row}]
  <2>1. own \in Partial(Objects, RowId)
    BY <1>3, <1>5, <1>7, PutType
  <2> HIDE DEF own
  <2>2. job' = [job EXCEPT ![r] = j]
    BY <1>11 DEF JobsInv, own
  <2>3. /\ j \in JobType /\ j.pc = "upsert" /\ j.ids = own
        /\ j.inserts = job[r].inserts \union {row} /\ j.updates = job[r].updates
        /\ j.deletes = job[r].deletes
    BY <1>2, <1>5, <1>8, <2>1 DEF JobType
  <2>4. Bare(j)
    BY <2>3 DEF Bare
  <2>5. JobsInv' /\ job'[r] = j /\ \A q \in Requests \ {r} : job'[q] = job[q]
    <3> HIDE DEF j
    <3> QED
      BY <1>10, <2>2, <2>3, <2>4, JobReplaced
  <2>6. SameCrawl(r)
    BY <1>5, <2>5 DEF SameCrawl, JobType
  <2> HIDE DEF j
  <2>7. Upserted(r, o)
    BY <1>11, <2>3, <2>5 DEF Upserted, own, row, new, facts
  <2> QED
    BY <1>1, <1>2, <2>3, <2>5, <2>6, <2>7
<1>12. CASE \E x \in Match(r, o) :
              job' = [job EXCEPT
                ![r].ids = Put(@, o, x.id),
                ![r].updates = IF x.facts = facts THEN @ ELSE Put(@, x.id, facts)]
  <2>1. PICK x \in Match(r, o) :
          job' = [job EXCEPT
            ![r].ids = Put(@, o, x.id),
            ![r].updates = IF x.facts = facts THEN @ ELSE Put(@, x.id, facts)]
    BY <1>12
  <2> DEFINE own == Put(ids, o, x.id)
             updates == IF x.facts = facts THEN job[r].updates
                        ELSE Put(job[r].updates, x.id, facts)
             j == [job[r] EXCEPT !.ids = own, !.updates = updates]
  <2>2. own \in Partial(Objects, RowId)
    BY <1>3, <1>5, <1>9, PutType
  <2>3. Put(job[r].updates, x.id, facts) \in Partial(RowId, Facts)
    BY <1>4, <1>5, <1>9, PutType
  <2>4. /\ updates \in Partial(RowId, Facts)
        /\ updates = IF x.facts = facts THEN job[r].updates
                     ELSE Put(job[r].updates, x.id, facts)
    BY <1>5, <2>3
  <2>5. job' = [job EXCEPT ![r] = j]
    BY <2>1 DEF JobsInv
  <2> HIDE DEF own, updates
  <2>6. /\ j \in JobType /\ j.pc = "upsert" /\ j.ids = own
        /\ j.inserts = job[r].inserts /\ j.updates = updates
        /\ j.deletes = job[r].deletes
    BY <1>2, <1>5, <2>2, <2>4 DEF JobType
  <2>7. Bare(j)
    BY <2>6 DEF Bare
  <2>8. JobsInv' /\ job'[r] = j /\ \A q \in Requests \ {r} : job'[q] = job[q]
    <3> HIDE DEF j
    <3> QED
      BY <1>10, <2>5, <2>6, <2>7, JobReplaced
  <2>9. SameCrawl(r)
    BY <1>5, <2>8 DEF SameCrawl, JobType
  <2> HIDE DEF j
  <2>10. Upserted(r, o)
    BY <2>4, <2>6, <2>8 DEF Upserted, own, facts
  <2> QED
    BY <1>1, <1>2, <2>6, <2>8, <2>9, <2>10
<1> QED
  BY <1>2, <1>11, <1>12

----------------------------------------------------------------------------
(* How the store moves: some rows are kept, in their place, with the facts  *)
(* that upd has for them and without losing a description; some are new.    *)

Same(x, y, upd) ==
  /\ y.id = x.id /\ y.parent = x.parent /\ y.root = x.root
  /\ y.facts = IF x.id \in DOMAIN upd THEN upd[x.id] ELSE x.facts
  /\ x.text # NoText => y.text # NoText

UniqueIds == \A x, y \in store : x.id = y.id => x = y

RowsMove(kept, new, upd) ==
  /\ \A y \in store' : y \in new \/ \E x \in kept : Same(x, y, upd)
  /\ \A x \in kept : \E y \in store' : Same(x, y, upd)
  /\ new \subseteq store'
  /\ \A y, z \in store' \ new : y.id = z.id => y = z

LEMMA CommitMoves ==
  ASSUME JobsInv, store \in SUBSET Row, UniqueIds, NEW r \in Requests, Commit(r)
  PROVE  /\ RowsMove(WithoutTrees(store, job[r].deletes), job[r].inserts,
                     job[r].updates)
         /\ store' \in SUBSET Row
<1> DEFINE kept == WithoutTrees(store, job[r].deletes)
           upd == job[r].updates
<1>1. store' = {Updated(r, x) : x \in kept} \union job[r].inserts
  BY DEF Commit
<1>2. job[r].inserts \in SUBSET Row /\ upd \in Partial(RowId, Facts)
  BY DEF JobsInv, JobType
<1>3. \A i \in DOMAIN upd : upd[i] \in Facts
  BY <1>2, PartialParts
<1>4. kept \in SUBSET Row
  BY DEF WithoutTrees
<1>5. ASSUME NEW x \in kept
      PROVE  Updated(r, x) \in Row /\ Same(x, Updated(r, x), upd)
  BY <1>3, <1>4 DEF Updated, Same, Row
<1>10. \A x \in kept : x \in store
  BY DEF WithoutTrees
<1> HIDE DEF kept, upd
<1>6. \A y \in store' : y \in job[r].inserts \/ \E x \in kept : y = Updated(r, x)
  BY <1>1
<1>7. \A x \in kept : Updated(r, x) \in store'
  BY <1>1
<1>11. ASSUME NEW y \in store' \ job[r].inserts, NEW z \in store' \ job[r].inserts,
              y.id = z.id
       PROVE  y = z
  <2>1. PICK v \in kept, w \in kept : y = Updated(r, v) /\ z = Updated(r, w)
    BY <1>6
  <2>2. v.id = w.id
    BY <1>5, <1>11, <2>1 DEF Same
  <2> QED
    BY <1>10, <2>1, <2>2 DEF UniqueIds
<1>8. RowsMove(kept, job[r].inserts, upd)
  BY <1>1, <1>5, <1>6, <1>7, <1>11 DEF RowsMove
<1>9. store' \in SUBSET Row
  BY <1>2, <1>5, <1>6
<1> QED
  BY <1>8, <1>9 DEF kept, upd

(* What describing a table does to the store and to its run.                *)
DescribedIn(g, t) ==
  /\ run[g].pc = "generate" /\ t \in run[g].todo
  /\ run' = [run EXCEPT ![g].todo = @ \ {t}]
  /\ RowsMove(store, {}, Nothing)
  /\ \A y \in store' : y.id \in IdsOf(RowsOf(g, t)) =>
       \/ y.text # NoText
       \/ \E x \in RowsOf(g, t) : x.id = y.id /\ x.text # NoText

LEMMA DescribeMoves ==
  ASSUME RunsInv, store \in SUBSET Row, UniqueIds,
         NEW g \in Runs, NEW t, DescribeTable(g, t)
  PROVE  DescribedIn(g, t) /\ store' \in SUBSET Row
<1>1. PICK text \in [IdsOf(RowsOf(g, t)) -> Texts] :
        store' = Described(ToWrite(g, t, text), text)
  BY DEF DescribeTable
<1> DEFINE rows == ToWrite(g, t, text)
           ids == IdsOf(rows)
           new(x) == IF x.id \in ids THEN [x EXCEPT !.text = text[x.id]] ELSE x
<1>2. store' = {new(x) : x \in store}
  BY <1>1 DEF Described
<1>3. ids \subseteq IdsOf(RowsOf(g, t))
  BY DEF ToWrite, IdsOf
<1>4. \A i \in ids : text[i] \in Texts
  BY <1>3
<1>5. NoText \notin Texts
  BY StoreAssumption
<1>6. DOMAIN Nothing = {}
  BY DEF Nothing
<1>7. ASSUME NEW x \in store
      PROVE  /\ new(x) \in Row /\ Same(x, new(x), Nothing)
             /\ x.id \in ids => new(x).text # NoText
  <2> HIDE DEF ids
  <2> QED
    BY <1>4, <1>5, <1>6 DEF Same, Row
<1>8. RowsMove(store, {}, Nothing) /\ store' \in SUBSET Row
  <2> HIDE DEF new
  <2>1. ASSUME NEW y \in store', NEW z \in store', y.id = z.id PROVE y = z
    <3>1. PICK v \in store, w \in store : y = new(v) /\ z = new(w)
      BY <1>2
    <3>2. v.id = w.id
      BY <1>7, <2>1, <3>1 DEF Same
    <3> QED
      BY <3>1, <3>2 DEF UniqueIds
  <2> QED
    BY <1>2, <1>7, <2>1 DEF RowsMove
<1>9. ASSUME NEW y \in store', y.id \in IdsOf(RowsOf(g, t)), y.text = NoText
      PROVE  \E x \in RowsOf(g, t) : x.id = y.id /\ x.text # NoText
  <2>1. PICK z \in store : y = new(z)
    BY <1>2
  <2>2. y.id \notin ids
    <3> HIDE DEF ids, new
    <3>1. y.id = z.id
      BY <1>7, <2>1 DEF Same
    <3> QED
      BY <1>7, <1>9, <2>1, <3>1
  <2>3. PICK x \in RowsOf(g, t) : x.id = y.id
    BY <1>9 DEF IdsOf
  <2>4. x \notin rows
    BY <2>2, <2>3 DEF IdsOf
  <2>5. x.text = text[x.id]
    BY <2>4 DEF ToWrite
  <2>6. text[x.id] \in Texts
    BY <1>9, <2>3
  <2> QED
    BY <1>5, <2>3, <2>5, <2>6
<1> QED
  BY <1>8, <1>9 DEF DescribedIn, DescribeTable

(* A step of description generation that leaves the store alone.            *)
LEMMA GenerationType ==
  ASSUME RunsInv, store \in SUBSET Row, UniqueIds, GenerationNext,
         \A x \in RowsNamed(store, Tables) : x.parent \in RowId
  PROVE  RunsInv' /\ store' \in SUBSET Row
<1>1. PICK g \in Runs : Load(g) \/ NoDatabase(g) \/ Generate(g) \/ Crash(g)
  BY DEF GenerationNext
<1>2. run \in [Runs -> RunType] /\ run[g] \in RunType
      /\ \A h \in Runs : run[h].todo \subseteq IdsOf(run[h].rows)
  BY DEF RunsInv
<1>3. ASSUME NEW x \in RunType, x.todo \subseteq IdsOf(x.rows),
             run' = [run EXCEPT ![g] = x]
      PROVE  RunsInv'
  BY <1>2, <1>3 DEF RunsInv
<1>4. NewRun \in RunType /\ NewRun.todo = {}
  BY DEF NewRun, RunType, RunPcs
<1>5. CASE Load(g)
  <2>1. PICK d \in RowsNamed(store, {DatabaseName}), names \in Selections :
          LET tables == RowsNamed({x \in store : x.root = d.id}, names)
              columns == {x \in store : x.parent \in IdsOf(tables)}
          IN run' = [run EXCEPT ![g] =
               [pc |-> "generate", todo |-> IdsOf(tables),
                rows |-> {Loaded(x) : x \in tables \union columns}]]
    BY <1>5 DEF Load
  <2> DEFINE tables == RowsNamed({x \in store : x.root = d.id}, names)
             columns == {x \in store : x.parent \in IdsOf(tables)}
             rows == {Loaded(x) : x \in tables \union columns}
             new == [pc |-> "generate", todo |-> IdsOf(tables), rows |-> rows]
  <2>2. tables \subseteq store /\ columns \subseteq store
    BY DEF RowsNamed
  <2>9. tables \subseteq RowsNamed(store, Tables)
    BY GenerationAssumption DEF RowsNamed
  <2>10. \A x \in tables : x.parent \in RowId /\ x.id \in RowId
    BY <2>2, <2>9 DEF Row
  <2>11. \A x \in columns : x.parent \in RowId
    <3> HIDE DEF tables
    <3> QED
      BY <2>10 DEF IdsOf
  <2>3. \A x \in tables \union columns : Loaded(x) \in LoadedRow /\ Loaded(x).id = x.id
    <3> HIDE DEF tables, columns
    <3> QED
      BY <2>2, <2>10, <2>11 DEF Loaded, LoadedRow, Row
  <2>4. rows \in SUBSET LoadedRow
    <3> HIDE DEF tables, columns
    <3> QED
      BY <2>2, <2>3
  <2>5. IdsOf(tables) \subseteq IdsOf(rows)
    <3>1. ASSUME NEW x \in tables PROVE x.id \in IdsOf(rows)
      <4>1. Loaded(x) \in rows
        OBVIOUS
      <4> HIDE DEF rows, tables, columns
      <4> QED
        BY <2>3, <4>1 DEF IdsOf
    <3> QED
      BY <3>1 DEF IdsOf
  <2>6. IdsOf(tables) \in SUBSET RowId
    BY <2>2 DEF IdsOf, Row
  <2>7. run' = [run EXCEPT ![g] = new]
    BY <2>1
  <2> HIDE DEF tables, rows
  <2>8. new \in RunType /\ new.todo \subseteq IdsOf(new.rows)
    BY <2>4, <2>5, <2>6 DEF RunType, RunPcs
  <2> HIDE DEF new
  <2> QED
    BY <1>3, <1>5, <2>7, <2>8 DEF Load
<1>6. CASE NoDatabase(g)
  <2> DEFINE new == [run[g] EXCEPT !.pc = "not_found"]
  <2>1. new \in RunType /\ new.todo \subseteq IdsOf(new.rows)
    BY <1>2 DEF RunType, RunPcs
  <2>2. run' = [run EXCEPT ![g] = new]
    BY <1>2, <1>6 DEF NoDatabase
  <2> HIDE DEF new
  <2> QED
    BY <1>3, <1>6, <2>1, <2>2 DEF NoDatabase
<1>7. CASE Finish(g)
  <2> DEFINE new == [run[g] EXCEPT !.pc = "success"]
  <2>1. new \in RunType /\ new.todo \subseteq IdsOf(new.rows)
    BY <1>2 DEF RunType, RunPcs
  <2>2. run' = [run EXCEPT ![g] = new]
    BY <1>2, <1>7 DEF Finish
  <2> HIDE DEF new
  <2> QED
    BY <1>3, <1>7, <2>1, <2>2 DEF Finish
<1>8. CASE \E t \in run[g].todo : DescribeTable(g, t)
  <2>1. PICK t \in run[g].todo : DescribeTable(g, t)
    BY <1>8
  <2> DEFINE new == [run[g] EXCEPT !.todo = @ \ {t}]
  <2>2. new \in RunType /\ new.rows = run[g].rows /\ new.todo \subseteq run[g].todo
    BY <1>2 DEF RunType, RunPcs
  <2>4. new.todo \subseteq IdsOf(new.rows)
    BY <1>2, <2>2
  <2>3. run' = [run EXCEPT ![g] = new]
    BY <1>2, <2>1 DEF DescribeTable
  <2> HIDE DEF new
  <2> QED
    BY <1>3, <2>1, <2>2, <2>3, <2>4, DescribeMoves
<1>9. CASE \E t \in run[g].todo : CommitFails(g, t)
  <2> DEFINE new == [NewRun EXCEPT !.pc = "aborted"]
  <2>1. new \in RunType /\ new.todo \subseteq IdsOf(new.rows)
    BY <1>4 DEF RunType, RunPcs
  <2>2. run' = [run EXCEPT ![g] = new] /\ UNCHANGED store
    BY <1>9 DEF CommitFails, Rollback
  <2> HIDE DEF new
  <2> QED
    BY <1>3, <2>1, <2>2
<1>10. CASE Crash(g)
  <2> DEFINE new == [NewRun EXCEPT !.pc = "crashed"]
  <2>1. new \in RunType /\ new.todo \subseteq IdsOf(new.rows)
    BY <1>4 DEF RunType, RunPcs
  <2>2. run' = [run EXCEPT ![g] = new] /\ UNCHANGED store
    BY <1>10 DEF Crash
  <2> HIDE DEF new
  <2> QED
    BY <1>3, <2>1, <2>2
<1> QED
  BY <1>1, <1>5, <1>6, <1>7, <1>8, <1>9, <1>10 DEF Generate

=============================================================================
