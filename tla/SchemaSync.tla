----------------------------- MODULE SchemaSync -----------------------------
(***************************************************************************)
(* Keeping the vector store in step with the described columns:            *)
(* SchemaSyncService, SchemaEmbeddingService and QdrantService             *)
(* (services/pipelines/offline/embedding, services/vector_store) behind    *)
(* POST /schema/sync, /schema/sync/incremental and /schema/sync/cleanup,   *)
(* while schema indexing and description generation edit the same rows.    *)
(*                                                                         *)
(* Each request reads the metadata database once, in one statement, then   *)
(* awaits the embedding API, Qdrant and at last the commit of the new      *)
(* checksums: every await is an action.  Nothing locks the rows or the     *)
(* points meanwhile, and nothing makes the two stores change together.     *)
(*                                                                         *)
(* A column's contents are version numbers: covered, what the checksum     *)
(* reads (name, type, samples, descriptions), and rest, what its document  *)
(* holds besides (nullability, distinct count, the table's summary).       *)
(* uuid5 of the column's path is taken to be injective, and so is MD5, so  *)
(* a column of Columns also stands for its vector id, in Qdrant's order.   *)
(***************************************************************************)
EXTENDS Integers, FiniteSets, FiniteSetsExt, Functions

CONSTANTS
  Columns,       \* the column paths that may ever exist, in vector id order
  Workers,       \* sync requests that may be in progress at once
  ClientStates,  \* whether AsyncQdrantClient(...) gives a client
  TextsRepeat,   \* whether a content may return to an earlier version
  ChunkSize,     \* upsert_threshold
  PageSize,      \* limit of a scroll
  Absent,        \* no row; no point
  MaxEdits       \* bound: edits of the metadata database

ASSUME SyncAssumption ==
  /\ Columns \subseteq Nat /\ IsFiniteSet(Columns)
  /\ ClientStates \subseteq BOOLEAN /\ ClientStates # {}
  /\ TextsRepeat \in BOOLEAN
  /\ ChunkSize \in Nat \ {0} /\ PageSize \in Nat \ {0} /\ MaxEdits \in Nat

VARIABLES
  rows,     \* the metadata database: the row of each column
  points,   \* Qdrant: the document embedded for each column
  job,      \* the sync request each worker is serving
  edits,    \* edits made so far; numbers the versions and the rows
  undisturbed, \* history: since the worker's request read the metadata,
               \* nobody edited and no other request wrote
  suspect      \* history: the columns whose checksum may vouch for a vector
               \* that is not there, for one of three reasons: see Overlap,
               \* TextReturns

vars == <<rows, points, job, edits, undisturbed, suspect>>

----------------------------------------------------------------------------

Unset == 0        \* no description yet; no checksum yet
EndOfScroll == -1

Version == 0..MaxEdits
Row == [id : Version, covered : Version, rest : Version, sum : Version]
Document == [covered : Version, rest : Version]

ASSUME AbsentAssumption == Absent \notin Row \union Document

Present == {c \in Columns : rows[c] # Absent}

(* The rows the sync selects: column_description is not None.               *)
Described == {c \in Present : rows[c].covered # Unset}
Stored == {c \in Columns : points[c] # Absent}

DocumentOf(c) == [covered |-> rows[c].covered, rest |-> rows[c].rest]

(* The checksum tells apart contents that differ in what it covers.         *)
Checksum(document) == document.covered

Job == [kind : {"none", "full", "incremental", "cleanup"},
        pc : {"idle", "flush", "commit", "scroll", "delete"},
        reply : {"none", "ok", "failed"},
        client : BOOLEAN,
        docs : UNION {[S -> Document] : S \in SUBSET Columns},
        sums : UNION {[S -> [id : Version, sum : Version]] : S \in SUBSET Columns},
        valid : SUBSET Columns,
        orphans : SUBSET Columns,
        offset : Columns \union {0, EndOfScroll}]

NoDocs == [c \in {} |-> Unset]

NewJob == [kind |-> "none", pc |-> "idle", reply |-> "none", client |-> TRUE,
           docs |-> NoDocs, sums |-> NoDocs, valid |-> {}, orphans |-> {},
           offset |-> 0]

Init ==
  /\ rows = [c \in Columns |-> Absent]
  /\ points = [c \in Columns |-> Absent]
  /\ job = [w \in Workers |-> NewJob]
  /\ edits = 0
  /\ undisturbed = [w \in Workers |-> FALSE]
  /\ suspect = {}

(* Its step disturbs the requests of the other workers.                     *)
Disturb(w) == undisturbed' = [v \in Workers |-> v = w /\ undisturbed[v]]

(* The request of w ends and its session closes.                            *)
Finish(w, reply) ==
  job' = [job EXCEPT ![w] = [NewJob EXCEPT !.kind = job[w].kind,
                                           !.client = job[w].client,
                                           !.reply = reply]]

(* The columns whose vector or checksum a request is still to write, or     *)
(* whose vector it may delete.                                              *)
InHand(j) ==
  DOMAIN j.docs \union DOMAIN j.sums \union
    (IF j.pc \in {"scroll", "delete"} THEN Columns \ j.valid ELSE {})

(* The request w has read the metadata, after which nothing tells it what   *)
(* another does.  A column two requests have in hand is suspect, and so is  *)
(* one in the hands of a request without a client, whose upserts are not    *)
(* stored.                                                                  *)
Overlap(w) ==
  suspect' = suspect \union
    {c \in InHand(job'[w]) :
       ~job'[w].client \/ \E v \in Workers \ {w} : c \in InHand(job[v])}

(* A full sync that nobody disturbed clears what nobody else has in hand.   *)
Clear(w) ==
  suspect' =
    IF undisturbed[w] /\ job[w].client /\ job[w].kind = "full"
    THEN suspect \intersect UNION {InHand(job[v]) : v \in Workers \ {w}}
    ELSE suspect

----------------------------------------------------------------------------
(* The rest of the offline pipeline, as the sync meets it.                  *)

(* A text returns to the wording its checksum was made from; the vector may *)
(* have been overwritten in between, by a sync that then failed.            *)
TextReturns(c) ==
  /\ rows[c] # Absent /\ rows[c].covered # rows[c].sum
  /\ rows'[c] # Absent /\ rows'[c].sum # Unset /\ rows'[c].covered = rows'[c].sum

Edit ==
  /\ edits < MaxEdits
  /\ edits' = edits + 1
  /\ undisturbed' = [w \in Workers |-> FALSE]
  /\ suspect' = suspect \union {c \in Columns : TextReturns(c)}
  /\ UNCHANGED <<points, job>>

NextVersions == IF TextsRepeat THEN 1..(edits + 1) ELSE {edits + 1}

(* Description generation commits one table: its summary and a description  *)
(* for each of its columns.                                                 *)
Describe ==
  /\ Present # {}
  /\ \E v \in NextVersions :
       rows' = [c \in Columns |->
                  IF c \in Present
                  THEN [rows[c] EXCEPT !.covered = v, !.rest = edits + 1]
                  ELSE Absent]
  /\ Edit

(* Indexing commits a column: a new row, or new metadata in the old row,    *)
(* whose checksum it leaves alone.                                          *)
Reindex(c) ==
  /\ \/ /\ c \notin Present
        /\ rows' = [rows EXCEPT ![c] = [id |-> edits + 1, covered |-> Unset,
                                        rest |-> edits + 1, sum |-> Unset]]
     \/ /\ c \in Described
        /\ \E v \in NextVersions : rows' = [rows EXCEPT ![c].covered = v]
     \/ /\ c \in Present
        /\ rows' = [rows EXCEPT ![c].rest = edits + 1]
  /\ Edit

(* force_refresh deletes everything; the columns still found in the source  *)
(* get new rows, without descriptions and checksums.                        *)
ForceRefresh(found) ==
  /\ rows' = [c \in Columns |->
                IF c \in found
                THEN [id |-> edits + 1, covered |-> Unset,
                      rest |-> edits + 1, sum |-> Unset]
                ELSE Absent]
  /\ Edit

----------------------------------------------------------------------------
(* Full and incremental sync.                                               *)

ChangedIfNeverSynced(c) == rows[c].sum = Unset
Changed(c) == rows[c].sum # Checksum(DocumentOf(c))

(* The session has read the rows and holds the documents to embed and the   *)
(* checksums to write; it writes only those that change, each by row id.    *)
StartSync(w, kind, client, selected) ==
  job' = [job EXCEPT ![w] =
    IF selected = {}
    THEN [NewJob EXCEPT !.kind = kind, !.client = client, !.reply = "ok"]
    ELSE [NewJob EXCEPT
            !.kind = kind, !.client = client, !.pc = "flush",
            !.docs = [c \in selected |-> DocumentOf(c)],
            !.sums = [c \in {d \in selected : Changed(d)} |->
                        [id |-> rows[c].id, sum |-> Checksum(DocumentOf(c))]]]]

ReadFullSkipsUnchanged(w, client) ==
  /\ job[w].pc = "idle"
  /\ StartSync(w, "full", client, {c \in Described : Changed(c)})
  /\ undisturbed' = [undisturbed EXCEPT ![w] = TRUE]
  /\ Overlap(w)
  /\ UNCHANGED <<rows, points, edits>>

ReadFull(w, client) ==
  /\ job[w].pc = "idle"
  /\ StartSync(w, "full", client, Described)
  /\ undisturbed' = [undisturbed EXCEPT ![w] = TRUE]
  /\ Overlap(w)
  /\ UNCHANGED <<rows, points, edits>>

ReadIncremental(w, client) ==
  /\ job[w].pc = "idle"
  /\ StartSync(w, "incremental", client, {c \in Described : Changed(c)})
  /\ undisturbed' = [undisturbed EXCEPT ![w] = TRUE]
  /\ Overlap(w)
  /\ UNCHANGED <<rows, points, edits>>

UpsertedIfNew(docs) ==
  [c \in Columns |-> IF c \in DOMAIN docs /\ points[c] = Absent THEN docs[c]
                     ELSE points[c]]

Upserted(docs) == [c \in Columns |-> IF c \in DOMAIN docs THEN docs[c]
                                     ELSE points[c]]

LessThanAChunk(left) == Cardinality(left) < ChunkSize
Drained(left) == left = {}

(* A chunk has been embedded and upserted; the order of the columns is the  *)
(* database's.  Without a client upsert_vectors logs and returns.           *)
Flush(w) ==
  /\ job[w].pc = "flush"
  /\ \E chunk \in SUBSET DOMAIN job[w].docs :
       LET left == DOMAIN job[w].docs \ chunk
       IN /\ Cardinality(chunk) = Min({ChunkSize, Cardinality(DOMAIN job[w].docs)})
          /\ points' = IF job[w].client
                       THEN Upserted(Restrict(job[w].docs, chunk)) ELSE points
          /\ job' = [job EXCEPT
               ![w].docs = Restrict(job[w].docs, left),
               ![w].pc = IF Drained(left) THEN "commit" ELSE "flush"]
  /\ Disturb(w)
  /\ UNCHANGED <<rows, edits, suspect>>

(* The columns whose row is still the one the session read.                 *)
Kept(w) == {c \in DOMAIN job[w].sums \intersect Present :
              rows[c].id = job[w].sums[c].id}

(* asyncpg counts the rows of a single UPDATE only: a row missing from a    *)
(* batch of several goes unnoticed.                                         *)
Commit(w) ==
  /\ job[w].pc = "commit"
  /\ Cardinality(DOMAIN job[w].sums) = 1 => Kept(w) # {}
  /\ rows' = [c \in Columns |->
                IF c \in Kept(w)
                THEN [rows[c] EXCEPT !.sum = job[w].sums[c].sum] ELSE rows[c]]
  /\ Finish(w, "ok")
  /\ Disturb(w)
  /\ Clear(w)
  /\ UNCHANGED <<points, edits>>

(* StaleDataError: the row of an UPDATE is gone.                            *)
CommitFindsRowGone(w) ==
  /\ job[w].pc = "commit"
  /\ Kept(w) # DOMAIN job[w].sums
  /\ Finish(w, "failed")
  /\ UNCHANGED <<rows, points, edits, undisturbed, suspect>>

(* An await raised (embedding, the third try of an upsert, scroll, delete,  *)
(* commit), or the process died: the session never commits.  A chunk that   *)
(* was applied although its upsert raised is Flush before this.             *)
Abort(w) ==
  /\ job[w].pc # "idle"
  /\ Finish(w, "failed")
  /\ UNCHANGED <<rows, points, edits, undisturbed, suspect>>

----------------------------------------------------------------------------
(* Cleanup.                                                                 *)

(* "Column.column_description is not None" is Python's True, so the select  *)
(* keeps every row.                                                         *)
ReadCleanup(w, client) ==
  /\ job[w].pc = "idle"
  /\ job' = [job EXCEPT ![w] =
       [NewJob EXCEPT !.kind = "cleanup", !.client = client,
                      !.valid = IF client THEN Present ELSE {},
                      !.pc = IF client THEN "scroll" ELSE "idle",
                      !.reply = IF client THEN "none" ELSE "ok"]]
  /\ undisturbed' = [undisturbed EXCEPT ![w] = TRUE]
  /\ Overlap(w)
  /\ UNCHANGED <<rows, points, edits>>

PageFrom(offset) ==
  LET ahead == {c \in Stored : c >= offset}
  IN {c \in ahead : Cardinality({d \in ahead : d < c}) < PageSize}

NextOffsetIsLastRead(offset) ==
  IF {c \in Stored : c >= offset} = {} THEN EndOfScroll ELSE Max(PageFrom(offset))

NextOffset(offset) ==
  LET after == {c \in Stored : c >= offset} \ PageFrom(offset)
  IN IF after = {} THEN EndOfScroll ELSE Min(after)

TurnCleansOnePage(w, offset, orphans) ==
  IF orphans = {}
  THEN Finish(w, "ok")
  ELSE job' = [job EXCEPT ![w].offset = offset, ![w].orphans = orphans,
                          ![w].pc = "delete"]

TurnAlwaysDeletes(w, offset, orphans) ==
  job' = [job EXCEPT ![w].offset = offset, ![w].orphans = orphans,
                     ![w].pc = "delete"]

(* A page has been read, or its orphans have been deleted: what is next in  *)
(* the while loop.                                                          *)
Turn(w, offset, orphans) ==
  IF orphans = {} /\ offset = EndOfScroll
  THEN Finish(w, "ok")
  ELSE job' = [job EXCEPT ![w].offset = offset, ![w].orphans = orphans,
                          ![w].pc = IF orphans = {} THEN "scroll" ELSE "delete"]

Scroll(w) ==
  /\ job[w].pc = "scroll"
  /\ Turn(w, NextOffset(job[w].offset), PageFrom(job[w].offset) \ job[w].valid)
  /\ UNCHANGED <<rows, points, edits, undisturbed, suspect>>

DeleteOrphans(w) ==
  /\ job[w].pc = "delete"
  /\ points' = [c \in Columns |->
                  IF c \in job[w].orphans THEN Absent ELSE points[c]]
  /\ Turn(w, job[w].offset, {})
  /\ Disturb(w)
  /\ UNCHANGED <<rows, edits, suspect>>

----------------------------------------------------------------------------

Request(w, client) ==
  ReadFull(w, client) \/ ReadIncremental(w, client) \/ ReadCleanup(w, client)

Step(w) ==
  Flush(w) \/ Commit(w) \/ CommitFindsRowGone(w) \/ Scroll(w) \/ DeleteOrphans(w)

Offline == Describe \/ (\E c \in Columns : Reindex(c))
                    \/ (\E found \in SUBSET Columns : ForceRefresh(found))

Next ==
  \/ Offline
  \/ \E w \in Workers, client \in ClientStates : Request(w, client)
  \/ \E w \in Workers : Step(w) \/ Abort(w)

(* Every awaited call of a sync answers or raises: the clients have         *)
(* timeouts and the upserts three tries.  Nobody is obliged to call.        *)
Spec == Init /\ [][Next]_vars /\ \A w \in Workers : WF_vars(Step(w))

----------------------------------------------------------------------------
(* Properties.                                                              *)

(* The two stores and the requests have their types, and a request is never *)
(* about to embed or delete nothing, nor to delete a vector it counts among *)
(* the valid ones.                                                          *)
TypeOK ==
  /\ rows \in [Columns -> Row \union {Absent}]
  /\ points \in [Columns -> Document \union {Absent}]
  /\ edits \in Version
  /\ undisturbed \in [Workers -> BOOLEAN] /\ suspect \subseteq Columns
  /\ \A w \in Workers :
       /\ job[w] \in Job
       /\ job[w].pc = "flush" => DOMAIN job[w].docs # {}
       /\ job[w].pc = "delete" => job[w].orphans # {}
       /\ job[w].orphans \intersect job[w].valid = {}

(* A column whose checksum says it is synced has a vector made from the     *)
(* contents the checksum covers.  Incremental sync relies on it, for it     *)
(* never looks at such a column again (schema_sync_service.py:175); it has  *)
(* to survive failed upserts, crashes between the upsert and the commit,    *)
(* and rows deleted in mid-sync.  The code keeps it except for the columns  *)
(* it has exposed to one of three mishaps since an undisturbed full sync    *)
(* last wrote them: two requests had the column in hand at once, a request  *)
(* without a client had it, or its text returned to an earlier wording.     *)
SyncedColumnsAreStored ==
  \A c \in Described \ suspect :
    rows[c].sum = Checksum(DocumentOf(c)) =>
      points[c] # Absent /\ Checksum(points[c]) = rows[c].sum

(* The last request of w had a client and succeeded, and nothing got in its *)
(* way since.                                                               *)
Succeeded(w, kind) ==
  /\ job[w].pc = "idle" /\ job[w].kind = kind /\ job[w].reply = "ok"
  /\ job[w].client /\ undisturbed[w]

(* A full sync that nothing disturbs leaves the vector of every described   *)
(* column exactly as the metadata has it, and its checksum up to date,      *)
(* whatever failed syncs, crashes and races left behind: it is the repair   *)
(* (schema_sync_service.py:77-135).                                         *)
FullSyncRepairs ==
  \A w \in Workers : Succeeded(w, "full") =>
    \A c \in Described : /\ points[c] = DocumentOf(c)
                         /\ rows[c].sum = Checksum(DocumentOf(c))

(* An incremental sync that nothing disturbs leaves every described column  *)
(* with a vector made from its present contents, the ones a failed sync had *)
(* left half done included, except where a checksum has been exposed to one *)
(* of the mishaps above (schema_sync_service.py:173-214).                   *)
IncrementalSyncSuffices ==
  \A w \in Workers : Succeeded(w, "incremental") =>
    \A c \in Described \ suspect :
      points[c] # Absent /\ Checksum(points[c]) = Checksum(DocumentOf(c))


(* A cleanup that nothing disturbs leaves no vector without a column,       *)
(* although it deletes from the collection it is paging through             *)
(* (schema_sync_service.py:271-292).                                        *)
CleanupLeavesNoOrphan ==
  \A w \in Workers : Succeeded(w, "cleanup") => Stored \subseteq Present

(* Every request ends: the scroll's offset moves on, the chunks run out.    *)
RequestsEnd == \A w \in Workers : job[w].pc # "idle" ~> job[w].pc = "idle"

(* The steps a request has yet to take, at most: a chunk holds at least one *)
(* column, and a page of the scroll, and the deletion of its orphans, moves *)
(* the offset past at least one of the columns there may be.                *)
Ahead(offset) == {c \in Columns : offset # EndOfScroll /\ c >= offset}

StepsLeft(j) ==
  CASE j.pc = "idle"   -> 0
    [] j.pc = "flush"  -> Cardinality(DOMAIN j.docs) + 1
    [] j.pc = "commit" -> 1
    [] j.pc = "scroll" -> 2 * Cardinality(Ahead(j.offset)) + 1
    [] j.pc = "delete" -> 2 * Cardinality(Ahead(j.offset)) + 2

(* No request goes round in circles, whatever the others insert and delete  *)
(* meanwhile: it begins with a bounded number of steps to take, and each    *)
(* step leaves fewer, the scroll through a collection that changes under it *)
(* included (schema_sync_service.py:271-292,                                *)
(* schema_embedding_service.py:71-110).                                     *)
RequestsGetCloser ==
  [][\A w \in Workers : job'[w] # job[w] =>
       IF job[w].pc = "idle"
       THEN StepsLeft(job'[w]) <= 2 * Cardinality(Columns) + 1
       ELSE StepsLeft(job'[w]) < StepsLeft(job[w])]_vars

(* What the documentation says: "Automatically removes points from Qdrant   *)
(* if their corresponding columns or descriptions are deleted"              *)
(* (docs/services/pipelines/offline/README.md:15).                          *)
CleanupLeavesOnlyDescribed ==
  \A w \in Workers : Succeeded(w, "cleanup") => Stored \subseteq Described
=============================================================================
