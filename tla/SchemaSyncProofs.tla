-------------------------- MODULE SchemaSyncProofs --------------------------
(***************************************************************************)
(* What SchemaSync guarantees for any columns, workers, chunk and page     *)
(* sizes and number of edits.  Three invariants, each resting on the one   *)
(* before:                                                                 *)
(*  - TypeInv: TypeOK, that job is a function on Workers, and which kind   *)
(*    of request is at which place;                                        *)
(*  - PhaseInv, for any number of requests at once: what a request that    *)
(*    nobody has disturbed still holds of the rows it read, and what it    *)
(*    has already brought to the points or cleaned away;                   *)
(*  - SyncInv, of every column that is not suspect: it is in the hands of  *)
(*    one request at most, disturbed or not, and what that request is      *)
(*    still to do keeps its checksum's promise.                            *)
(***************************************************************************)
EXTENDS SchemaSync, FiniteSetTheorems, WellFoundedInduction, TLAPS

Sums == [id : Version, sum : Version]

(* The clauses of TypeOK about one request beside its type.                 *)
Shape(j) ==
  /\ j.pc = "flush" => DOMAIN j.docs # {}
  /\ j.pc = "delete" => j.orphans # {}
  /\ j.orphans \intersect j.valid = {}

(* Which kind of request is at which place.                                 *)
Place(j) ==
  /\ j.pc \in {"flush", "commit"} => j.kind \in {"full", "incremental"}
  /\ j.pc \in {"scroll", "delete"} => j.kind = "cleanup"
  /\ j.pc # "flush" => DOMAIN j.docs = {}
  /\ j.pc \notin {"flush", "commit"} => DOMAIN j.sums = {}
  /\ j.pc = "scroll" => j.orphans = {} /\ j.offset # EndOfScroll

TypeInv ==
  /\ rows \in [Columns -> Row \union {Absent}]
  /\ points \in [Columns -> Document \union {Absent}]
  /\ edits \in Version
  /\ undisturbed \in [Workers -> BOOLEAN]
  /\ job \in [Workers -> Job]
  /\ \A w \in Workers : Shape(job[w]) /\ Place(job[w])

----------------------------------------------------------------------------
(* Facts about the data.                                                    *)

(* Min returns the least element of a set of natural numbers.               *)
LEMMA LeastNat ==
  ASSUME NEW S \in SUBSET Nat, S # {}
  PROVE  Min(S) \in S /\ \A y \in S : Min(S) <= y
<1>1. \E x \in S : \A y \in S : ~(<<y, x>> \in OpToRel(<, Nat))
  BY NatLessThanWellFounded, WFMin
<1>2. PICK x \in S : \A y \in S : ~(<<y, x>> \in OpToRel(<, Nat))
  BY <1>1
<1>3. \A y \in S : ~(y < x)
  BY <1>2 DEF OpToRel
<1>4. \A y \in S : x <= y
  BY <1>3
<1> QED
  BY <1>4 DEF Min

(* A function from some of the columns is what a job may hold.              *)
LEMMA HeldType ==
  ASSUME NEW T, NEW S \in SUBSET Columns, NEW f \in [S -> T]
  PROVE  f \in UNION {[R -> T] : R \in SUBSET Columns}
OBVIOUS

LEMMA HeldParts ==
  ASSUME NEW T, NEW f \in UNION {[R -> T] : R \in SUBSET Columns}
  PROVE  /\ DOMAIN f \in SUBSET Columns
         /\ f \in [DOMAIN f -> T]
<1>1. PICK R \in SUBSET Columns : f \in [R -> T]
  OBVIOUS
<1> QED
  BY <1>1

LEMMA RestrictParts ==
  ASSUME NEW f, NEW S
  PROVE  /\ DOMAIN Restrict(f, S) = S
         /\ \A c \in S : Restrict(f, S)[c] = f[c]
BY DEF Restrict

(* Present rows are records, and so are the documents made from them.       *)
LEMMA PresentRow ==
  ASSUME TypeInv, NEW c \in Present
  PROVE  /\ c \in Columns
         /\ rows[c] \in Row
         /\ DocumentOf(c) \in Document
         /\ Checksum(DocumentOf(c)) = rows[c].covered
BY DEF TypeInv, Present, Row, Document, DocumentOf, Checksum

LEMMA StoredPoint ==
  ASSUME TypeInv, NEW c \in Stored
  PROVE  c \in Columns /\ points[c] \in Document
BY DEF TypeInv, Stored

LEMMA NewJobType ==
  /\ NewJob \in Job
  /\ Shape(NewJob)
  /\ DOMAIN NewJob.docs = {} /\ DOMAIN NewJob.sums = {}
<1>1. NoDocs \in [{} -> Document] /\ NoDocs \in [{} -> Sums]
  BY DEF NoDocs
<1>2. NoDocs \in UNION {[S -> Document] : S \in SUBSET Columns}
  BY <1>1
<1>3. NoDocs \in UNION {[S -> Sums] : S \in SUBSET Columns}
  BY <1>1
<1> QED
  BY <1>1, <1>2, <1>3 DEF NewJob, Job, Shape, Sums

(* A request that ends.                                                     *)
Ended(w, reply) ==
  [NewJob EXCEPT !.kind = job[w].kind, !.client = job[w].client,
                 !.reply = reply]

LEMMA EndedType ==
  ASSUME TypeInv, NEW w \in Workers, NEW reply \in {"none", "ok", "failed"}
  PROVE  /\ Ended(w, reply) \in Job
         /\ Shape(Ended(w, reply)) /\ Place(Ended(w, reply))
         /\ Ended(w, reply).kind = job[w].kind
         /\ Ended(w, reply).client = job[w].client
         /\ Ended(w, reply).reply = reply
         /\ Ended(w, reply).pc = "idle"
         /\ Ended(w, reply).docs = NoDocs /\ Ended(w, reply).sums = NoDocs
<1>1. job[w].kind \in {"none", "full", "incremental", "cleanup"}
      /\ job[w].client \in BOOLEAN
  BY DEF TypeInv, Job
<1>2. Ended(w, reply) \in Job
  BY <1>1, NewJobType DEF Ended, Job
<1> QED
  BY <1>1, <1>2, NewJobType DEF Ended, NewJob, Shape, Place, NoDocs

(* One request's job is replaced.                                           *)
LEMMA JobReplaced ==
  ASSUME TypeInv, NEW w \in Workers, NEW j \in Job, Shape(j), Place(j),
         job' = [job EXCEPT ![w] = j]
  PROVE  /\ job' \in [Workers -> Job]
         /\ job'[w] = j
         /\ \A v \in Workers \ {w} : job'[v] = job[v]
         /\ \A v \in Workers : Shape(job'[v]) /\ Place(job'[v])
BY DEF TypeInv

----------------------------------------------------------------------------
(* The jobs the steps make.                                                 *)

Started(kind, client, selected) ==
  IF selected = {}
  THEN [NewJob EXCEPT !.kind = kind, !.client = client, !.reply = "ok"]
  ELSE [NewJob EXCEPT
          !.kind = kind, !.client = client, !.pc = "flush",
          !.docs = [c \in selected |-> DocumentOf(c)],
          !.sums = [c \in {d \in selected : Changed(d)} |->
                      [id |-> rows[c].id, sum |-> Checksum(DocumentOf(c))]]]

LEMMA StartedType ==
  ASSUME TypeInv, NEW kind \in {"full", "incremental"},
         NEW client \in BOOLEAN, NEW selected \in SUBSET Described
  PROVE  LET j == Started(kind, client, selected)
         IN /\ j \in Job /\ Shape(j) /\ Place(j)
            /\ j.kind = kind /\ j.client = client /\ j.orphans = {}
            /\ j.pc = IF selected = {} THEN "idle" ELSE "flush"
            /\ DOMAIN j.docs = selected
            /\ \A c \in selected : j.docs[c] = DocumentOf(c)
            /\ DOMAIN j.sums = {d \in selected : Changed(d)}
            /\ \A c \in DOMAIN j.sums :
                 j.sums[c] = [id |-> rows[c].id, sum |-> Checksum(DocumentOf(c))]
<1> DEFINE j == Started(kind, client, selected)
           docs == [c \in selected |-> DocumentOf(c)]
           changed == {d \in selected : Changed(d)}
           sums == [c \in changed |->
                      [id |-> rows[c].id, sum |-> Checksum(DocumentOf(c))]]
<1>1. \A c \in selected : /\ c \in Columns /\ rows[c] \in Row
                          /\ DocumentOf(c) \in Document
                          /\ Checksum(DocumentOf(c)) = rows[c].covered
  BY PresentRow DEF Described
<1>2. docs \in UNION {[S -> Document] : S \in SUBSET Columns}
  <2>1. docs \in [selected -> Document] /\ selected \in SUBSET Columns
    BY <1>1
  <2> QED
    BY <2>1, HeldType
<1>3. sums \in UNION {[S -> Sums] : S \in SUBSET Columns}
  <2>1. \A c \in changed :
          [id |-> rows[c].id, sum |-> Checksum(DocumentOf(c))] \in Sums
    BY <1>1 DEF Sums, Row
  <2>2. sums \in [changed -> Sums] /\ changed \in SUBSET Columns
    BY <2>1, <1>1
  <2> QED
    BY <2>2, HeldType
<1>4. CASE selected = {}
  <2>1. j = [NewJob EXCEPT !.kind = kind, !.client = client, !.reply = "ok"]
    BY <1>4 DEF Started
  <2>2. j \in Job
    BY <2>1, NewJobType DEF Job
  <2> QED
    BY <2>1, <2>2, <1>4, NewJobType DEF NewJob, NoDocs, Shape, Place
<1>5. CASE selected # {}
  <2>1. j = [NewJob EXCEPT !.kind = kind, !.client = client, !.pc = "flush",
                           !.docs = docs, !.sums = sums]
    BY <1>5 DEF Started
  <2> HIDE DEF docs, sums
  <2>2. j \in Job
    BY <2>1, <1>2, <1>3, NewJobType DEF Job, Sums
  <2>3. /\ j.kind = kind /\ j.client = client /\ j.pc = "flush"
        /\ j.docs = docs /\ j.sums = sums /\ j.orphans = {} /\ j.valid = {}
    BY <2>1 DEF NewJob
  <2>4. DOMAIN docs = selected /\ \A c \in selected : docs[c] = DocumentOf(c)
    BY DEF docs
  <2>5. /\ DOMAIN sums = {d \in selected : Changed(d)}
        /\ \A c \in DOMAIN sums :
             sums[c] = [id |-> rows[c].id, sum |-> Checksum(DocumentOf(c))]
    BY DEF sums
  <2>6. Shape(j) /\ Place(j)
    BY <2>3, <2>4, <1>5 DEF Shape, Place
  <2> HIDE DEF j
  <2> QED
    BY <2>2, <2>3, <2>4, <2>5, <2>6, <1>5 DEF j
<1> QED
  BY <1>4, <1>5

(* What is left of a job after a chunk, and what the chunk was.             *)
Flushed(w, chunk) ==
  LET left == DOMAIN job[w].docs \ chunk
  IN [job[w] EXCEPT !.docs = Restrict(job[w].docs, left),
                    !.pc = IF left = {} THEN "commit" ELSE "flush"]

LEMMA FlushedType ==
  ASSUME TypeInv, NEW w \in Workers, job[w].pc = "flush",
         NEW chunk \in SUBSET DOMAIN job[w].docs
  PROVE  LET j == Flushed(w, chunk)
             left == DOMAIN job[w].docs \ chunk
         IN /\ j \in Job /\ Shape(j) /\ Place(j)
            /\ j.kind = job[w].kind /\ j.client = job[w].client
            /\ j.sums = job[w].sums
            /\ j.pc = IF left = {} THEN "commit" ELSE "flush"
            /\ DOMAIN j.docs = left
            /\ \A c \in left : j.docs[c] = job[w].docs[c]
<1> DEFINE j == Flushed(w, chunk)
           left == DOMAIN job[w].docs \ chunk
           docs == Restrict(job[w].docs, left)
<1>1. /\ job[w] \in Job /\ Shape(job[w]) /\ Place(job[w])
      /\ job[w].docs \in UNION {[S -> Document] : S \in SUBSET Columns}
  BY DEF TypeInv, Job
<1>2. DOMAIN docs = left /\ \A c \in left : docs[c] = job[w].docs[c]
  BY RestrictParts
<1>3. docs \in UNION {[S -> Document] : S \in SUBSET Columns}
  <2>1. /\ DOMAIN job[w].docs \in SUBSET Columns
        /\ job[w].docs \in [DOMAIN job[w].docs -> Document]
    BY <1>1, HeldParts
  <2>2. docs \in [left -> Document] /\ left \in SUBSET Columns
    BY <2>1 DEF Restrict
  <2> QED
    BY <2>2, HeldType
<1>4. j = [job[w] EXCEPT !.docs = docs,
                         !.pc = IF left = {} THEN "commit" ELSE "flush"]
  BY DEF Flushed
<1> HIDE DEF docs
<1>5. /\ j.kind = job[w].kind /\ j.client = job[w].client
      /\ j.sums = job[w].sums /\ j.docs = docs /\ j.orphans = job[w].orphans
      /\ j.valid = job[w].valid
      /\ j.pc = IF left = {} THEN "commit" ELSE "flush"
  BY <1>1, <1>4 DEF Job
<1>6. j \in Job
  BY <1>1, <1>3, <1>4 DEF Job
<1>7. Shape(j) /\ Place(j)
  BY <1>1, <1>2, <1>5 DEF Shape, Place
<1> QED
  BY <1>2, <1>5, <1>6, <1>7

(* A turn of the cleanup's loop.                                            *)
Turned(w, offset, orphans) ==
  IF orphans = {} /\ offset = EndOfScroll
  THEN Ended(w, "ok")
  ELSE [job[w] EXCEPT !.offset = offset, !.orphans = orphans,
                      !.pc = IF orphans = {} THEN "scroll" ELSE "delete"]

(* What a request is after such a turn: it has ended, or goes on to scroll or *)
(* to delete the orphans it has found, with the valid points it started from. *)
IsTurned(j, w, offset, orphans) ==
  /\ j \in Job /\ Shape(j) /\ Place(j)
  /\ j.kind = "cleanup" /\ j.client = job[w].client
  /\ IF orphans = {} /\ offset = EndOfScroll
     THEN j.pc = "idle" /\ j.reply = "ok"
     ELSE /\ j.pc = IF orphans = {} THEN "scroll" ELSE "delete"
          /\ j.offset = offset /\ j.orphans = orphans
          /\ j.valid = job[w].valid

(* A turn of the cleanup leaves a well-formed request (Turn in SchemaSync).   *)
LEMMA TurnedType ==
  ASSUME TypeInv, NEW w \in Workers, job[w].pc \in {"scroll", "delete"},
         NEW offset \in Columns \union {0, EndOfScroll},
         NEW orphans \in SUBSET Columns, orphans \intersect job[w].valid = {}
  PROVE  IsTurned(Turned(w, offset, orphans), w, offset, orphans)
<1> DEFINE j == Turned(w, offset, orphans)
<1>1. /\ job[w] \in Job /\ Shape(job[w]) /\ Place(job[w])
      /\ job[w].kind = "cleanup"
  BY DEF TypeInv, Place
<1>2. CASE orphans = {} /\ offset = EndOfScroll
  <2>1. j = Ended(w, "ok")
    BY <1>2 DEF Turned
  <2>2. /\ j \in Job /\ Shape(j) /\ Place(j)
        /\ j.kind = "cleanup" /\ j.client = job[w].client
        /\ j.pc = "idle" /\ j.reply = "ok"
    BY <2>1, <1>1, EndedType
  <2> HIDE DEF j
  <2> QED
    BY <2>2, <1>2 DEF j, IsTurned
<1>3. CASE ~(orphans = {} /\ offset = EndOfScroll)
  <2>1. j = [job[w] EXCEPT !.offset = offset, !.orphans = orphans,
                           !.pc = IF orphans = {} THEN "scroll" ELSE "delete"]
    BY <1>3 DEF Turned
  <2>2. j \in Job
    BY <2>1, <1>1 DEF Job
  <2>3. /\ j.kind = "cleanup" /\ j.client = job[w].client
        /\ j.pc = IF orphans = {} THEN "scroll" ELSE "delete"
        /\ j.offset = offset /\ j.orphans = orphans /\ j.valid = job[w].valid
        /\ j.docs = job[w].docs /\ j.sums = job[w].sums
    BY <2>1, <1>1 DEF Job
  <2>4. Shape(j) /\ Place(j)
    BY <2>3, <1>1, <1>3 DEF Shape, Place
  <2> HIDE DEF j
  <2> QED
    BY <2>2, <2>3, <2>4, <1>3 DEF j, IsTurned
<1> QED
  BY <1>2, <1>3

LEMMA NextOffsetType ==
  ASSUME TypeInv, NEW offset
  PROVE  /\ PageFrom(offset) \in SUBSET Columns
         /\ NextOffset(offset) \in Columns \union {EndOfScroll}
         /\ \A c \in Stored : c >= offset /\ c \notin PageFrom(offset) =>
              NextOffset(offset) # EndOfScroll /\ c >= NextOffset(offset)
<1> DEFINE after == {c \in Stored : c >= offset} \ PageFrom(offset)
<1>1. PageFrom(offset) \in SUBSET Columns /\ after \in SUBSET Columns
  BY DEF PageFrom, Stored
<1>2. after \in SUBSET Nat /\ \A c \in after : c \in Columns
  BY <1>1, SyncAssumption
<1>3. after # {} => Min(after) \in after /\ \A c \in after : Min(after) <= c
  BY <1>2, LeastNat
<1>4. NextOffset(offset) = IF after = {} THEN EndOfScroll ELSE Min(after)
  BY DEF NextOffset
<1> HIDE DEF after
<1>5. NextOffset(offset) \in Columns \union {EndOfScroll}
  BY <1>1, <1>3, <1>4
<1>6. ASSUME NEW c \in Stored, c >= offset, c \notin PageFrom(offset)
      PROVE  NextOffset(offset) # EndOfScroll /\ c >= NextOffset(offset)
  <2>1. c \in after
    BY <1>6 DEF after
  <2> QED
    BY <2>1, <1>2, <1>3, <1>4 DEF EndOfScroll
<1> QED
  BY <1>1, <1>5, <1>6

----------------------------------------------------------------------------
(* Types.                                                                   *)

LEMMA TypeInit == Init => TypeInv
<1> SUFFICES ASSUME Init PROVE TypeInv
  OBVIOUS
<1>1. 0 \in Version
  BY SyncAssumption DEF Version
<1>2. job \in [Workers -> Job] /\ \A w \in Workers : job[w] = NewJob
  BY NewJobType DEF Init
<1>3. Shape(NewJob) /\ Place(NewJob)
  BY NewJobType DEF Place, NewJob
<1> QED
  BY <1>1, <1>2, <1>3 DEF Init, TypeInv

(* An edit leaves the requests and the points alone.                        *)
LEMMA EditType ==
  ASSUME TypeInv, Edit, rows' \in [Columns -> Row \union {Absent}]
  PROVE  TypeInv'
<1>1. edits + 1 \in Version
  BY SyncAssumption DEF TypeInv, Edit, Version
<1> QED
  BY <1>1 DEF TypeInv, Edit

LEMMA EditVersions ==
  ASSUME TypeInv, Edit
  PROVE  /\ edits + 1 \in Version /\ edits + 1 # Unset
         /\ NextVersions \in SUBSET (Version \ {Unset})
         /\ Unset \in Version
BY SyncAssumption DEF TypeInv, Edit, Version, NextVersions, Unset

LEMMA DescribeType == TypeInv /\ Describe => TypeInv'
<1> SUFFICES ASSUME TypeInv, Describe PROVE TypeInv'
  OBVIOUS
<1>1. PICK v \in NextVersions :
        rows' = [c \in Columns |->
                  IF c \in Present
                  THEN [rows[c] EXCEPT !.covered = v, !.rest = edits + 1]
                  ELSE Absent]
  BY DEF Describe
<1>2. Edit /\ v \in Version /\ edits + 1 \in Version
  BY EditVersions DEF Describe
<1>3. \A c \in Present :
        [rows[c] EXCEPT !.covered = v, !.rest = edits + 1] \in Row
  BY <1>2, PresentRow DEF Row
<1> QED
  BY <1>1, <1>2, <1>3, EditType

LEMMA ReindexType ==
  ASSUME TypeInv, NEW c \in Columns, Reindex(c)
  PROVE  TypeInv'
<1>1. Edit /\ edits + 1 \in Version /\ Unset \in Version
      /\ NextVersions \in SUBSET Version
  BY EditVersions DEF Reindex
<1>2. CASE c \notin Present
           /\ rows' = [rows EXCEPT ![c] = [id |-> edits + 1, covered |-> Unset,
                                           rest |-> edits + 1, sum |-> Unset]]
  <2>1. rows' \in [Columns -> Row \union {Absent}]
    BY <1>1, <1>2 DEF TypeInv, Row
  <2> QED
    BY <1>1, <2>1, EditType
<1>3. CASE c \in Described
           /\ \E v \in NextVersions : rows' = [rows EXCEPT ![c].covered = v]
  <2>1. rows[c] \in Row
    BY <1>3, PresentRow DEF Described
  <2>2. rows' \in [Columns -> Row \union {Absent}]
    BY <1>1, <1>3, <2>1 DEF TypeInv, Row
  <2> QED
    BY <1>1, <2>2, EditType
<1>4. CASE c \in Present /\ rows' = [rows EXCEPT ![c].rest = edits + 1]
  <2>1. rows[c] \in Row
    BY <1>4, PresentRow
  <2>2. rows' \in [Columns -> Row \union {Absent}]
    BY <1>1, <1>4, <2>1 DEF TypeInv, Row
  <2> QED
    BY <1>1, <2>2, EditType
<1> QED
  BY <1>2, <1>3, <1>4 DEF Reindex

LEMMA ForceRefreshType ==
  ASSUME TypeInv, NEW found \in SUBSET Columns, ForceRefresh(found)
  PROVE  TypeInv'
<1>1. Edit /\ edits + 1 \in Version /\ Unset \in Version
  BY EditVersions DEF ForceRefresh
<1>2. rows' \in [Columns -> Row \union {Absent}]
  BY <1>1 DEF ForceRefresh, Row
<1> QED
  BY <1>1, <1>2, EditType

(* A step of one request: its new job, and what else keeps its type.        *)
LEMMA RequestStepType ==
  ASSUME TypeInv, NEW w \in Workers, NEW j \in Job, Shape(j), Place(j),
         job' = [job EXCEPT ![w] = j],
         rows' \in [Columns -> Row \union {Absent}],
         points' \in [Columns -> Document \union {Absent}],
         edits' = edits, undisturbed' \in [Workers -> BOOLEAN]
  PROVE  TypeInv'
<1>1. job' \in [Workers -> Job]
      /\ \A v \in Workers : Shape(job'[v]) /\ Place(job'[v])
  BY JobReplaced
<1> QED
  BY <1>1 DEF TypeInv

LEMMA ReadSyncStep ==
  ASSUME TypeInv, NEW w \in Workers, NEW kind \in {"full", "incremental"},
         NEW client \in ClientStates, NEW selected \in SUBSET Described,
         StartSync(w, kind, client, selected),
         undisturbed' = [undisturbed EXCEPT ![w] = TRUE],
         UNCHANGED <<rows, points, edits>>
  PROVE  /\ TypeInv'
         /\ job' = [job EXCEPT ![w] = Started(kind, client, selected)]
<1>1. job' = [job EXCEPT ![w] = Started(kind, client, selected)]
  BY DEF StartSync, Started
<1>2. client \in BOOLEAN
  BY SyncAssumption
<1>3. LET j == Started(kind, client, selected)
      IN j \in Job /\ Shape(j) /\ Place(j)
  BY <1>2, StartedType
<1>4. undisturbed' \in [Workers -> BOOLEAN]
  BY DEF TypeInv
<1>5. rows' \in [Columns -> Row \union {Absent}]
      /\ points' \in [Columns -> Document \union {Absent}] /\ edits' = edits
  BY DEF TypeInv
<1> QED
  BY <1>1, <1>3, <1>4, <1>5, RequestStepType

CleanupJob(client) ==
  [NewJob EXCEPT !.kind = "cleanup", !.client = client,
                 !.valid = IF client THEN Present ELSE {},
                 !.pc = IF client THEN "scroll" ELSE "idle",
                 !.reply = IF client THEN "none" ELSE "ok"]

LEMMA ReadCleanupStep ==
  ASSUME TypeInv, NEW w \in Workers, NEW client \in ClientStates,
         ReadCleanup(w, client)
  PROVE  /\ TypeInv'
         /\ job' = [job EXCEPT ![w] = CleanupJob(client)]
         /\ CleanupJob(client).kind = "cleanup"
         /\ CleanupJob(client).client = client
         /\ CleanupJob(client).pc = IF client THEN "scroll" ELSE "idle"
         /\ CleanupJob(client).valid = IF client THEN Present ELSE {}
         /\ CleanupJob(client).orphans = {}
         /\ CleanupJob(client).offset = 0
<1> DEFINE j == CleanupJob(client)
<1>1. job' = [job EXCEPT ![w] = j]
  BY DEF ReadCleanup, CleanupJob
<1>2. client \in BOOLEAN /\ Present \in SUBSET Columns
  BY SyncAssumption DEF Present
<1>3. j \in Job
  BY <1>2, NewJobType DEF CleanupJob, Job
<1>4. /\ j.kind = "cleanup" /\ j.client = client
      /\ j.pc = (IF client THEN "scroll" ELSE "idle")
      /\ j.valid = (IF client THEN Present ELSE {})
      /\ j.orphans = {} /\ j.offset = 0
      /\ DOMAIN j.docs = {} /\ DOMAIN j.sums = {}
  BY NewJobType DEF CleanupJob, NewJob
<1>5. Shape(j) /\ Place(j)
  BY <1>2, <1>4 DEF Shape, Place, EndOfScroll
<1>6. /\ undisturbed' \in [Workers -> BOOLEAN]
      /\ rows' \in [Columns -> Row \union {Absent}]
      /\ points' \in [Columns -> Document \union {Absent}] /\ edits' = edits
  BY DEF TypeInv, ReadCleanup
<1> HIDE DEF j
<1>7. TypeInv'
  BY <1>1, <1>3, <1>5, <1>6, RequestStepType
<1> QED
  BY <1>1, <1>4, <1>7 DEF j

LEMMA DisturbType ==
  ASSUME TypeInv, NEW w \in Workers, Disturb(w)
  PROVE  /\ undisturbed' \in [Workers -> BOOLEAN]
         /\ undisturbed'[w] = undisturbed[w]
         /\ \A v \in Workers \ {w} : ~undisturbed'[v]
BY DEF TypeInv, Disturb

LEMMA FlushStep ==
  ASSUME TypeInv, NEW w \in Workers, Flush(w)
  PROVE  /\ TypeInv'
         /\ job[w].pc = "flush"
         /\ rows' = rows
         /\ \E chunk \in SUBSET DOMAIN job[w].docs :
              /\ job' = [job EXCEPT ![w] = Flushed(w, chunk)]
              /\ \A c \in Columns :
                   points'[c] = IF job[w].client /\ c \in chunk
                                THEN job[w].docs[c] ELSE points[c]
<1>1. PICK chunk \in SUBSET DOMAIN job[w].docs :
        LET left == DOMAIN job[w].docs \ chunk
        IN /\ points' = IF job[w].client
                        THEN Upserted(Restrict(job[w].docs, chunk)) ELSE points
           /\ job' = [job EXCEPT
                ![w].docs = Restrict(job[w].docs, left),
                ![w].pc = IF Drained(left) THEN "commit" ELSE "flush"]
  BY DEF Flush
<1>2. job' = [job EXCEPT ![w] = Flushed(w, chunk)]
  BY <1>1 DEF Flushed, Drained, TypeInv
<1>3. \A c \in Columns :
        points'[c] = IF job[w].client /\ c \in chunk
                     THEN job[w].docs[c] ELSE points[c]
  BY <1>1, RestrictParts DEF Upserted
<1>4. job[w].docs \in [DOMAIN job[w].docs -> Document]
  <2>1. job[w].docs \in UNION {[S -> Document] : S \in SUBSET Columns}
    BY DEF TypeInv, Job
  <2> QED
    BY <2>1, HeldParts
<1>5. points' \in [Columns -> Document \union {Absent}]
  <2>1. \A c \in Columns : points'[c] \in Document \union {Absent}
    BY <1>3, <1>4 DEF TypeInv
  <2>2. CASE job[w].client
    BY <1>1, <2>1, <2>2 DEF Upserted
  <2>3. CASE ~job[w].client
    BY <1>1, <2>1, <2>3 DEF TypeInv
  <2> QED
    BY <2>2, <2>3
<1>6. job[w].pc = "flush" /\ rows' = rows /\ edits' = edits /\ Disturb(w)
  BY DEF Flush
<1>7. LET j == Flushed(w, chunk) IN j \in Job /\ Shape(j) /\ Place(j)
  BY <1>6, FlushedType
<1>8. undisturbed' \in [Workers -> BOOLEAN]
      /\ rows' \in [Columns -> Row \union {Absent}]
  BY <1>6, DisturbType DEF TypeInv
<1>9. TypeInv'
  BY <1>2, <1>5, <1>6, <1>7, <1>8, RequestStepType
<1> QED
  BY <1>2, <1>3, <1>6, <1>9

LEMMA FinishStep ==
  ASSUME TypeInv, NEW w \in Workers, NEW reply \in {"ok", "failed"},
         Finish(w, reply),
         rows' \in [Columns -> Row \union {Absent}],
         points' \in [Columns -> Document \union {Absent}],
         edits' = edits, undisturbed' \in [Workers -> BOOLEAN]
  PROVE  TypeInv' /\ job' = [job EXCEPT ![w] = Ended(w, reply)]
<1>1. job' = [job EXCEPT ![w] = Ended(w, reply)]
  BY DEF Finish, Ended
<1>2. /\ Ended(w, reply) \in Job
      /\ Shape(Ended(w, reply)) /\ Place(Ended(w, reply))
  BY EndedType
<1> QED
  BY <1>1, <1>2, RequestStepType

LEMMA CommitStep ==
  ASSUME TypeInv, NEW w \in Workers, Commit(w)
  PROVE  /\ TypeInv'
         /\ job' = [job EXCEPT ![w] = Ended(w, "ok")]
         /\ points' = points
         /\ \A c \in Columns :
              rows'[c] = IF c \in Kept(w)
                         THEN [rows[c] EXCEPT !.sum = job[w].sums[c].sum]
                         ELSE rows[c]
<1>1. job[w].sums \in [DOMAIN job[w].sums -> Sums]
  <2>1. job[w].sums \in UNION {[S -> Sums] : S \in SUBSET Columns}
    BY DEF TypeInv, Job, Sums
  <2> QED
    BY <2>1, HeldParts
<1>2. \A c \in Kept(w) : [rows[c] EXCEPT !.sum = job[w].sums[c].sum] \in Row
  <2> TAKE c \in Kept(w)
  <2>1. c \in DOMAIN job[w].sums /\ c \in Present
    BY DEF Kept
  <2>2. rows[c] \in Row
    BY <2>1, PresentRow
  <2>3. job[w].sums[c].sum \in Version
    BY <1>1, <2>1 DEF Sums
  <2> QED
    BY <2>2, <2>3 DEF Row
<1>3. rows' \in [Columns -> Row \union {Absent}]
  BY <1>2 DEF Commit, TypeInv
<1>4. Finish(w, "ok") /\ points' = points /\ edits' = edits
      /\ undisturbed' \in [Workers -> BOOLEAN]
  BY DisturbType DEF Commit
<1>5. points' \in [Columns -> Document \union {Absent}]
  BY <1>4 DEF TypeInv
<1>6. TypeInv' /\ job' = [job EXCEPT ![w] = Ended(w, "ok")]
  BY <1>3, <1>4, <1>5, FinishStep
<1> QED
  BY <1>4, <1>6 DEF Commit

LEMMA FailedStep ==
  ASSUME TypeInv, NEW w \in Workers, CommitFindsRowGone(w) \/ Abort(w)
  PROVE  /\ TypeInv'
         /\ job' = [job EXCEPT ![w] = Ended(w, "failed")]
         /\ UNCHANGED <<rows, points, edits, undisturbed>>
<1>1. Finish(w, "failed") /\ UNCHANGED <<rows, points, edits, undisturbed>>
  BY DEF CommitFindsRowGone, Abort
<1>2. /\ rows' \in [Columns -> Row \union {Absent}]
      /\ points' \in [Columns -> Document \union {Absent}]
      /\ edits' = edits /\ undisturbed' \in [Workers -> BOOLEAN]
  BY <1>1 DEF TypeInv
<1> QED
  BY <1>1, <1>2, FinishStep

LEMMA ScrollStep ==
  ASSUME TypeInv, NEW w \in Workers, Scroll(w)
  PROVE  LET offset == NextOffset(job[w].offset)
             orphans == PageFrom(job[w].offset) \ job[w].valid
         IN /\ TypeInv'
            /\ job[w].pc = "scroll"
            /\ job' = [job EXCEPT ![w] = Turned(w, offset, orphans)]
            /\ offset \in Columns \union {0, EndOfScroll}
            /\ orphans \in SUBSET Columns /\ orphans \intersect job[w].valid = {}
            /\ UNCHANGED <<rows, points, edits, undisturbed>>
<1> DEFINE offset == NextOffset(job[w].offset)
           orphans == PageFrom(job[w].offset) \ job[w].valid
<1>1. /\ offset \in Columns \union {0, EndOfScroll}
      /\ orphans \in SUBSET Columns /\ orphans \intersect job[w].valid = {}
  BY NextOffsetType
<1>2. /\ job[w].pc = "scroll" /\ Turn(w, offset, orphans)
      /\ UNCHANGED <<rows, points, edits, undisturbed>>
  BY DEF Scroll
<1> HIDE DEF offset, orphans
<1>3. job' = [job EXCEPT ![w] = Turned(w, offset, orphans)]
  BY <1>2 DEF Turn, Turned, Finish, Ended, TypeInv
<1>4. LET j == Turned(w, offset, orphans) IN j \in Job /\ Shape(j) /\ Place(j)
  <2>1. IsTurned(Turned(w, offset, orphans), w, offset, orphans)
    BY <1>1, <1>2, TurnedType
  <2> QED
    BY <2>1 DEF IsTurned
<1>5. /\ rows' \in [Columns -> Row \union {Absent}]
      /\ points' \in [Columns -> Document \union {Absent}]
      /\ edits' = edits /\ undisturbed' \in [Workers -> BOOLEAN]
  BY <1>2 DEF TypeInv
<1>6. TypeInv'
  BY <1>3, <1>4, <1>5, RequestStepType
<1> QED
  BY <1>1, <1>2, <1>3, <1>6 DEF offset, orphans

LEMMA DeleteStep ==
  ASSUME TypeInv, NEW w \in Workers, DeleteOrphans(w)
  PROVE  /\ TypeInv'
         /\ job[w].pc = "delete"
         /\ job' = [job EXCEPT ![w] = Turned(w, job[w].offset, {})]
         /\ job[w].offset \in Columns \union {0, EndOfScroll}
         /\ rows' = rows
         /\ \A c \in Columns :
              points'[c] = IF c \in job[w].orphans THEN Absent ELSE points[c]
<1>1. /\ job[w].pc = "delete" /\ Turn(w, job[w].offset, {})
      /\ Disturb(w) /\ rows' = rows /\ edits' = edits
  BY DEF DeleteOrphans
<1>2. job[w].offset \in Columns \union {0, EndOfScroll}
  BY DEF TypeInv, Job
<1>3. job' = [job EXCEPT ![w] = Turned(w, job[w].offset, {})]
  BY <1>1 DEF Turn, Turned, Finish, Ended, TypeInv
<1>4. LET j == Turned(w, job[w].offset, {})
      IN j \in Job /\ Shape(j) /\ Place(j)
  <2>1. IsTurned(Turned(w, job[w].offset, {}), w, job[w].offset, {})
    BY <1>1, <1>2, TurnedType
  <2> QED
    BY <2>1 DEF IsTurned
<1>5. /\ rows' \in [Columns -> Row \union {Absent}]
      /\ points' \in [Columns -> Document \union {Absent}]
      /\ undisturbed' \in [Workers -> BOOLEAN]
  BY <1>1, DisturbType DEF TypeInv, DeleteOrphans
<1>6. TypeInv'
  BY <1>1, <1>3, <1>4, <1>5, RequestStepType
<1> QED
  BY <1>1, <1>2, <1>3, <1>6 DEF DeleteOrphans

LEMMA ReadStep ==
  ASSUME TypeInv, NEW w \in Workers, NEW client \in ClientStates,
         ReadFull(w, client) \/ ReadIncremental(w, client)
  PROVE  \E kind \in {"full", "incremental"}, selected \in SUBSET Described :
           /\ TypeInv'
           /\ job' = [job EXCEPT ![w] = Started(kind, client, selected)]
           /\ undisturbed' = [undisturbed EXCEPT ![w] = TRUE]
           /\ UNCHANGED <<rows, points, edits>>
           /\ kind = "full" => selected = Described
           /\ kind = "incremental" => selected = {c \in Described : Changed(c)}
<1>1. CASE ReadFull(w, client)
  <2>1. /\ StartSync(w, "full", client, Described)
        /\ undisturbed' = [undisturbed EXCEPT ![w] = TRUE]
        /\ UNCHANGED <<rows, points, edits>>
    BY <1>1 DEF ReadFull
  <2>2. TypeInv' /\ job' = [job EXCEPT ![w] = Started("full", client, Described)]
    BY <2>1, ReadSyncStep
  <2> QED
    BY <2>1, <2>2
<1>2. CASE ReadIncremental(w, client)
  <2> DEFINE selected == {c \in Described : Changed(c)}
  <2>1. /\ StartSync(w, "incremental", client, selected)
        /\ undisturbed' = [undisturbed EXCEPT ![w] = TRUE]
        /\ UNCHANGED <<rows, points, edits>>
    BY <1>2 DEF ReadIncremental
  <2>2. selected \in SUBSET Described
    OBVIOUS
  <2> HIDE DEF selected
  <2>3. TypeInv' /\ job' = [job EXCEPT ![w] = Started("incremental", client, selected)]
    BY <2>1, <2>2, ReadSyncStep
  <2> QED
    BY <2>1, <2>2, <2>3 DEF selected
<1> QED
  BY <1>1, <1>2

(* The actions, in the order the proofs below go through them.              *)
LEMMA NextCases ==
  ASSUME Next
  PROVE  \/ Offline
         \/ \E w \in Workers, client \in ClientStates :
              ReadFull(w, client) \/ ReadIncremental(w, client)
         \/ \E w \in Workers, client \in ClientStates : ReadCleanup(w, client)
         \/ \E w \in Workers : Flush(w)
         \/ \E w \in Workers : Commit(w)
         \/ \E w \in Workers : CommitFindsRowGone(w) \/ Abort(w)
         \/ \E w \in Workers : Scroll(w)
         \/ \E w \in Workers : DeleteOrphans(w)
BY DEF Next, Request, Step

LEMMA OfflineType == TypeInv /\ Offline => TypeInv'
BY DescribeType, ReindexType, ForceRefreshType DEF Offline

LEMMA TypeStep == TypeInv /\ [Next]_vars => TypeInv'
<1> SUFFICES ASSUME TypeInv, [Next]_vars PROVE TypeInv'
  OBVIOUS
<1>1. CASE UNCHANGED vars
  BY <1>1 DEF vars, TypeInv
<1>2. CASE Offline
  BY <1>2, OfflineType
<1>3. ASSUME NEW w \in Workers, NEW client \in ClientStates,
             ReadFull(w, client) \/ ReadIncremental(w, client)
      PROVE  TypeInv'
  BY <1>3, ReadStep
<1>4. ASSUME NEW w \in Workers, NEW client \in ClientStates,
             ReadCleanup(w, client)
      PROVE  TypeInv'
  BY <1>4, ReadCleanupStep
<1>5. ASSUME NEW w \in Workers, Flush(w) PROVE TypeInv'
  BY <1>5, FlushStep
<1>6. ASSUME NEW w \in Workers, Commit(w) PROVE TypeInv'
  BY <1>6, CommitStep
<1>7. ASSUME NEW w \in Workers, CommitFindsRowGone(w) \/ Abort(w)
      PROVE  TypeInv'
  BY <1>7, FailedStep
<1>8. ASSUME NEW w \in Workers, Scroll(w) PROVE TypeInv'
  BY <1>8, ScrollStep
<1>9. ASSUME NEW w \in Workers, DeleteOrphans(w) PROVE TypeInv'
  BY <1>9, DeleteStep
<1> QED
  BY <1>1, <1>2, <1>3, <1>4, <1>5, <1>6, <1>7, <1>8, <1>9, NextCases

(* Only columns are suspect.                                                *)
SuspectInv == suspect \subseteq Columns

LEMMA HandIsColumns ==
  ASSUME NEW j \in Job
  PROVE  InHand(j) \subseteq Columns
<1>1. /\ j.docs \in UNION {[S -> Document] : S \in SUBSET Columns}
      /\ j.sums \in UNION {[S -> Sums] : S \in SUBSET Columns}
  BY DEF Job, Sums
<1>2. DOMAIN j.docs \subseteq Columns /\ DOMAIN j.sums \subseteq Columns
  BY <1>1, HeldParts
<1> QED
  BY <1>2 DEF InHand

LEMMA SuspectStep == TypeInv /\ SuspectInv /\ [Next]_vars => SuspectInv'
<1> SUFFICES ASSUME TypeInv, SuspectInv, [Next]_vars PROVE SuspectInv'
  OBVIOUS
<1>1. CASE suspect' \subseteq suspect
  BY <1>1 DEF SuspectInv
<1>2. CASE Offline
  BY <1>2 DEF SuspectInv, Offline, Describe, Reindex, ForceRefresh, Edit
<1>3. ASSUME NEW w \in Workers, Overlap(w) PROVE SuspectInv'
  <2>1. InHand(job'[w]) \subseteq Columns
    BY TypeStep, HandIsColumns DEF TypeInv
  <2> QED
    BY <1>3, <2>1 DEF SuspectInv, Overlap
<1>4. ASSUME NEW w \in Workers, NEW client \in ClientStates,
             ReadFull(w, client) \/ ReadIncremental(w, client)
               \/ ReadCleanup(w, client)
      PROVE  SuspectInv'
  BY <1>3, <1>4 DEF ReadFull, ReadIncremental, ReadCleanup
<1>5. ASSUME NEW w \in Workers, Commit(w) PROVE SuspectInv'
  BY <1>1, <1>5 DEF Commit, Clear
<1>6. ASSUME NEW w \in Workers,
             \/ Flush(w) \/ CommitFindsRowGone(w) \/ Abort(w)
             \/ Scroll(w) \/ DeleteOrphans(w)
      PROVE  SuspectInv'
  BY <1>1, <1>6 DEF Flush, CommitFindsRowGone, Abort, Scroll, DeleteOrphans
<1>7. CASE UNCHANGED vars
  BY <1>1, <1>7 DEF vars
<1> QED
  BY <1>2, <1>4, <1>5, <1>6, <1>7, NextCases

(* Every state of the two stores and of the sync requests has its type, and *)
(* a request is never about to embed or delete nothing, nor to delete a     *)
(* vector it counts as valid (schema_sync_service.py:77-292).               *)
THEOREM TypeCorrect == Spec => []TypeOK
<1>1. TypeInv /\ SuspectInv => TypeOK
  BY DEF TypeInv, SuspectInv, TypeOK, Shape
<1>2. Init => SuspectInv
  BY DEF Init, SuspectInv
<1> QED
  BY <1>1, <1>2, TypeInit, TypeStep, SuspectStep, PTL DEF Spec

----------------------------------------------------------------------------
(* What a request that nobody has disturbed may rely on.                    *)

Live(w, kinds) ==
  /\ undisturbed[w] /\ job[w].kind \in kinds
  /\ job[w].pc # "idle" \/ job[w].reply = "ok"

(* The checksums that are not up to date are the ones it will write.        *)
SumsOf(w) ==
  Live(w, {"full", "incremental"}) =>
    \A c \in Described :
      IF c \in DOMAIN job[w].sums
      THEN job[w].sums[c] = [id |-> rows[c].id, sum |-> Checksum(DocumentOf(c))]
      ELSE rows[c].sum = Checksum(DocumentOf(c))

(* The points that are not up to date are the ones it will upsert.          *)
DocsOf(w) ==
  Live(w, {"full"}) /\ job[w].client =>
    \A c \in Described :
      IF c \in DOMAIN job[w].docs
      THEN job[w].docs[c] = DocumentOf(c)
      ELSE points[c] = DocumentOf(c)

(* The vectors without a column are about to be deleted or still ahead.     *)
CleanOf(w) ==
  Live(w, {"cleanup"}) /\ job[w].client =>
    IF job[w].pc = "idle"
    THEN Stored \subseteq Present
    ELSE /\ job[w].valid = Present
         /\ \A c \in Stored \ Present :
              \/ c \in job[w].orphans
              \/ job[w].offset # EndOfScroll /\ c >= job[w].offset

PhaseOf(w) == SumsOf(w) /\ DocsOf(w) /\ CleanOf(w)
PhaseInv == \A w \in Workers : PhaseOf(w)

LEMMA NoLongerLive ==
  ASSUME NEW w, ~undisturbed'[w]
  PROVE  PhaseOf(w)'
BY DEF PhaseOf, SumsOf, DocsOf, CleanOf, Live

LEMMA SameRows ==
  ASSUME rows' = rows
  PROVE  /\ Described' = Described /\ Present' = Present
         /\ \A c : DocumentOf(c)' = DocumentOf(c)
         /\ \A c : Checksum(DocumentOf(c))' = Checksum(DocumentOf(c))
BY DEF Described, Present, DocumentOf, Checksum

(* A step that neither touches the stores nor the request of w.             *)
LEMMA Untouched ==
  ASSUME NEW w, PhaseOf(w), job'[w] = job[w],
         undisturbed'[w] = undisturbed[w], rows' = rows, points' = points
  PROVE  PhaseOf(w)'
<1>1. Described' = Described /\ Present' = Present /\ Stored' = Stored
  BY SameRows DEF Stored
<1>2. \A kinds : Live(w, kinds)' = Live(w, kinds)
  BY DEF Live
<1>3. SumsOf(w)'
  BY <1>1, <1>2, SameRows DEF PhaseOf, SumsOf
<1>4. DocsOf(w)'
  BY <1>1, <1>2, SameRows DEF PhaseOf, DocsOf
<1>5. CleanOf(w)'
  BY <1>1, <1>2 DEF PhaseOf, CleanOf
<1> QED
  BY <1>3, <1>4, <1>5 DEF PhaseOf

LEMMA PhaseInit == Init => PhaseInv
BY DEF Init, PhaseInv, PhaseOf, SumsOf, DocsOf, CleanOf, Live

LEMMA PhaseOffline ==
  ASSUME Offline
  PROVE  PhaseInv'
<1>1. Edit
  BY DEF Offline, Describe, Reindex, ForceRefresh
<1>2. \A w \in Workers : ~undisturbed'[w]
  BY <1>1 DEF Edit
<1> QED
  BY <1>2, NoLongerLive DEF PhaseInv

LEMMA PhaseRead ==
  ASSUME TypeInv, PhaseInv, NEW w \in Workers, NEW client \in ClientStates,
         ReadFull(w, client) \/ ReadIncremental(w, client)
  PROVE  PhaseInv'
<1>1. PICK kind \in {"full", "incremental"}, selected \in SUBSET Described :
        /\ job' = [job EXCEPT ![w] = Started(kind, client, selected)]
        /\ undisturbed' = [undisturbed EXCEPT ![w] = TRUE]
        /\ UNCHANGED <<rows, points, edits>>
        /\ kind = "full" => selected = Described
        /\ kind = "incremental" => selected = {c \in Described : Changed(c)}
  BY ReadStep
<1> DEFINE j == Started(kind, client, selected)
<1>2. job'[w] = j /\ \A v \in Workers \ {w} : job'[v] = job[v]
      /\ undisturbed'[v] = undisturbed[v]
  BY <1>1 DEF TypeInv
<1>3. client \in BOOLEAN
  BY SyncAssumption
<1>4. /\ j.kind = kind
      /\ DOMAIN j.docs = selected
      /\ \A c \in selected : j.docs[c] = DocumentOf(c)
      /\ DOMAIN j.sums = {d \in selected : Changed(d)}
      /\ \A c \in DOMAIN j.sums :
           j.sums[c] = [id |-> rows[c].id, sum |-> Checksum(DocumentOf(c))]
  BY <1>3, StartedType
<1> HIDE DEF j
<1>5. /\ Described' = Described
      /\ \A c : DocumentOf(c)' = DocumentOf(c)
      /\ \A c : Checksum(DocumentOf(c))' = Checksum(DocumentOf(c))
      /\ rows' = rows
  BY <1>1, SameRows
<1>6. SumsOf(w)'
  <2>1. \A c \in Described \ DOMAIN j.sums : rows[c].sum = Checksum(DocumentOf(c))
    BY <1>1, <1>4 DEF Changed
  <2> QED
    BY <1>2, <1>4, <1>5, <2>1 DEF SumsOf
<1>7. DocsOf(w)'
  BY <1>1, <1>2, <1>4, <1>5 DEF DocsOf, Live
<1>8. CleanOf(w)'
  BY <1>2, <1>4 DEF CleanOf, Live
<1>9. \A v \in Workers \ {w} : PhaseOf(v)'
  BY <1>1, <1>2, Untouched DEF PhaseInv
<1> QED
  BY <1>6, <1>7, <1>8, <1>9 DEF PhaseInv, PhaseOf

LEMMA PhaseReadCleanup ==
  ASSUME TypeInv, PhaseInv, NEW w \in Workers, NEW client \in ClientStates,
         ReadCleanup(w, client)
  PROVE  PhaseInv'
<1> DEFINE j == CleanupJob(client)
<1>1. /\ job' = [job EXCEPT ![w] = j]
      /\ j.kind = "cleanup" /\ j.client = client
      /\ j.pc = (IF client THEN "scroll" ELSE "idle")
      /\ j.valid = (IF client THEN Present ELSE {}) /\ j.offset = 0
  BY ReadCleanupStep
<1> HIDE DEF j
<1>2. /\ undisturbed' = [undisturbed EXCEPT ![w] = TRUE]
      /\ rows' = rows /\ points' = points
  BY DEF ReadCleanup
<1>3. job'[w] = j /\ \A v \in Workers \ {w} : job'[v] = job[v]
      /\ undisturbed'[v] = undisturbed[v]
  BY <1>1, <1>2 DEF TypeInv
<1>4. SumsOf(w)' /\ DocsOf(w)'
  BY <1>1, <1>3 DEF SumsOf, DocsOf, Live
<1>5. CleanOf(w)'
  <2>1. Present' = Present /\ Stored' = Stored
    BY <1>2, SameRows DEF Stored
  <2>2. \A c \in Stored : c >= 0
    BY SyncAssumption DEF Stored
  <2> QED
    BY <1>1, <1>3, <2>1, <2>2 DEF CleanOf, EndOfScroll
<1>6. \A v \in Workers \ {w} : PhaseOf(v)'
  BY <1>2, <1>3, Untouched DEF PhaseInv
<1> QED
  BY <1>4, <1>5, <1>6 DEF PhaseInv, PhaseOf

LEMMA PhaseFlush ==
  ASSUME TypeInv, PhaseInv, NEW w \in Workers, Flush(w)
  PROVE  PhaseInv'
<1>1. PICK chunk \in SUBSET DOMAIN job[w].docs :
        /\ job' = [job EXCEPT ![w] = Flushed(w, chunk)]
        /\ \A c \in Columns :
             points'[c] = IF job[w].client /\ c \in chunk
                          THEN job[w].docs[c] ELSE points[c]
  BY FlushStep
<1> DEFINE j == Flushed(w, chunk)
           left == DOMAIN job[w].docs \ chunk
<1>2. job[w].pc = "flush" /\ rows' = rows /\ Disturb(w)
  BY DEF Flush
<1>3. /\ j.kind = job[w].kind /\ j.client = job[w].client
      /\ j.sums = job[w].sums
      /\ DOMAIN j.docs = left /\ \A c \in left : j.docs[c] = job[w].docs[c]
  BY <1>2, FlushedType
<1>4. job'[w] = j /\ job[w].kind \in {"full", "incremental"}
  BY <1>1, <1>2 DEF TypeInv, Place
<1> HIDE DEF j
<1>5. /\ Described' = Described /\ Described \in SUBSET Columns
      /\ \A c : DocumentOf(c)' = DocumentOf(c)
      /\ \A c : Checksum(DocumentOf(c))' = Checksum(DocumentOf(c))
  BY <1>2, SameRows DEF Described, Present
<1>6. undisturbed'[w] = undisturbed[w]
      /\ \A v \in Workers \ {w} : ~undisturbed'[v]
  BY <1>2, DisturbType
<1>7. \A kinds : Live(w, kinds)' => Live(w, kinds)
  BY <1>2, <1>3, <1>4, <1>6 DEF Live
<1>8. SumsOf(w)'
  BY <1>2, <1>3, <1>4, <1>5, <1>7 DEF PhaseInv, PhaseOf, SumsOf
<1>9. DocsOf(w)'
  <2> SUFFICES ASSUME Live(w, {"full"})', job'[w].client, NEW c \in Described
               PROVE  IF c \in DOMAIN job'[w].docs
                      THEN job'[w].docs[c] = DocumentOf(c)
                      ELSE points'[c] = DocumentOf(c)
    BY <1>5 DEF DocsOf
  <2>1. IF c \in DOMAIN job[w].docs
        THEN job[w].docs[c] = DocumentOf(c) ELSE points[c] = DocumentOf(c)
    BY <1>3, <1>4, <1>7 DEF PhaseInv, PhaseOf, DocsOf
  <2> QED
    BY <1>1, <1>3, <1>4, <1>5, <2>1
<1>10. CleanOf(w)'
  BY <1>3, <1>4 DEF CleanOf, Live
<1> QED
  BY <1>6, <1>8, <1>9, <1>10, NoLongerLive DEF PhaseInv, PhaseOf

(* A commit changes nothing of a row but its checksum.                      *)
LEMMA CommitRows ==
  ASSUME TypeInv, NEW w \in Workers, Commit(w)
  PROVE  /\ Present' = Present /\ Described' = Described
         /\ \A c \in Described :
              /\ DocumentOf(c)' = DocumentOf(c)
              /\ Checksum(DocumentOf(c))' = Checksum(DocumentOf(c))
              /\ rows'[c].sum = IF c \in Kept(w) THEN job[w].sums[c].sum
                                ELSE rows[c].sum
<1>1. \A c \in Columns :
        rows'[c] = IF c \in Kept(w)
                   THEN [rows[c] EXCEPT !.sum = job[w].sums[c].sum] ELSE rows[c]
  BY CommitStep
<1>2. \A c \in Present : rows[c] \in Row /\ c \in Columns
  BY PresentRow
<1>3. \A c \in Present : /\ rows'[c].covered = rows[c].covered
                         /\ rows'[c].rest = rows[c].rest
                         /\ rows'[c].sum = IF c \in Kept(w)
                                           THEN job[w].sums[c].sum
                                           ELSE rows[c].sum
  BY <1>1, <1>2 DEF Row
<1>4. Kept(w) \in SUBSET Present
  BY DEF Kept
<1>5. Present' = Present
  <2>1. \A c \in Columns : rows'[c] = Absent <=> rows[c] = Absent
    <3> TAKE c \in Columns
    <3>1. CASE c \in Kept(w)
      <4>1. rows'[c] = [rows[c] EXCEPT !.sum = job[w].sums[c].sum]
        BY <1>1, <3>1
      <4>2. TypeInv' /\ rows[c] \in Row /\ rows[c] # Absent
        BY <1>2, <1>4, <3>1, CommitStep DEF Present
      <4>3. rows'[c] \in Row
        <5>1. job[w].sums[c].sum \in Version
          <6>1. job[w].sums \in UNION {[S -> Sums] : S \in SUBSET Columns}
            BY DEF TypeInv, Job, Sums
          <6>2. job[w].sums \in [DOMAIN job[w].sums -> Sums]
            BY <6>1, HeldParts
          <6> QED
            BY <6>2, <3>1 DEF Kept, Sums
        <5> QED
          BY <4>1, <4>2, <5>1 DEF Row
      <4> QED
        BY <4>2, <4>3, AbsentAssumption
    <3>2. CASE c \notin Kept(w)
      BY <1>1, <3>2
    <3> QED
      BY <3>1, <3>2
  <2> QED
    BY <2>1 DEF Present
<1>6. Described' = Described /\ Described \in SUBSET Present
  BY <1>3, <1>5 DEF Described
<1>7. \A c \in Described : DocumentOf(c)' = DocumentOf(c)
  BY <1>3, <1>6 DEF DocumentOf
<1> QED
  BY <1>3, <1>5, <1>6, <1>7 DEF Checksum

LEMMA PhaseCommit ==
  ASSUME TypeInv, PhaseInv, NEW w \in Workers, Commit(w)
  PROVE  PhaseInv'
<1> DEFINE j == Ended(w, "ok")
<1>1. job' = [job EXCEPT ![w] = j] /\ points' = points
  BY CommitStep
<1>2. job[w].pc = "commit" /\ Disturb(w)
  BY DEF Commit
<1>3. /\ j.kind = job[w].kind /\ j.client = job[w].client
      /\ DOMAIN j.docs = {} /\ DOMAIN j.sums = {}
  BY EndedType DEF NoDocs
<1>4. /\ job'[w] = j /\ job[w].kind \in {"full", "incremental"}
      /\ DOMAIN job[w].docs = {}
  BY <1>1, <1>2 DEF TypeInv, Place
<1> HIDE DEF j
<1>5. undisturbed'[w] = undisturbed[w]
      /\ \A v \in Workers \ {w} : ~undisturbed'[v]
  BY <1>2, DisturbType
<1>6. \A kinds : Live(w, kinds)' => Live(w, kinds)
  BY <1>2, <1>3, <1>4, <1>5 DEF Live
<1>7. SumsOf(w)'
  <2> SUFFICES ASSUME Live(w, {"full", "incremental"})', NEW c \in Described
               PROVE  rows'[c].sum = Checksum(DocumentOf(c))
    BY <1>3, <1>4, CommitRows DEF SumsOf
  <2>1. IF c \in DOMAIN job[w].sums
        THEN job[w].sums[c] = [id |-> rows[c].id,
                               sum |-> Checksum(DocumentOf(c))]
        ELSE rows[c].sum = Checksum(DocumentOf(c))
    BY <1>6 DEF PhaseInv, PhaseOf, SumsOf
  <2>2. c \in Kept(w) <=> c \in DOMAIN job[w].sums
    BY <2>1 DEF Kept, Described
  <2> QED
    BY <2>1, <2>2, CommitRows
<1>8. DocsOf(w)'
  <2>1. DocsOf(w)
    BY DEF PhaseInv, PhaseOf
  <2> QED
    BY <1>1, <1>3, <1>4, <1>6, <2>1, CommitRows DEF DocsOf
<1>9. CleanOf(w)'
  BY <1>3, <1>4 DEF CleanOf, Live
<1> QED
  BY <1>5, <1>7, <1>8, <1>9, NoLongerLive DEF PhaseInv, PhaseOf

LEMMA PhaseFailed ==
  ASSUME TypeInv, PhaseInv, NEW w \in Workers, CommitFindsRowGone(w) \/ Abort(w)
  PROVE  PhaseInv'
<1>1. /\ job' = [job EXCEPT ![w] = Ended(w, "failed")]
      /\ UNCHANGED <<rows, points, edits, undisturbed>>
  BY FailedStep
<1>2. Ended(w, "failed").pc = "idle" /\ Ended(w, "failed").reply = "failed"
  BY EndedType
<1>3. job'[w] = Ended(w, "failed") /\ \A v \in Workers \ {w} : job'[v] = job[v]
  BY <1>1 DEF TypeInv
<1>4. PhaseOf(w)'
  BY <1>2, <1>3 DEF PhaseOf, SumsOf, DocsOf, CleanOf, Live
<1>5. \A v \in Workers \ {w} : PhaseOf(v)'
  BY <1>1, <1>3, Untouched DEF PhaseInv
<1> QED
  BY <1>4, <1>5 DEF PhaseInv

LEMMA PhaseScroll ==
  ASSUME TypeInv, PhaseInv, NEW w \in Workers, Scroll(w)
  PROVE  PhaseInv'
<1> DEFINE offset == NextOffset(job[w].offset)
           orphans == PageFrom(job[w].offset) \ job[w].valid
           j == Turned(w, offset, orphans)
<1>1. /\ job[w].pc = "scroll"
      /\ job' = [job EXCEPT ![w] = j]
      /\ offset \in Columns \union {0, EndOfScroll}
      /\ orphans \in SUBSET Columns /\ orphans \intersect job[w].valid = {}
      /\ UNCHANGED <<rows, points, edits, undisturbed>>
  BY ScrollStep
<1>2. \A c \in Stored : c >= job[w].offset /\ c \notin PageFrom(job[w].offset) =>
        offset # EndOfScroll /\ c >= offset
  BY NextOffsetType
<1>3. \A c \in PageFrom(job[w].offset) : c \in orphans \/ c \in job[w].valid
  OBVIOUS
<1> HIDE DEF offset, orphans
<1>4. /\ job[w].pc \in {"scroll", "delete"}
      /\ offset \in Columns \union {0, EndOfScroll}
      /\ orphans \in SUBSET Columns /\ orphans \intersect job[w].valid = {}
  BY <1>1
<1>5. IsTurned(j, w, offset, orphans)
  BY <1>4, TurnedType
<1>6. /\ j.kind = "cleanup" /\ j.client = job[w].client
      /\ IF orphans = {} /\ offset = EndOfScroll
         THEN j.pc = "idle" /\ j.reply = "ok"
         ELSE /\ j.pc = IF orphans = {} THEN "scroll" ELSE "delete"
              /\ j.offset = offset /\ j.orphans = orphans
              /\ j.valid = job[w].valid
  BY <1>5 DEF IsTurned
<1> HIDE DEF j
<1>7. /\ job'[w] = j /\ \A v \in Workers \ {w} : job'[v] = job[v]
      /\ job[w].kind = "cleanup"
      /\ job[w].orphans = {} /\ job[w].offset # EndOfScroll
  BY <1>1 DEF TypeInv, Place
<1>8. SumsOf(w)' /\ DocsOf(w)'
  BY <1>6, <1>7 DEF SumsOf, DocsOf, Live
<1>9. CleanOf(w)'
  <2>1. Present' = Present /\ Stored' = Stored
    BY <1>1, SameRows DEF Stored
  <2> SUFFICES ASSUME Live(w, {"cleanup"})', job'[w].client
               PROVE  IF job'[w].pc = "idle"
                      THEN Stored \subseteq Present
                      ELSE /\ job'[w].valid = Present
                           /\ \A c \in Stored \ Present :
                                \/ c \in job'[w].orphans
                                \/ /\ job'[w].offset # EndOfScroll
                                   /\ c >= job'[w].offset
    BY <2>1 DEF CleanOf
  <2>2. Live(w, {"cleanup"})
    BY <1>1, <1>7 DEF Live
  <2>3. /\ job[w].valid = Present
        /\ \A c \in Stored \ Present : c >= job[w].offset
    BY <1>1, <1>6, <1>7, <2>2 DEF PhaseInv, PhaseOf, CleanOf
  <2>4. \A c \in Stored \ Present :
          c \in orphans \/ (offset # EndOfScroll /\ c >= offset)
    BY <1>2, <1>3, <2>3
  <2> QED
    BY <1>6, <1>7, <2>3, <2>4
<1>10. \A v \in Workers \ {w} : PhaseOf(v)'
  BY <1>1, <1>7, Untouched DEF PhaseInv
<1> QED
  BY <1>8, <1>9, <1>10 DEF PhaseInv, PhaseOf

LEMMA PhaseDelete ==
  ASSUME TypeInv, PhaseInv, NEW w \in Workers, DeleteOrphans(w)
  PROVE  PhaseInv'
<1> DEFINE j == Turned(w, job[w].offset, {})
<1>1. /\ job[w].pc = "delete"
      /\ job' = [job EXCEPT ![w] = j]
      /\ job[w].offset \in Columns \union {0, EndOfScroll}
      /\ rows' = rows
      /\ \A c \in Columns :
           points'[c] = IF c \in job[w].orphans THEN Absent ELSE points[c]
  BY DeleteStep
<1>2. /\ j.kind = "cleanup" /\ j.client = job[w].client
      /\ IF job[w].offset = EndOfScroll
         THEN j.pc = "idle"
         ELSE /\ j.pc = "scroll" /\ j.orphans = {}
              /\ j.offset = job[w].offset /\ j.valid = job[w].valid
  <2>1. IsTurned(j, w, job[w].offset, {})
    BY <1>1, TurnedType
  <2> QED
    BY <2>1 DEF IsTurned
<1> HIDE DEF j
<1>3. job'[w] = j /\ job[w].kind = "cleanup"
  BY <1>1 DEF TypeInv, Place
<1>4. undisturbed'[w] = undisturbed[w]
      /\ \A v \in Workers \ {w} : ~undisturbed'[v]
  BY DisturbType DEF DeleteOrphans
<1>5. SumsOf(w)' /\ DocsOf(w)'
  BY <1>2, <1>3 DEF SumsOf, DocsOf, Live
<1>6. CleanOf(w)'
  <2>1. Present' = Present /\ Stored' = Stored \ job[w].orphans
    BY <1>1, SameRows DEF Stored
  <2> SUFFICES ASSUME Live(w, {"cleanup"})', job'[w].client
               PROVE  IF job'[w].pc = "idle"
                      THEN Stored' \subseteq Present
                      ELSE /\ job'[w].valid = Present
                           /\ \A c \in Stored' \ Present :
                                /\ job'[w].offset # EndOfScroll
                                /\ c >= job'[w].offset
    BY <2>1 DEF CleanOf
  <2>2. Live(w, {"cleanup"})
    BY <1>1, <1>3, <1>4 DEF Live
  <2>3. /\ job[w].valid = Present
        /\ \A c \in Stored \ Present :
             \/ c \in job[w].orphans
             \/ job[w].offset # EndOfScroll /\ c >= job[w].offset
    BY <1>1, <1>2, <1>3, <2>2 DEF PhaseInv, PhaseOf, CleanOf
  <2> QED
    BY <1>2, <1>3, <2>1, <2>3
<1> QED
  BY <1>4, <1>5, <1>6, NoLongerLive DEF PhaseInv, PhaseOf

LEMMA PhaseStep == TypeInv /\ PhaseInv /\ [Next]_vars => PhaseInv'
<1> SUFFICES ASSUME TypeInv, PhaseInv, [Next]_vars PROVE PhaseInv'
  OBVIOUS
<1>1. CASE UNCHANGED vars
  BY <1>1, Untouched DEF vars, PhaseInv
<1>2. CASE Offline
  BY <1>2, PhaseOffline
<1>3. ASSUME NEW w \in Workers, NEW client \in ClientStates,
             ReadFull(w, client) \/ ReadIncremental(w, client)
      PROVE  PhaseInv'
  BY <1>3, PhaseRead
<1>4. ASSUME NEW w \in Workers, NEW client \in ClientStates,
             ReadCleanup(w, client)
      PROVE  PhaseInv'
  BY <1>4, PhaseReadCleanup
<1>5. ASSUME NEW w \in Workers, Flush(w) PROVE PhaseInv'
  BY <1>5, PhaseFlush
<1>6. ASSUME NEW w \in Workers, Commit(w) PROVE PhaseInv'
  BY <1>6, PhaseCommit
<1>7. ASSUME NEW w \in Workers, CommitFindsRowGone(w) \/ Abort(w)
      PROVE  PhaseInv'
  BY <1>7, PhaseFailed
<1>8. ASSUME NEW w \in Workers, Scroll(w) PROVE PhaseInv'
  BY <1>8, PhaseScroll
<1>9. ASSUME NEW w \in Workers, DeleteOrphans(w) PROVE PhaseInv'
  BY <1>9, PhaseDelete
<1> QED
  BY <1>1, <1>2, <1>3, <1>4, <1>5, <1>6, <1>7, <1>8, <1>9, NextCases

(* Whatever failed syncs, crashes and races of any number of requests left  *)
(* behind: a full sync that has its client and that nothing disturbs leaves *)
(* the vector of every described column exactly as the metadata has it, and *)
(* its checksum up to date (schema_sync_service.py:77-135).                 *)
THEOREM FullSyncIsTheRepair == Spec => []FullSyncRepairs
<1>1. TypeInv /\ PhaseInv => FullSyncRepairs
  <2> SUFFICES ASSUME TypeInv, PhaseInv, NEW w \in Workers,
                      Succeeded(w, "full"), NEW c \in Described
               PROVE  /\ points[c] = DocumentOf(c)
                      /\ rows[c].sum = Checksum(DocumentOf(c))
    BY DEF FullSyncRepairs
  <2>1. /\ Live(w, {"full"}) /\ Live(w, {"full", "incremental"})
        /\ job[w].pc = "idle" /\ job[w].client
    BY DEF Succeeded, Live
  <2>2. DOMAIN job[w].docs = {} /\ DOMAIN job[w].sums = {}
    BY <2>1 DEF TypeInv, Place
  <2>3. SumsOf(w) /\ DocsOf(w)
    BY DEF PhaseInv, PhaseOf
  <2> QED
    BY <2>1, <2>2, <2>3 DEF SumsOf, DocsOf
<1> QED
  BY <1>1, TypeInit, TypeStep, PhaseInit, PhaseStep, PTL DEF Spec

(* A cleanup that has its client and that nothing disturbs leaves no vector *)
(* without a column, although it deletes from the collection it is paging   *)
(* through, for any page size and whatever other requests did before        *)
(* (schema_sync_service.py:271-292).                                        *)
THEOREM CleanupIsComplete == Spec => []CleanupLeavesNoOrphan
<1>1. TypeInv /\ PhaseInv => CleanupLeavesNoOrphan
  BY DEF CleanupLeavesNoOrphan, Succeeded, PhaseInv, PhaseOf, CleanOf, Live
<1> QED
  BY <1>1, TypeInit, TypeStep, PhaseInit, PhaseStep, PTL DEF Spec

----------------------------------------------------------------------------
(* What the checksums promise, of every column that is not suspect.         *)

Synced(c) == c \in Described /\ rows[c].sum = rows[c].covered
StoredAs(c, version) == points[c] # Absent /\ points[c].covered = version

(* What w has in hand of c cannot break the promise: a document that is     *)
(* about to overwrite a synced vector is as good, a checksum about to be    *)
(* committed has its vector or will have it, and a vector about to be       *)
(* deleted is not a synced one.                                             *)
Careful(w, c) ==
  /\ c \in DOMAIN job[w].docs =>
       /\ job[w].client
       /\ Synced(c) => job[w].docs[c].covered = rows[c].covered
  /\ c \in DOMAIN job[w].sums =>
       IF c \in DOMAIN job[w].docs
       THEN job[w].docs[c].covered = job[w].sums[c].sum
       ELSE StoredAs(c, job[w].sums[c].sum)
  /\ job[w].pc \in {"scroll", "delete"} /\ c \notin job[w].valid => ~Synced(c)

(* At most one request has c in hand.                                       *)
Alone(w, c) ==
  c \in InHand(job[w]) => \A v \in Workers \ {w} : c \notin InHand(job[v])

Sound(c) == Synced(c) => StoredAs(c, rows[c].sum)

ColumnInv(c) == Sound(c) /\ \A w \in Workers : Careful(w, c) /\ Alone(w, c)
SyncInv == \A c \in Columns \ suspect : ColumnInv(c)

(* What a request has in hand at each place.                                *)
LEMMA HandParts ==
  ASSUME NEW j, Place(j)
  PROVE  InHand(j) =
           CASE j.pc \in {"flush", "commit"} -> DOMAIN j.docs \union DOMAIN j.sums
             [] j.pc \in {"scroll", "delete"} -> Columns \ j.valid
             [] OTHER -> {}
<1>1. CASE j.pc \in {"flush", "commit"}
  BY <1>1 DEF InHand
<1>2. CASE j.pc \in {"scroll", "delete"}
  BY <1>2 DEF InHand, Place
<1>3. CASE j.pc \notin {"flush", "commit", "scroll", "delete"}
  BY <1>3 DEF InHand, Place
<1> QED
  BY <1>1, <1>2, <1>3

(* Whoever does not have a column in hand does it no harm.                  *)
LEMMA NotInHand ==
  ASSUME NEW w, NEW c \in Columns, c \notin InHand(job'[w])
  PROVE  Careful(w, c)'
BY DEF Careful, InHand

(* A column that neither becomes synced nor loses its vector.               *)
LEMMA StillSound ==
  ASSUME NEW c, Sound(c), points'[c] = points[c],
         Synced(c)' => Synced(c) /\ rows'[c].covered = rows[c].covered
  PROVE  Sound(c)'
BY DEF Sound, Synced, StoredAs

LEMMA StillCareful ==
  ASSUME NEW w, NEW c, Careful(w, c), job'[w] = job[w], points'[c] = points[c],
         Synced(c)' => Synced(c) /\ rows'[c].covered = rows[c].covered
  PROVE  Careful(w, c)'
BY DEF Careful, StoredAs

LEMMA StillAlone ==
  ASSUME TypeInv, NEW w \in Workers, NEW j, job' = [job EXCEPT ![w] = j],
         NEW c, c \in InHand(j) => c \in InHand(job[w]),
         \A v \in Workers : Alone(v, c)
  PROVE  \A v \in Workers : Alone(v, c)'
<1>1. job'[w] = j /\ \A v \in Workers \ {w} : job'[v] = job[v]
  BY DEF TypeInv
<1>2. \A v \in Workers : c \in InHand(job'[v]) => c \in InHand(job[v])
  BY <1>1
<1> QED
  BY <1>2 DEF Alone

(* A step of w that leaves a column's row and vector alone.                 *)
LEMMA ColumnUntouched ==
  ASSUME TypeInv, NEW w \in Workers, NEW j, job' = [job EXCEPT ![w] = j],
         NEW c, ColumnInv(c), c \in InHand(j) => c \in InHand(job[w]),
         points'[c] = points[c],
         Synced(c)' => Synced(c) /\ rows'[c].covered = rows[c].covered,
         Careful(w, c)'
  PROVE  ColumnInv(c)'
<1>1. \A v \in Workers \ {w} : job'[v] = job[v]
  BY DEF TypeInv
<1>2. \A v \in Workers : Careful(v, c)'
  BY <1>1, StillCareful DEF ColumnInv
<1>3. \A v \in Workers : Alone(v, c)'
  BY StillAlone DEF ColumnInv
<1>4. Sound(c)'
  BY StillSound DEF ColumnInv
<1> QED
  BY <1>2, <1>3, <1>4 DEF ColumnInv

(* A step of w on a column it has in hand, and hence nobody else.           *)
LEMMA ColumnInHand ==
  ASSUME TypeInv, NEW w \in Workers, NEW j, job' = [job EXCEPT ![w] = j],
         NEW c \in Columns, ColumnInv(c), c \in InHand(job[w]),
         Sound(c)', Careful(w, c)'
  PROVE  ColumnInv(c)'
<1>1. \A v \in Workers \ {w} : job'[v] = job[v] /\ c \notin InHand(job[v])
  BY DEF TypeInv, ColumnInv, Alone
<1>2. \A v \in Workers : Careful(v, c)'
  BY <1>1, NotInHand
<1>3. \A v \in Workers : Alone(v, c)'
  BY StillAlone DEF ColumnInv
<1> QED
  BY <1>2, <1>3 DEF ColumnInv

LEMMA SyncInit == Init => SyncInv
<1> SUFFICES ASSUME Init, NEW c \in Columns PROVE ColumnInv(c)
  BY DEF SyncInv
<1>1. ~Synced(c)
  BY DEF Init, Synced, Described, Present
<1>2. \A w \in Workers : /\ job[w] = NewJob /\ InHand(NewJob) = {}
                         /\ NewJob.pc = "idle"
                         /\ DOMAIN NewJob.docs = {} /\ DOMAIN NewJob.sums = {}
  BY NewJobType DEF Init, NewJob, InHand
<1> QED
  BY <1>1, <1>2 DEF ColumnInv, Sound, Careful, Alone

(* An edit gives a row no checksum it did not have.                         *)
LEMMA EditedSums ==
  ASSUME TypeInv, Offline, NEW c \in Columns,
         rows'[c] # Absent, rows'[c].sum # Unset
  PROVE  rows[c] # Absent /\ rows'[c].sum = rows[c].sum
<1>1. rows \in [Columns -> Row \union {Absent}]
  BY DEF TypeInv
<1>2. ASSUME rows'[c].sum = rows[c].sum, c \in Present
      PROVE  rows[c] # Absent /\ rows'[c].sum = rows[c].sum
  BY <1>2 DEF Present
<1>3. CASE Describe
  <2>1. c \in Present /\ rows[c] \in Row
    BY <1>3, PresentRow DEF Describe
  <2> QED
    BY <1>2, <1>3, <2>1 DEF Describe, Row
<1>4. ASSUME NEW d \in Columns, Reindex(d)
      PROVE  rows[c] # Absent /\ rows'[c].sum = rows[c].sum
  <2>1. CASE d # c
    <3>1. rows'[c] = rows[c]
      BY <1>1, <1>4, <2>1 DEF Reindex
    <3> QED
      BY <3>1
  <2>2. CASE d = c
    <3>1. CASE rows' = [rows EXCEPT ![c] = [id |-> edits + 1, covered |-> Unset,
                                           rest |-> edits + 1, sum |-> Unset]]
      BY <1>1, <3>1
    <3>2. ASSUME c \in Described, NEW version,
                 rows' = [rows EXCEPT ![c].covered = version]
          PROVE  rows[c] # Absent /\ rows'[c].sum = rows[c].sum
      <4>1. c \in Present /\ rows[c] \in Row
        BY <3>2, PresentRow DEF Described
      <4> QED
        BY <1>1, <1>2, <3>2, <4>1 DEF Row
    <3>3. CASE c \in Present /\ rows' = [rows EXCEPT ![c].rest = edits + 1]
      <4>1. rows[c] \in Row
        BY <3>3, PresentRow
      <4> QED
        BY <1>1, <1>2, <3>3, <4>1 DEF Row
    <3> QED
      BY <1>4, <2>2, <3>1, <3>2, <3>3 DEF Reindex
  <2> QED
    BY <2>1, <2>2
<1>5. ASSUME NEW found \in SUBSET Columns, ForceRefresh(found)
      PROVE  rows[c] # Absent /\ rows'[c].sum = rows[c].sum
  BY <1>5 DEF ForceRefresh
<1> QED
  BY <1>3, <1>4, <1>5 DEF Offline

LEMMA SyncOffline ==
  ASSUME TypeInv, SyncInv, Offline
  PROVE  SyncInv'
<1>1. Edit
  BY DEF Offline, Describe, Reindex, ForceRefresh
<1>2. /\ job' = job /\ points' = points
      /\ suspect' = suspect \union {c \in Columns : TextReturns(c)}
  BY <1>1 DEF Edit
<1> SUFFICES ASSUME NEW c \in Columns \ suspect' PROVE ColumnInv(c)'
  BY DEF SyncInv
<1>3. c \notin suspect /\ ~TextReturns(c)
  BY <1>2
<1>4. ColumnInv(c)
  BY <1>3 DEF SyncInv
<1>5. Synced(c)' => Synced(c) /\ rows'[c].covered = rows[c].covered
  <2> SUFFICES ASSUME Synced(c)'
               PROVE  Synced(c) /\ rows'[c].covered = rows[c].covered
    OBVIOUS
  <2>1. /\ rows'[c] # Absent /\ rows'[c].sum # Unset
        /\ rows'[c].covered = rows'[c].sum
    BY DEF Synced, Described, Present
  <2>2. rows[c] # Absent /\ rows'[c].sum = rows[c].sum
    BY <2>1, EditedSums
  <2>3. rows[c].covered = rows[c].sum
    BY <1>3, <2>1, <2>2 DEF TextReturns
  <2> QED
    BY <2>1, <2>2, <2>3 DEF Synced, Described, Present
<1>6. \A w \in Workers : Careful(w, c)'
  BY <1>2, <1>4, <1>5, StillCareful DEF ColumnInv
<1>7. \A w \in Workers : Alone(w, c)'
  BY <1>2, <1>4 DEF ColumnInv, Alone
<1> QED
  BY <1>2, <1>4, <1>5, <1>6, <1>7, StillSound DEF ColumnInv

(* A request that has read the metadata shares no column it has in hand     *)
(* with another, nor is without a client, except where it makes it suspect. *)
LEMMA AloneAfterRead ==
  ASSUME TypeInv, SyncInv, NEW w \in Workers, NEW j,
         job' = [job EXCEPT ![w] = j], Overlap(w),
         NEW c \in Columns \ suspect'
  PROVE  /\ ColumnInv(c)
         /\ c \in InHand(j) => j.client
         /\ \A v \in Workers : Alone(v, c)'
<1>1. job'[w] = j /\ \A v \in Workers \ {w} : job'[v] = job[v]
  BY DEF TypeInv
<1>2. ColumnInv(c)
  BY DEF SyncInv, Overlap
<1>3. c \in InHand(j) => /\ j.client
                         /\ \A v \in Workers \ {w} : c \notin InHand(job[v])
  BY <1>1 DEF Overlap
<1>4. \A v \in Workers : Alone(v, c)'
  BY <1>1, <1>2, <1>3 DEF ColumnInv, Alone
<1> QED
  BY <1>2, <1>3, <1>4

(* What a read leaves to show: that the new request is careful.             *)
LEMMA ColumnRead ==
  ASSUME TypeInv, NEW w \in Workers, NEW j, job' = [job EXCEPT ![w] = j],
         rows' = rows, points' = points, NEW c, ColumnInv(c),
         Careful(w, c)', \A v \in Workers : Alone(v, c)'
  PROVE  ColumnInv(c)'
<1>1. \A v \in Workers \ {w} : job'[v] = job[v]
  BY DEF TypeInv
<1>2. Synced(c)' => Synced(c) /\ rows'[c].covered = rows[c].covered
  BY SameRows DEF Synced
<1>3. \A v \in Workers : Careful(v, c)'
  BY <1>1, <1>2, StillCareful DEF ColumnInv
<1> QED
  BY <1>2, <1>3, StillSound DEF ColumnInv

LEMMA SyncRead ==
  ASSUME TypeInv, SyncInv, NEW w \in Workers, NEW client \in ClientStates,
         ReadFull(w, client) \/ ReadIncremental(w, client)
  PROVE  SyncInv'
<1>1. PICK kind \in {"full", "incremental"}, selected \in SUBSET Described :
        /\ TypeInv'
        /\ job' = [job EXCEPT ![w] = Started(kind, client, selected)]
        /\ UNCHANGED <<rows, points, edits>>
  BY ReadStep
<1> DEFINE j == Started(kind, client, selected)
<1>2. job'[w] = j /\ Overlap(w)
  BY <1>1 DEF TypeInv, ReadFull, ReadIncremental
<1>3. client \in BOOLEAN
  BY SyncAssumption
<1>4. /\ j.client = client
      /\ j.pc = (IF selected = {} THEN "idle" ELSE "flush")
      /\ DOMAIN j.docs = selected
      /\ \A c \in selected : j.docs[c] = DocumentOf(c)
      /\ DOMAIN j.sums = {d \in selected : Changed(d)}
      /\ \A c \in DOMAIN j.sums :
           j.sums[c] = [id |-> rows[c].id, sum |-> Checksum(DocumentOf(c))]
  BY <1>3, StartedType
<1> HIDE DEF j
<1> SUFFICES ASSUME NEW c \in Columns \ suspect' PROVE ColumnInv(c)'
  BY DEF SyncInv
<1>5. ColumnInv(c) /\ (c \in InHand(j) => j.client)
      /\ \A v \in Workers : Alone(v, c)'
  BY <1>1, <1>2, AloneAfterRead DEF j
<1>6. Careful(w, c)'
  <2>1. c \in selected =>
          /\ j.client /\ DocumentOf(c).covered = rows[c].covered
          /\ Checksum(DocumentOf(c)) = rows[c].covered
    BY <1>4, <1>5 DEF InHand, DocumentOf, Checksum
  <2>2. c \in DOMAIN j.sums =>
          c \in selected /\ j.sums[c].sum = rows[c].covered
    <3> SUFFICES ASSUME c \in DOMAIN j.sums
                 PROVE  c \in selected /\ j.sums[c].sum = rows[c].covered
      OBVIOUS
    <3>1. c \in selected
      BY <1>4
    <3>2. j.sums[c] = [id |-> rows[c].id, sum |-> Checksum(DocumentOf(c))]
      BY <1>4
    <3> QED
      BY <2>1, <3>1, <3>2
  <2> QED
    BY <1>1, <1>2, <1>4, <2>1, <2>2 DEF Careful
<1> QED
  BY <1>1, <1>5, <1>6, ColumnRead DEF j

LEMMA SyncReadCleanup ==
  ASSUME TypeInv, SyncInv,
         NEW w \in Workers, NEW client \in ClientStates, ReadCleanup(w, client)
  PROVE  SyncInv'
<1> DEFINE j == CleanupJob(client)
<1>1. /\ job' = [job EXCEPT ![w] = j] /\ TypeInv'
      /\ j.pc = (IF client THEN "scroll" ELSE "idle")
      /\ j.valid = (IF client THEN Present ELSE {})
  BY ReadCleanupStep
<1>2. DOMAIN j.docs = {} /\ DOMAIN j.sums = {}
  BY NewJobType DEF CleanupJob, NewJob
<1> HIDE DEF j
<1>3. job'[w] = j /\ rows' = rows /\ points' = points /\ Overlap(w)
  BY <1>1 DEF TypeInv, ReadCleanup
<1> SUFFICES ASSUME NEW c \in Columns \ suspect' PROVE ColumnInv(c)'
  BY DEF SyncInv
<1>4. ColumnInv(c) /\ \A v \in Workers : Alone(v, c)'
  BY <1>1, <1>3, AloneAfterRead
<1>5. Careful(w, c)'
  <2>1. c \notin Present => ~Synced(c)'
    BY <1>3, SameRows DEF Synced, Described
  <2> QED
    BY <1>1, <1>2, <1>3, <2>1 DEF Careful
<1> QED
  BY <1>1, <1>3, <1>4, <1>5, ColumnRead

LEMMA SyncFlush ==
  ASSUME TypeInv, SyncInv, NEW w \in Workers, Flush(w)
  PROVE  SyncInv'
<1>1. PICK chunk \in SUBSET DOMAIN job[w].docs :
        /\ job' = [job EXCEPT ![w] = Flushed(w, chunk)]
        /\ \A c \in Columns :
             points'[c] = IF job[w].client /\ c \in chunk
                          THEN job[w].docs[c] ELSE points[c]
  BY FlushStep
<1> DEFINE j == Flushed(w, chunk)
           left == DOMAIN job[w].docs \ chunk
<1>2. /\ job[w].pc = "flush" /\ rows' = rows /\ suspect' = suspect
      /\ Place(job[w])
  BY DEF Flush, TypeInv
<1>3. /\ Place(j) /\ j.client = job[w].client /\ j.sums = job[w].sums
      /\ j.pc \in {"flush", "commit"}
      /\ DOMAIN j.docs = left /\ \A c \in left : j.docs[c] = job[w].docs[c]
  BY <1>2, FlushedType
<1>4. job'[w] = j
  BY <1>1 DEF TypeInv
<1> HIDE DEF j
<1>5. \A c \in DOMAIN job[w].docs : job[w].docs[c] # Absent
  <2>1. job[w].docs \in UNION {[S -> Document] : S \in SUBSET Columns}
    BY DEF TypeInv, Job
  <2>2. \A c \in DOMAIN job[w].docs : job[w].docs[c] \in Document
    BY <2>1, HeldParts
  <2> QED
    BY <2>2, AbsentAssumption
<1> SUFFICES ASSUME NEW c \in Columns \ suspect PROVE ColumnInv(c)'
  BY <1>2 DEF SyncInv
<1>6. ColumnInv(c) /\ Careful(w, c)
  BY DEF SyncInv, ColumnInv
<1>7. Synced(c)' = Synced(c) /\ rows'[c] = rows[c]
  BY <1>2, SameRows DEF Synced
<1>8. c \in InHand(j) => c \in InHand(job[w])
  BY <1>2, <1>3, HandParts
<1>9. Careful(w, c)'
  <2>1. c \in DOMAIN j.docs =>
          j.client /\ (Synced(c) => j.docs[c].covered = rows[c].covered)
    BY <1>3, <1>6 DEF Careful
  <2>2. c \in DOMAIN j.sums =>
          IF c \in DOMAIN j.docs
          THEN j.docs[c].covered = j.sums[c].sum
          ELSE points'[c] # Absent /\ points'[c].covered = j.sums[c].sum
    BY <1>1, <1>3, <1>5, <1>6 DEF Careful, StoredAs
  <2> QED
    BY <1>3, <1>4, <1>7, <2>1, <2>2 DEF Careful, StoredAs
<1>10. CASE c \in chunk
  <2>1. /\ points'[c] = job[w].docs[c] /\ points'[c] # Absent
        /\ Synced(c) => points'[c].covered = rows[c].covered
    BY <1>1, <1>5, <1>6, <1>10 DEF Careful
  <2>2. Sound(c)'
    BY <1>7, <2>1 DEF Sound, Synced, StoredAs
  <2>3. c \in InHand(job[w])
    BY <1>10 DEF InHand
  <2> QED
    BY <1>1, <1>6, <1>9, <2>2, <2>3, ColumnInHand DEF j
<1>11. CASE c \notin chunk
  <2>1. points'[c] = points[c]
    BY <1>1, <1>11
  <2> QED
    BY <1>1, <1>6, <1>7, <1>8, <1>9, <2>1, ColumnUntouched DEF j
<1> QED
  BY <1>10, <1>11

(* An undisturbed full sync with a client has stored what it read.          *)
LEMMA FullCommitStored ==
  ASSUME TypeInv, PhaseInv, NEW w \in Workers, Commit(w),
         undisturbed[w], job[w].client, job[w].kind = "full",
         NEW c \in Described
  PROVE  points[c] # Absent /\ points[c].covered = rows[c].covered
<1>1. job[w].pc = "commit" /\ DOMAIN job[w].docs = {} /\ Live(w, {"full"})
  BY DEF Commit, TypeInv, Place, Live
<1>2. points[c] = DocumentOf(c)
  BY <1>1 DEF PhaseInv, PhaseOf, DocsOf
<1>3. DocumentOf(c) \in Document /\ DocumentOf(c).covered = rows[c].covered
  BY PresentRow DEF Described, DocumentOf
<1> QED
  BY <1>2, <1>3, AbsentAssumption

LEMMA SyncCommit ==
  ASSUME TypeInv, PhaseInv, SyncInv, NEW w \in Workers, Commit(w)
  PROVE  SyncInv'
<1> DEFINE j == Ended(w, "ok")
<1>1. job' = [job EXCEPT ![w] = j] /\ points' = points /\ TypeInv'
  BY CommitStep
<1>2. job[w].pc = "commit" /\ DOMAIN job[w].docs = {} /\ Clear(w)
  BY DEF Commit, TypeInv, Place
<1>3. Place(j) /\ j.pc = "idle"
  BY EndedType
<1>4. InHand(j) = {}
  BY <1>3, HandParts
<1>5. job'[w] = j /\ \A v \in Workers \ {w} : job'[v] = job[v]
  BY <1>1 DEF TypeInv
<1> HIDE DEF j
<1> SUFFICES ASSUME NEW c \in Columns \ suspect' PROVE ColumnInv(c)'
  BY DEF SyncInv
<1>6. Careful(w, c)'
  BY <1>4, <1>5, NotInHand
<1>7. /\ c \in Described' <=> c \in Described
      /\ c \in Described =>
           /\ rows'[c].covered = rows[c].covered
           /\ rows'[c].sum = IF c \in Kept(w) THEN job[w].sums[c].sum
                             ELSE rows[c].sum
  BY CommitRows, PresentRow, <1>1 DEF DocumentOf, Checksum
<1>8. CASE c \in suspect
  <2>1. /\ undisturbed[w] /\ job[w].client /\ job[w].kind = "full"
        /\ \A v \in Workers \ {w} : c \notin InHand(job[v])
    BY <1>2, <1>8 DEF Clear
  <2>2. \A v \in Workers : c \notin InHand(job'[v])
    BY <1>4, <1>5, <2>1
  <2>3. \A v \in Workers : Careful(v, c)' /\ Alone(v, c)'
    BY <2>2, NotInHand DEF Alone
  <2>4. Sound(c)'
    <3> SUFFICES ASSUME Synced(c)'
                 PROVE  points[c] # Absent /\ points[c].covered = rows'[c].sum
      BY <1>1 DEF Sound, StoredAs
    <3>1. c \in Described /\ rows'[c].sum = rows[c].covered
      BY <1>7 DEF Synced
    <3> QED
      BY <2>1, <3>1, FullCommitStored
  <2> QED
    BY <2>3, <2>4 DEF ColumnInv
<1>9. CASE c \notin suspect
  <2>1. ColumnInv(c) /\ Careful(w, c)
    BY <1>9 DEF SyncInv, ColumnInv
  <2>2. CASE c \in Kept(w)
    <3>1. c \in DOMAIN job[w].sums /\ c \in InHand(job[w])
      BY <2>2 DEF Kept, InHand
    <3>2. points[c] # Absent /\ points[c].covered = job[w].sums[c].sum
      BY <1>2, <2>1, <3>1 DEF Careful, StoredAs
    <3>3. Sound(c)'
      BY <1>1, <1>7, <2>2, <3>2 DEF Sound, Synced, StoredAs
    <3> QED
      BY <1>1, <1>6, <2>1, <3>1, <3>3, ColumnInHand
  <2>3. CASE c \notin Kept(w)
    <3>1. Synced(c)' => Synced(c) /\ rows'[c].covered = rows[c].covered
      BY <1>7, <2>3 DEF Synced
    <3> QED
      BY <1>1, <1>4, <1>6, <2>1, <3>1, ColumnUntouched
  <2> QED
    BY <2>2, <2>3
<1> QED
  BY <1>8, <1>9

LEMMA SyncFailed ==
  ASSUME TypeInv, SyncInv, NEW w \in Workers, CommitFindsRowGone(w) \/ Abort(w)
  PROVE  SyncInv'
<1> DEFINE j == Ended(w, "failed")
<1>1. /\ job' = [job EXCEPT ![w] = j]
      /\ UNCHANGED <<rows, points, edits>>
  BY FailedStep
<1>2. suspect' = suspect
  BY DEF CommitFindsRowGone, Abort
<1>3. Place(j) /\ j.pc = "idle"
  BY EndedType
<1>4. InHand(j) = {}
  BY <1>3, HandParts
<1>5. job'[w] = j
  BY <1>1 DEF TypeInv
<1> HIDE DEF j
<1> SUFFICES ASSUME NEW c \in Columns \ suspect PROVE ColumnInv(c)'
  BY <1>2 DEF SyncInv
<1>6. ColumnInv(c)
  BY DEF SyncInv
<1>7. Careful(w, c)'
  BY <1>4, <1>5, NotInHand
<1>8. Synced(c)' => Synced(c) /\ rows'[c].covered = rows[c].covered
  BY <1>1, SameRows DEF Synced
<1> QED
  BY <1>1, <1>4, <1>6, <1>7, <1>8, ColumnUntouched

(* A turn of the cleanup's loop takes nothing into its hands.               *)
LEMMA TurnedHand ==
  ASSUME TypeInv, NEW w \in Workers, job[w].pc \in {"scroll", "delete"},
         NEW offset \in Columns \union {0, EndOfScroll},
         NEW orphans \in SUBSET Columns, orphans \intersect job[w].valid = {}
  PROVE  LET j == Turned(w, offset, orphans)
         IN /\ Place(j) /\ DOMAIN j.docs = {} /\ DOMAIN j.sums = {}
            /\ j.pc = "idle" \/ j.valid = job[w].valid
            /\ InHand(j) \subseteq InHand(job[w])
<1> DEFINE j == Turned(w, offset, orphans)
<1>1. /\ Place(j) /\ j.pc \in {"idle", "scroll", "delete"}
      /\ j.pc # "idle" => j.valid = job[w].valid
  <2>1. IsTurned(j, w, offset, orphans)
    BY TurnedType
  <2> QED
    BY <2>1 DEF IsTurned
<1> HIDE DEF j
<1>2. DOMAIN j.docs = {} /\ DOMAIN j.sums = {}
  BY <1>1 DEF Place
<1>3. Place(job[w])
  BY DEF TypeInv
<1>4. InHand(j) \subseteq InHand(job[w])
  BY <1>1, <1>3, HandParts
<1> QED
  BY <1>1, <1>2, <1>4 DEF j

LEMMA SyncScroll ==
  ASSUME TypeInv, SyncInv, NEW w \in Workers, Scroll(w)
  PROVE  SyncInv'
<1> DEFINE offset == NextOffset(job[w].offset)
           orphans == PageFrom(job[w].offset) \ job[w].valid
<1>1. /\ job[w].pc \in {"scroll", "delete"}
      /\ job' = [job EXCEPT ![w] = Turned(w, offset, orphans)]
      /\ offset \in Columns \union {0, EndOfScroll}
      /\ orphans \in SUBSET Columns /\ orphans \intersect job[w].valid = {}
      /\ rows' = rows /\ points' = points
  BY ScrollStep
<1> HIDE DEF offset, orphans
<1> DEFINE j == Turned(w, offset, orphans)
<1>2. /\ DOMAIN j.docs = {} /\ DOMAIN j.sums = {}
      /\ j.pc = "idle" \/ j.valid = job[w].valid
      /\ InHand(j) \subseteq InHand(job[w])
  BY <1>1, TurnedHand
<1>3. job' = [job EXCEPT ![w] = j] /\ job'[w] = j
  BY <1>1 DEF TypeInv
<1> HIDE DEF j
<1>4. suspect' = suspect
  BY DEF Scroll
<1> SUFFICES ASSUME NEW c \in Columns \ suspect PROVE ColumnInv(c)'
  BY <1>4 DEF SyncInv
<1>5. ColumnInv(c) /\ Careful(w, c)
  BY DEF SyncInv, ColumnInv
<1>6. Synced(c)' = Synced(c) /\ rows'[c] = rows[c]
  BY <1>1, SameRows DEF Synced
<1>7. Careful(w, c)'
  BY <1>1, <1>2, <1>3, <1>5, <1>6 DEF Careful
<1> QED
  BY <1>1, <1>2, <1>3, <1>5, <1>6, <1>7, ColumnUntouched

LEMMA SyncDelete ==
  ASSUME TypeInv, SyncInv, NEW w \in Workers, DeleteOrphans(w)
  PROVE  SyncInv'
<1> DEFINE j == Turned(w, job[w].offset, {})
<1>1. /\ job[w].pc = "delete"
      /\ job' = [job EXCEPT ![w] = j]
      /\ job[w].offset \in Columns \union {0, EndOfScroll}
      /\ rows' = rows
      /\ \A c \in Columns :
           points'[c] = IF c \in job[w].orphans THEN Absent ELSE points[c]
  BY DeleteStep
<1>2. /\ DOMAIN j.docs = {} /\ DOMAIN j.sums = {}
      /\ j.pc = "idle" \/ j.valid = job[w].valid
      /\ InHand(j) \subseteq InHand(job[w])
  BY <1>1, TurnedHand
<1>3. job'[w] = j /\ suspect' = suspect
  BY <1>1 DEF TypeInv, DeleteOrphans
<1> HIDE DEF j
<1> SUFFICES ASSUME NEW c \in Columns \ suspect PROVE ColumnInv(c)'
  BY <1>3 DEF SyncInv
<1>4. ColumnInv(c) /\ Careful(w, c)
  BY DEF SyncInv, ColumnInv
<1>5. Synced(c)' = Synced(c) /\ rows'[c] = rows[c]
  BY <1>1, SameRows DEF Synced
<1>6. Careful(w, c)'
  BY <1>1, <1>2, <1>3, <1>4, <1>5 DEF Careful
<1>7. CASE c \in job[w].orphans
  <2>1. c \notin job[w].valid
    BY <1>7 DEF TypeInv, Shape
  <2>2. ~Synced(c)' /\ c \in InHand(job[w])
    BY <1>1, <1>4, <1>5, <2>1 DEF Careful, InHand
  <2>3. Sound(c)'
    BY <2>2 DEF Sound
  <2> QED
    BY <1>1, <1>4, <1>6, <2>2, <2>3, ColumnInHand
<1>8. CASE c \notin job[w].orphans
  <2>1. points'[c] = points[c]
    BY <1>1, <1>8
  <2> QED
    BY <1>1, <1>2, <1>4, <1>5, <1>6, <2>1, ColumnUntouched
<1> QED
  BY <1>7, <1>8

LEMMA SyncStep == TypeInv /\ PhaseInv /\ SyncInv /\ [Next]_vars => SyncInv'
<1> SUFFICES ASSUME TypeInv, PhaseInv, SyncInv, [Next]_vars PROVE SyncInv'
  OBVIOUS
<1>1. CASE UNCHANGED vars
  BY <1>1 DEF vars, SyncInv, ColumnInv, Sound, Careful, Alone, Synced, StoredAs,
              Described, Present
<1>2. CASE Offline
  BY <1>2, SyncOffline
<1>3. ASSUME NEW w \in Workers, NEW client \in ClientStates,
             ReadFull(w, client) \/ ReadIncremental(w, client)
      PROVE  SyncInv'
  BY <1>3, SyncRead
<1>4. ASSUME NEW w \in Workers, NEW client \in ClientStates,
             ReadCleanup(w, client)
      PROVE  SyncInv'
  BY <1>4, SyncReadCleanup
<1>5. ASSUME NEW w \in Workers, Flush(w) PROVE SyncInv'
  BY <1>5, SyncFlush
<1>6. ASSUME NEW w \in Workers, Commit(w) PROVE SyncInv'
  BY <1>6, SyncCommit
<1>7. ASSUME NEW w \in Workers, CommitFindsRowGone(w) \/ Abort(w)
      PROVE  SyncInv'
  BY <1>7, SyncFailed
<1>8. ASSUME NEW w \in Workers, Scroll(w) PROVE SyncInv'
  BY <1>8, SyncScroll
<1>9. ASSUME NEW w \in Workers, DeleteOrphans(w) PROVE SyncInv'
  BY <1>9, SyncDelete
<1> QED
  BY <1>1, <1>2, <1>3, <1>4, <1>5, <1>6, <1>7, <1>8, <1>9, NextCases

LEMMA SoundMeans == SyncInv => SyncedColumnsAreStored
BY DEF SyncInv, ColumnInv, Sound, Synced, StoredAs, SyncedColumnsAreStored,
       Described, Present, Checksum, DocumentOf

(* With any number of sync requests at once, failing wherever they may,     *)
(* clients or none, edits at any point and texts that may return: a column  *)
(* whose checksum says it is synced has a vector made from the contents the *)
(* checksum covers (schema_sync_service.py:175), unless since an            *)
(* undisturbed full sync last wrote it two requests had it in hand at once, *)
(* one without a client had it, or its text returned to an earlier wording. *)
THEOREM ChecksumsKeepTheirPromise == Spec => []SyncedColumnsAreStored
BY SoundMeans, TypeInit, TypeStep, PhaseInit, PhaseStep, SyncInit, SyncStep,
   PTL DEF Spec

(* Under the same circumstances: an incremental sync that nothing disturbs  *)
(* brings every described column up to date, those included that a failed   *)
(* sync had left half done, with the same three exceptions                  *)
(* (schema_sync_service.py:173-214).                                        *)
THEOREM IncrementalSyncIsEnough == Spec => []IncrementalSyncSuffices
<1>1. TypeInv /\ PhaseInv /\ SyncInv => IncrementalSyncSuffices
  <2> SUFFICES ASSUME TypeInv, PhaseInv, SyncInv, NEW w \in Workers,
                      Succeeded(w, "incremental"), NEW c \in Described \ suspect
               PROVE  /\ points[c] # Absent
                      /\ Checksum(points[c]) = Checksum(DocumentOf(c))
    BY DEF IncrementalSyncSuffices
  <2>1. Live(w, {"full", "incremental"}) /\ job[w].pc = "idle"
    BY DEF Succeeded, Live
  <2>2. DOMAIN job[w].sums = {}
    BY <2>1 DEF TypeInv, Place
  <2>3. rows[c].sum = Checksum(DocumentOf(c))
    BY <2>1, <2>2 DEF PhaseInv, PhaseOf, SumsOf
  <2> QED
    BY <2>3, SoundMeans DEF SyncedColumnsAreStored
<1> QED
  BY <1>1, TypeInit, TypeStep, PhaseInit, PhaseStep, SyncInit, SyncStep,
     PTL DEF Spec

----------------------------------------------------------------------------
(* Every request gets closer to its end.                                    *)

LEMMA AheadFinite ==
  ASSUME NEW offset
  PROVE  /\ IsFiniteSet(Ahead(offset)) /\ Cardinality(Ahead(offset)) \in Nat
         /\ Cardinality(Ahead(offset)) <= Cardinality(Columns)
         /\ Cardinality(Columns) \in Nat
<1>1. Ahead(offset) \subseteq Columns /\ IsFiniteSet(Columns)
  BY SyncAssumption DEF Ahead
<1> QED
  BY <1>1, FS_Subset, FS_CardinalityType

(* The next page starts behind the least column that is in this one.        *)
LEMMA ScrollMovesOn ==
  ASSUME TypeInv, NEW offset \in Columns \union {0}
  PROVE  /\ Cardinality(Ahead(NextOffset(offset))) <= Cardinality(Ahead(offset))
         /\ NextOffset(offset) # EndOfScroll \/ PageFrom(offset) # {} =>
              Cardinality(Ahead(NextOffset(offset))) < Cardinality(Ahead(offset))
<1> DEFINE next == NextOffset(offset)
           ahead == {c \in Stored : c >= offset}
           Before(c) == {d \in ahead : d < c}
           after == ahead \ PageFrom(offset)
<1>0. PageFrom(offset) = {c \in ahead : Cardinality(Before(c)) < PageSize}
  BY Zenon DEF PageFrom
<1>1. /\ offset \in Nat /\ offset # EndOfScroll /\ Columns \subseteq Nat
      /\ ahead \in SUBSET Nat /\ ahead \subseteq Columns
      /\ \A c \in ahead : c >= offset
  <2>1. offset \in Nat /\ Columns \subseteq Nat /\ Stored \subseteq Columns
    BY SyncAssumption DEF Stored
  <2>2. offset # EndOfScroll
    BY <2>1 DEF EndOfScroll
  <2> QED
    BY <2>1, <2>2
<1>2. next = IF after = {} THEN EndOfScroll ELSE Min(after)
  BY DEF NextOffset
<1>3. PageFrom(offset) \subseteq ahead
  BY DEF PageFrom
<1> HIDE DEF next, ahead, after
<1>4. CASE ahead = {}
  <2>1. next = EndOfScroll /\ PageFrom(offset) = {}
    BY <1>2, <1>3, <1>4 DEF after
  <2>2. Ahead(next) \subseteq Ahead(offset)
    BY <2>1 DEF Ahead
  <2>3. Cardinality(Ahead(next)) <= Cardinality(Ahead(offset))
    BY <2>2, AheadFinite, FS_Subset
  <2> QED
    BY <2>1, <2>3 DEF next
<1>5. CASE ahead # {}
  <2> DEFINE first == Min(ahead)
  <2>1. first \in ahead /\ \A c \in ahead : first <= c
    BY <1>1, <1>5, LeastNat
  <2>2. first \in Nat /\ first >= offset /\ first \in Columns
    BY <1>1, <2>1
  <2> HIDE DEF first
  <2>3. first \in PageFrom(offset)
    <3>1. Before(first) = {}
      <4> SUFFICES ASSUME NEW d \in ahead, d < first PROVE FALSE
        OBVIOUS
      <4> QED
        BY <1>1, <2>1, <2>2
    <3> HIDE DEF Before
    <3>2. Cardinality(Before(first)) < PageSize
      BY <3>1, FS_EmptySet, SyncAssumption
    <3> QED
      BY <1>0, <2>1, <3>2
  <2>4. next = EndOfScroll \/ (next \in Nat /\ next > first)
    <3>1. CASE after = {}
      BY <1>2, <3>1
    <3>2. CASE after # {}
      <4>1. Min(after) \in after
        <5>1. after \in SUBSET Nat
          BY <1>1 DEF after
        <5> QED
          BY <3>2, <5>1, LeastNat
      <4>2. next \in ahead /\ next # first
        BY <1>2, <3>2, <4>1, <2>3 DEF after
      <4> QED
        BY <4>2, <1>1, <2>1, <2>2
    <3> QED
      BY <3>1, <3>2
  <2>5. Ahead(next) \subseteq Ahead(offset)
    <3> SUFFICES ASSUME NEW c \in Columns, next # EndOfScroll, c >= next
                 PROVE  c >= offset
      BY <1>1 DEF Ahead
    <3> QED
      BY <1>1, <2>2, <2>4
  <2>6. first \in Ahead(offset) /\ first \notin Ahead(next)
    BY <1>1, <2>2, <2>4 DEF Ahead
  <2>7. Cardinality(Ahead(next)) < Cardinality(Ahead(offset))
    <3>1. /\ IsFiniteSet(Ahead(offset)) /\ Cardinality(Ahead(offset)) \in Nat
          /\ Cardinality(Ahead(next)) \in Nat
      BY AheadFinite
    <3>2. Cardinality(Ahead(next)) <= Cardinality(Ahead(offset))
      BY <2>5, <3>1, FS_Subset
    <3>3. Cardinality(Ahead(next)) # Cardinality(Ahead(offset))
      BY <2>5, <2>6, <3>1, FS_Subset
    <3> QED
      BY <3>1, <3>2, <3>3
  <2>8. Cardinality(Ahead(next)) \in Nat /\ Cardinality(Ahead(offset)) \in Nat
    BY AheadFinite
  <2> QED
    BY <2>7, <2>8 DEF next
<1> QED
  BY <1>4, <1>5

LEMMA TurnedIsJob ==
  ASSUME TypeInv, NEW w \in Workers, job[w].pc \in {"scroll", "delete"},
         NEW offset \in Columns \union {0, EndOfScroll},
         NEW orphans \in SUBSET Columns, orphans \intersect job[w].valid = {}
  PROVE  Turned(w, offset, orphans) \in Job
<1>1. IsTurned(Turned(w, offset, orphans), w, offset, orphans)
  BY TurnedType
<1> QED
  BY <1>1 DEF IsTurned

LEMMA TurnedLeaves ==
  ASSUME TypeInv, NEW w \in Workers, job[w].pc \in {"scroll", "delete"},
         NEW offset \in Columns \union {0, EndOfScroll},
         NEW orphans \in SUBSET Columns, orphans \intersect job[w].valid = {}
  PROVE  StepsLeft(Turned(w, offset, orphans)) <=
           IF orphans = {} /\ offset = EndOfScroll THEN 0
           ELSE 2 * Cardinality(Ahead(offset)) + (IF orphans = {} THEN 1 ELSE 2)
<1>0. IsTurned(Turned(w, offset, orphans), w, offset, orphans)
  BY TurnedType
<1> DEFINE j == Turned(w, offset, orphans)
<1>1. IF orphans = {} /\ offset = EndOfScroll
      THEN j.pc = "idle"
      ELSE j.pc = (IF orphans = {} THEN "scroll" ELSE "delete") /\ j.offset = offset
  BY <1>0 DEF IsTurned
<1> HIDE DEF j
<1>2. Cardinality(Ahead(offset)) \in Nat
  BY AheadFinite
<1>3. StepsLeft(j) <= IF orphans = {} /\ offset = EndOfScroll THEN 0
           ELSE 2 * Cardinality(Ahead(offset)) + (IF orphans = {} THEN 1 ELSE 2)
  BY <1>1, <1>2 DEF StepsLeft
<1> QED
  BY <1>3 DEF j

LEMMA FlushGetsCloser ==
  ASSUME TypeInv, NEW w \in Workers, job[w].pc = "flush",
         NEW chunk \in SUBSET DOMAIN job[w].docs,
         Cardinality(chunk) = Min({ChunkSize, Cardinality(DOMAIN job[w].docs)})
  PROVE  StepsLeft(Flushed(w, chunk)) < StepsLeft(job[w])
<1> DEFINE docs == DOMAIN job[w].docs
           left == docs \ chunk
           j == Flushed(w, chunk)
<1>1. docs \subseteq Columns /\ docs # {}
  <2>1. job[w].docs \in UNION {[S -> Document] : S \in SUBSET Columns} /\ Shape(job[w])
    BY DEF TypeInv, Job
  <2> QED
    BY <2>1, HeldParts DEF Shape
<1>2. j.pc = (IF left = {} THEN "commit" ELSE "flush") /\ DOMAIN j.docs = left
  BY FlushedType
<1> HIDE DEF j, docs
<1>3. /\ IsFiniteSet(docs) /\ Cardinality(docs) \in Nat /\ Cardinality(docs) # 0
  BY <1>1, SyncAssumption, FS_Subset, FS_CardinalityType, FS_EmptySet
<1>4. IsFiniteSet(chunk) /\ Cardinality(chunk) \in Nat /\ Cardinality(chunk) # 0
  <2>1. {ChunkSize, Cardinality(docs)} \in SUBSET (Nat \ {0})
    BY <1>3, SyncAssumption
  <2>2. Min({ChunkSize, Cardinality(docs)}) \in Nat \ {0}
    BY <2>1, LeastNat
  <2>3. Cardinality(chunk) = Min({ChunkSize, Cardinality(docs)})
    BY DEF docs
  <2> QED
    BY <2>2, <2>3, <1>3, FS_Subset DEF docs
<1>5. left \subseteq docs /\ left # docs
  <2>1. chunk # {} /\ chunk \subseteq docs
    BY <1>4, FS_EmptySet DEF docs
  <2> QED
    BY <2>1
<1>6. IsFiniteSet(left) /\ Cardinality(left) \in Nat
      /\ Cardinality(left) < Cardinality(docs)
  <2>1. IsFiniteSet(left) /\ Cardinality(left) \in Nat
        /\ Cardinality(left) <= Cardinality(docs)
        /\ Cardinality(left) # Cardinality(docs)
    BY <1>3, <1>5, FS_Subset, FS_CardinalityType
  <2> QED
    BY <1>3, <2>1
<1>7. StepsLeft(job[w]) = Cardinality(docs) + 1
  BY DEF StepsLeft, docs
<1>8. StepsLeft(j) <= Cardinality(left) + 1
  BY <1>2, <1>6 DEF StepsLeft
<1>9. StepsLeft(j) \in Nat
  BY <1>2, <1>6 DEF StepsLeft
<1> QED
  BY <1>3, <1>6, <1>7, <1>8, <1>9 DEF j

(* A new request has as many steps to take as the scroll of all columns.    *)
LEMMA StartIsBounded ==
  ASSUME TypeInv, NEW w \in Workers, NEW j,
         \/ /\ j.pc = "flush" /\ DOMAIN j.docs \subseteq Columns
         \/ j.pc = "idle"
         \/ j.pc = "scroll"
  PROVE  StepsLeft(j) <= 2 * Cardinality(Columns) + 1
<1>1. Cardinality(Columns) \in Nat /\ IsFiniteSet(Columns)
  BY AheadFinite, SyncAssumption
<1>2. CASE j.pc = "flush" /\ DOMAIN j.docs \subseteq Columns
  <2>1. Cardinality(DOMAIN j.docs) \in Nat
        /\ Cardinality(DOMAIN j.docs) <= Cardinality(Columns)
    BY <1>1, <1>2, FS_Subset, FS_CardinalityType
  <2> QED
    BY <1>1, <1>2, <2>1 DEF StepsLeft
<1>3. CASE j.pc = "idle"
  BY <1>1, <1>3 DEF StepsLeft
<1>4. CASE j.pc = "scroll"
  BY <1>1, <1>4, AheadFinite DEF StepsLeft
<1> QED
  BY <1>2, <1>3, <1>4

LEMMA StepsAreNat ==
  ASSUME NEW j \in Job
  PROVE  StepsLeft(j) \in Nat /\ (j.pc # "idle" => StepsLeft(j) > 0)
<1>1. j.pc \in {"idle", "flush", "commit", "scroll", "delete"}
      /\ DOMAIN j.docs \subseteq Columns
  <2>1. j.docs \in UNION {[S -> Document] : S \in SUBSET Columns}
        /\ j.pc \in {"idle", "flush", "commit", "scroll", "delete"}
    BY DEF Job
  <2> QED
    BY <2>1, HeldParts
<1>2. Cardinality(DOMAIN j.docs) \in Nat
  BY <1>1, SyncAssumption, FS_Subset, FS_CardinalityType
<1>3. Cardinality(Ahead(j.offset)) \in Nat
  BY AheadFinite
<1> QED
  BY <1>1, <1>2, <1>3 DEF StepsLeft

GetsCloser(w) ==
  job'[w] # job[w] =>
    IF job[w].pc = "idle"
    THEN StepsLeft(job'[w]) <= 2 * Cardinality(Columns) + 1
    ELSE StepsLeft(job'[w]) < StepsLeft(job[w])

(* What the step of one request does to all of them.                        *)
LEMMA OwnStepOnly ==
  ASSUME TypeInv, NEW w \in Workers, NEW j, job' = [job EXCEPT ![w] = j],
         IF job[w].pc = "idle"
         THEN StepsLeft(j) <= 2 * Cardinality(Columns) + 1
         ELSE StepsLeft(j) < StepsLeft(job[w])
  PROVE  \A v \in Workers : GetsCloser(v)
<1>1. job'[w] = j /\ \A v \in Workers \ {w} : job'[v] = job[v]
  BY DEF TypeInv
<1> QED
  BY <1>1 DEF GetsCloser

LEMMA EndingGetsCloser ==
  ASSUME TypeInv, NEW w \in Workers, NEW reply \in {"none", "ok", "failed"},
         job[w].pc # "idle"
  PROVE  StepsLeft(Ended(w, reply)) < StepsLeft(job[w])
<1>1. Ended(w, reply).pc = "idle"
  BY EndedType
<1>2. StepsLeft(Ended(w, reply)) = 0
  BY <1>1 DEF StepsLeft
<1>3. job[w] \in Job
  BY DEF TypeInv
<1> QED
  BY <1>2, <1>3, StepsAreNat

LEMMA EveryStepGetsCloser ==
  ASSUME TypeInv, [Next]_vars
  PROVE  \A w \in Workers : GetsCloser(w)
<1>1. CASE UNCHANGED job
  BY <1>1 DEF GetsCloser
<1>2. CASE Offline
  BY <1>1, <1>2 DEF Offline, Describe, Reindex, ForceRefresh, Edit
<1>3. ASSUME NEW w \in Workers, NEW client \in ClientStates,
             ReadFull(w, client) \/ ReadIncremental(w, client)
      PROVE  \A v \in Workers : GetsCloser(v)
  <2>1. PICK kind \in {"full", "incremental"}, selected \in SUBSET Described :
          job' = [job EXCEPT ![w] = Started(kind, client, selected)]
    BY <1>3, ReadStep
  <2> DEFINE j == Started(kind, client, selected)
  <2>2. client \in BOOLEAN /\ selected \subseteq Columns /\ job[w].pc = "idle"
    BY <1>3, SyncAssumption DEF Described, Present, ReadFull, ReadIncremental
  <2>3. /\ j.pc = IF selected = {} THEN "idle" ELSE "flush"
        /\ DOMAIN j.docs = selected
    BY <2>2, StartedType
  <2> HIDE DEF j
  <2>4. StepsLeft(j) <= 2 * Cardinality(Columns) + 1
    BY <2>2, <2>3, StartIsBounded
  <2> QED
    BY <2>1, <2>2, <2>4, OwnStepOnly DEF j
<1>4. ASSUME NEW w \in Workers, NEW client \in ClientStates,
             ReadCleanup(w, client)
      PROVE  \A v \in Workers : GetsCloser(v)
  <2>1. /\ job' = [job EXCEPT ![w] = CleanupJob(client)]
        /\ CleanupJob(client).pc = IF client THEN "scroll" ELSE "idle"
    BY <1>4, ReadCleanupStep
  <2>2. StepsLeft(CleanupJob(client)) <= 2 * Cardinality(Columns) + 1
    BY <2>1, StartIsBounded
  <2>3. job[w].pc = "idle"
    BY <1>4 DEF ReadCleanup
  <2> QED
    BY <2>1, <2>2, <2>3, OwnStepOnly
<1>5. ASSUME NEW w \in Workers, Flush(w) PROVE \A v \in Workers : GetsCloser(v)
  <2>1. PICK chunk \in SUBSET DOMAIN job[w].docs :
          /\ Cardinality(chunk) = Min({ChunkSize, Cardinality(DOMAIN job[w].docs)})
          /\ job' = [job EXCEPT
               ![w].docs = Restrict(job[w].docs, DOMAIN job[w].docs \ chunk),
               ![w].pc = IF Drained(DOMAIN job[w].docs \ chunk)
                         THEN "commit" ELSE "flush"]
    BY <1>5 DEF Flush
  <2>2. job' = [job EXCEPT ![w] = Flushed(w, chunk)]
    BY <2>1 DEF Flushed, Drained, TypeInv
  <2>3. job[w].pc = "flush"
    BY <1>5 DEF Flush
  <2>4. StepsLeft(Flushed(w, chunk)) < StepsLeft(job[w])
    BY <2>1, <2>3, FlushGetsCloser
  <2> QED
    BY <2>2, <2>3, <2>4, OwnStepOnly
<1>6. ASSUME NEW w \in Workers, Commit(w) PROVE \A v \in Workers : GetsCloser(v)
  <2>1. job' = [job EXCEPT ![w] = Ended(w, "ok")]
    BY <1>6, CommitStep
  <2>2. job[w].pc = "commit"
    BY <1>6 DEF Commit
  <2> QED
    BY <2>1, <2>2, EndingGetsCloser, OwnStepOnly
<1>7. ASSUME NEW w \in Workers, CommitFindsRowGone(w) \/ Abort(w)
      PROVE  \A v \in Workers : GetsCloser(v)
  <2>1. job' = [job EXCEPT ![w] = Ended(w, "failed")]
    BY <1>7, FailedStep
  <2>2. job[w].pc # "idle"
    BY <1>7 DEF CommitFindsRowGone, Abort
  <2> QED
    BY <2>1, <2>2, EndingGetsCloser, OwnStepOnly
<1>8. ASSUME NEW w \in Workers, Scroll(w) PROVE \A v \in Workers : GetsCloser(v)
  <2> DEFINE here == job[w].offset
             offset == NextOffset(here)
             orphans == PageFrom(here) \ job[w].valid
  <2>1. /\ job[w].pc = "scroll"
        /\ job' = [job EXCEPT ![w] = Turned(w, offset, orphans)]
        /\ offset \in Columns \union {0, EndOfScroll}
        /\ orphans \in SUBSET Columns /\ orphans \intersect job[w].valid = {}
    BY <1>8, ScrollStep
  <2>2. here \in Columns \union {0}
    BY <2>1 DEF TypeInv, Job, Place
  <2>3. orphans # {} => PageFrom(here) # {}
    OBVIOUS
  <2>4. /\ offset # EndOfScroll \/ orphans # {} =>
             Cardinality(Ahead(offset)) < Cardinality(Ahead(here))
        /\ Cardinality(Ahead(offset)) \in Nat /\ Cardinality(Ahead(here)) \in Nat
    BY <2>2, <2>3, ScrollMovesOn, AheadFinite
  <2> HIDE DEF here, offset, orphans
  <2>5. StepsLeft(Turned(w, offset, orphans)) <=
           IF orphans = {} /\ offset = EndOfScroll THEN 0
           ELSE 2 * Cardinality(Ahead(offset)) + (IF orphans = {} THEN 1 ELSE 2)
    BY <2>1, TurnedLeaves
  <2>6. StepsLeft(job[w]) = 2 * Cardinality(Ahead(here)) + 1
    BY <2>1 DEF StepsLeft, here
  <2>7. Turned(w, offset, orphans) \in Job
    BY <2>1, TurnedIsJob
  <2>8. StepsLeft(Turned(w, offset, orphans)) \in Nat
    BY <2>7, StepsAreNat
  <2>9. StepsLeft(Turned(w, offset, orphans)) < StepsLeft(job[w])
    BY <2>4, <2>5, <2>6, <2>8
  <2> QED
    BY <2>1, <2>9, OwnStepOnly
<1>9. ASSUME NEW w \in Workers, DeleteOrphans(w) PROVE \A v \in Workers : GetsCloser(v)
  <2> DEFINE offset == job[w].offset
  <2>1. /\ job[w].pc = "delete"
        /\ job' = [job EXCEPT ![w] = Turned(w, offset, {})]
        /\ offset \in Columns \union {0, EndOfScroll}
    BY <1>9, DeleteStep
  <2>2. Cardinality(Ahead(offset)) \in Nat
    BY AheadFinite
  <2>3. StepsLeft(Turned(w, offset, {})) <=
          IF offset = EndOfScroll THEN 0 ELSE 2 * Cardinality(Ahead(offset)) + 1
    BY <2>1, TurnedLeaves
  <2>4. StepsLeft(job[w]) = 2 * Cardinality(Ahead(offset)) + 2
    BY <2>1 DEF StepsLeft
  <2>5. StepsLeft(Turned(w, offset, {})) \in Nat
    <3>1. {} \in SUBSET Columns /\ {} \intersect job[w].valid = {}
      OBVIOUS
    <3>2. Turned(w, offset, {}) \in Job
      BY <2>1, <3>1, TurnedIsJob
    <3> QED
      BY <3>2, StepsAreNat
  <2>6. StepsLeft(Turned(w, offset, {})) < StepsLeft(job[w])
    BY <2>2, <2>3, <2>4, <2>5
  <2> QED
    BY <2>1, <2>6, OwnStepOnly
<1> QED
  BY <1>1, <1>2, <1>3, <1>4, <1>5, <1>6, <1>7, <1>8, <1>9, NextCases DEF vars

(* For any number of requests, columns and edits: a request takes at most   *)
(* two steps for each column and one more, and none of them is spent in     *)
(* going back, whatever the others do (schema_sync_service.py:271-292).     *)
THEOREM RequestsAreBounded == Spec => RequestsGetCloser
<1>1. TypeInv /\ [Next]_vars =>
        [\A w \in Workers : job'[w] # job[w] =>
           IF job[w].pc = "idle"
           THEN StepsLeft(job'[w]) <= 2 * Cardinality(Columns) + 1
           ELSE StepsLeft(job'[w]) < StepsLeft(job[w])]_vars
  BY EveryStepGetsCloser DEF GetsCloser
<1> QED
  BY <1>1, TypeInit, TypeStep, PTL DEF Spec, RequestsGetCloser

=============================================================================
