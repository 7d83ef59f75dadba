--------------------------- MODULE CatalogProofs ---------------------------
(***************************************************************************)
(* Theorems about Catalog, for any number of seed commands, problems and     *)
(* files.  SeedInv is the inductive invariant: what each open transaction      *)
(* knows, holds and will leave, beside what is committed.                    *)
(***************************************************************************)
EXTENDS Catalog, FiniteSetTheorems, NaturalsInduction, WellFoundedInduction, TLAPS

-----------------------------------------------------------------------------
(* The shape of the state *)

Batches == [by : Seeds \cup {Absent}, file : SeedFiles]
RowSet  == [Fields -> FieldValues]
Patch   == UNION {[X -> FieldValues] : X \in SUBSET Fields}
Patches == UNION {[D -> Patch] : D \in SUBSET Problems}
Sinces  == UNION {[D -> Nat] : D \in SUBSET Problems}
Txn ==
    [stage : Stages, dir : Seq(SeedFiles), at : Nat, read : RowSet \cup {Absent},
     snap : SUBSET Batches, sets : Patches,
     gone : [languages : SUBSET Batches, cases : SUBSET Batches],
     mine : SUBSET Batches, since : Sinces]
Entry == [by : Seeds \cup {Absent}, dir : Seq(SeedFiles), since : Sinces]

Shape ==
    /\ row \in [Problems -> RowSet \cup {Absent}]
    /\ langs \in [Problems -> SUBSET Batches]
    /\ cases \in [Problems -> SUBSET Batches]
    /\ log \in Seq(Entry)
    /\ txn \in [Seeds -> Txn]

-----------------------------------------------------------------------------
(* What each open transaction knows, holds and will leave *)

Active(s)  == txn[s].stage \notin {"idle", "done"}
Done(s, p) == Active(s) /\ \E i \in 1..txn[s].at - 1 : txn[s].dir[i].slug = p
Here(s, p) == Active(s) /\ txn[s].stage # "commit" /\ Slug(s) = p
Waits(s)   == txn[s].stage \in {"languages wait", "cases wait"}
Deleting(s) == txn[s].stage \in {"languages", "languages wait", "cases", "cases wait"}

\* A directory is worked through only when it has been checked, file by file.
Position(s) ==
    Active(s) =>
        /\ LoadProblemFiles(txn[s].dir)
        /\ txn[s].at \in 1..Len(txn[s].dir) + 1
        /\ (txn[s].stage = "commit") = (txn[s].at = Len(txn[s].dir) + 1)
        /\ txn[s].mine = {Batch(s, txn[s].dir[i]) : i \in 1..txn[s].at - 1}

\* Nothing is written outside a transaction.
NothingHeld(s) ==
    ~Active(s) => /\ txn[s].sets = <<>> /\ txn[s].mine = {} /\ txn[s].at = 0
                  /\ txn[s].gone["languages"] = {} /\ txn[s].gone["cases"] = {}

\* A transaction deletes and writes only what is about the files it has come to.
DeletesItsOwn(s) ==
    /\ \A table \in {"languages", "cases"} : \A b \in txn[s].gone[table] :
         Done(s, b.file.slug) \/ Here(s, b.file.slug)
    /\ Waits(s) => \A b \in txn[s].snap : b.file.slug = Slug(s)

SetsItsOwn(s) ==
    \A p \in DOMAIN txn[s].sets :
        /\ Done(s, p) \/ Here(s, p)
        /\ \A x \in DOMAIN txn[s].sets[p] : txn[s].sets[p][x] = FileOf(txn[s].dir, p)[x]

\* A problem whose batch it has inserted has no other left, and a row or one to come.
Emptied(s) ==
    \A p \in Problems : Done(s, p) =>
        langs[p] \subseteq txn[s].gone["languages"] /\ cases[p] \subseteq txn[s].gone["cases"]

RowToCome(s) ==
    /\ \A p \in Problems :
         Done(s, p) \/ (Here(s, p) /\ txn[s].stage = "insert") =>
             row[p] # Absent \/ (p \in DOMAIN txn[s].sets /\ DOMAIN txn[s].sets[p] = Fields)
    /\ Deleting(s) \/ txn[s].stage = "update" => row[Slug(s)] # Absent

\* Nobody has committed the problem since this transaction read it.
Quiet(s, p) == \A i \in txn[s].since[p] + 1..Len(log) : p \notin SlugsOf(log[i].dir)

Reached(s, p) == Done(s, p) \/ (Here(s, p) /\ txn[s].stage # "read")
Merged(s, p) == Done(s, p) \/ (Here(s, p) /\ (Deleting(s) \/ txn[s].stage = "insert"))

KnowsSince(s) ==
    \A p \in Problems : Reached(s, p) =>
        p \in DOMAIN txn[s].since /\ txn[s].since[p] <= Len(log)

\* What is not in its UPDATE is in the row already, unless somebody has committed the problem since.
ReadStill(s) ==
    txn[s].stage = "update" /\ Quiet(s, Slug(s)) => txn[s].read = row[Slug(s)]

RestIsThere(s) ==
    \A p \in Problems : Merged(s, p) /\ row[p] # Absent /\ Quiet(s, p) =>
        \A x \in Fields : \/ row[p][x] = FileOf(txn[s].dir, p)[x]
                          \/ p \in DOMAIN txn[s].sets /\ x \in DOMAIN txn[s].sets[p]

Holding(s) ==
    /\ Position(s) /\ NothingHeld(s) /\ DeletesItsOwn(s) /\ SetsItsOwn(s)
    /\ Emptied(s) /\ RowToCome(s) /\ KnowsSince(s) /\ ReadStill(s) /\ RestIsThere(s)

\* The locks: no two transactions have written one row or deleted one batch.
Apart(s, t) ==
    /\ DOMAIN txn[s].sets \cap DOMAIN txn[t].sets = {}
    /\ \A table \in {"languages", "cases"} : txn[s].gone[table] \cap txn[t].gone[table] = {}

-----------------------------------------------------------------------------
(* What is committed *)

LatestFile(p) == FileOf(log[Latest(p)].dir, p)

Committed(p) ==
    /\ Names(p) = {} => row[p] = Absent /\ langs[p] = {} /\ cases[p] = {}
    /\ Names(p) # {} =>
         /\ row[p] # Absent
         /\ langs[p] = {Batch(log[Latest(p)].by, LatestFile(p))}
         /\ cases[p] = langs[p]
         /\ log[Latest(p)].by = Absent \/ ~Overlapped(p) => row[p] = Metadata(LatestFile(p))

Logged ==
    \A i \in DOMAIN log :
        /\ LoadProblemFiles(log[i].dir)
        /\ log[i].by # Absent =>
             \A p \in SlugsOf(log[i].dir) : p \in DOMAIN log[i].since /\ log[i].since[p] < i

SeedInv ==
    /\ Shape
    /\ \A s \in Seeds : Holding(s)
    /\ \A s, t \in Seeds : s # t => Apart(s, t)
    /\ \A p \in Problems : Committed(p)
    /\ Logged

-----------------------------------------------------------------------------
(* What a reader has seen *)

Langs == UNION {Offered(f) : f \in SeedFiles}
Load ==
    [stage : {"idle", "queued", "languages", "cases", "loaded", "over"},
     slug : Problems \cup {Absent}, lang : Langs \cup {Absent}, mode : {"run", "submit", Absent},
     since : Nat, row : RowSet \cup {Absent}, from : Nat,
     langs : SeedFiles \cup {Absent}, cases : SeedFiles \cup {Absent}, to : Nat]

\* Somebody has committed the problem after place a of the log and up to b.
Replaced(p, a, b) == \E i \in a + 1..b : p \in SlugsOf(log[i].dir)

Asked(p) ==
    /\ Names(p) # {}
    /\ load.since <= Len(log) /\ load.from <= Len(log) /\ load.to <= Len(log)

OfferedWhenAsked(p) ==
    load.stage \in {"queued", "languages"} =>
        Replaced(p, load.since, Len(log)) \/ load.lang \in Offered(LatestFile(p))

LanguagesRead(p) ==
    load.stage = "cases" =>
        /\ \E i \in Names(p) : load.langs = FileOf(log[i].dir, p)
        /\ Replaced(p, load.from, Len(log)) \/ load.langs = LatestFile(p)
        /\ Replaced(p, load.since, Len(log)) \/ load.lang \in Offered(load.langs)

AllRead(p) ==
    load.stage \in {"loaded", "over"} =>
        /\ \E i, j \in Names(p) :
             i <= j /\ load.langs = FileOf(log[i].dir, p) /\ load.cases = FileOf(log[j].dir, p)
        /\ Replaced(p, load.from, load.to) \/ load.langs = load.cases
        /\ Replaced(p, load.since, load.to) \/ load.lang \in Offered(load.langs)

Reading(p) == Asked(p) /\ OfferedWhenAsked(p) /\ LanguagesRead(p) /\ AllRead(p)

ReadInv ==
    /\ load \in Load
    /\ load.stage # "idle" => load.slug \in Problems
    /\ \A p \in Problems : load.stage # "idle" /\ load.slug = p => Reading(p)

-----------------------------------------------------------------------------
(* The model's operators *)

LEMMA PutIs ==
    ASSUME NEW k, NEW v, NEW g
    PROVE  /\ DOMAIN Put(k, v, g) = DOMAIN g \cup {k}
           /\ Put(k, v, g)[k] = v
           /\ \A x \in DOMAIN g : x # k => Put(k, v, g)[x] = g[x]
BY DEF Put, Over

LEMMA PutType ==
    ASSUME NEW P, NEW S, NEW g \in UNION {[D -> S] : D \in SUBSET P}, NEW k \in P, NEW v \in S
    PROVE  Put(k, v, g) \in UNION {[D -> S] : D \in SUBSET P}
<1>1. PICK D \in SUBSET P : g \in [D -> S]
    OBVIOUS
<1>2. Put(k, v, g) \in [D \cup {k} -> S]
    BY <1>1 DEF Put, Over
<1>3. D \cup {k} \in SUBSET P
    OBVIOUS
<1> QED
    BY <1>2, <1>3

LEMMA EmptyMap == ASSUME NEW P, NEW S PROVE <<>> \in UNION {[D -> S] : D \in SUBSET P}
<1>1. <<>> \in [{} -> S]
    OBVIOUS
<1> QED
    BY <1>1

\* A set of places has a first one.
LEMMA Least ==
    ASSUME NEW T \in SUBSET Nat, T # {}
    PROVE  \E m \in T : \A y \in T : m <= y
<1>1. PICK m \in T : \A y \in T : ~(<<y, m>> \in OpToRel(<, Nat))
    BY NatLessThanWellFounded, WFMin
<1>2. \A y \in T : m <= y
  <2>1. SUFFICES ASSUME NEW y \in T PROVE m <= y
      OBVIOUS
  <2>2. y \in Nat /\ m \in Nat
      OBVIOUS
  <2>3. ~(y < m)
      BY <1>1, <2>2 DEF OpToRel
  <2> QED
      BY <2>2, <2>3
<1> QED
    BY <1>2

\* A set of places in a sequence has a last one.
LEMMA Greatest ==
    ASSUME NEW n \in Nat, NEW S \in SUBSET (1..n), S # {}
    PROVE  \E i \in S : \A j \in S : j <= i
<1> DEFINE T == {n - j : j \in S}
<1>1. T \in SUBSET Nat /\ T # {}
  <2>1. \A j \in S : n - j \in Nat
      OBVIOUS
  <2> QED
      BY <2>1
<1>3. PICK m \in T : \A y \in T : m <= y
    BY <1>1, Least
<1>4. PICK i \in S : m = n - i
    OBVIOUS
<1> HIDE DEF T
<1>5. \A j \in S : n - j \in T
    BY DEF T
<1>6. \A j \in S : j <= i
    BY <1>3, <1>4, <1>5
<1> QED
    BY <1>6

\* FileOf finds a file of that slug, and the one when there is only one.
LEMMA FileOfIt ==
    ASSUME NEW dir, NEW i \in DOMAIN dir,
           \A j, k \in DOMAIN dir : dir[j].slug = dir[k].slug => j = k
    PROVE  FileOf(dir, dir[i].slug) = dir[i]
<1> DEFINE f == FileOf(dir, dir[i].slug)
<1>1. dir[i] \in Range(dir)
    BY DEF Range
<1>2. f \in Range(dir) /\ f.slug = dir[i].slug
    BY <1>1 DEF FileOf
<1>3. PICK k \in DOMAIN dir : f = dir[k]
    BY <1>2 DEF Range
<1>4. k = i
    BY <1>2, <1>3
<1> QED
    BY <1>3, <1>4

LEMMA FileOfAny ==
    ASSUME NEW dir, NEW p \in SlugsOf(dir)
    PROVE  FileOf(dir, p) \in Range(dir) /\ FileOf(dir, p).slug = p
BY DEF FileOf, SlugsOf

\* The file a transaction is at.
LEMMA AtFile ==
    ASSUME Shape, NEW s \in Seeds, Position(s), Active(s), txn[s].stage # "commit"
    PROVE  /\ txn[s].at \in 1..Len(txn[s].dir)
           /\ File(s) \in SeedFiles
           /\ Slug(s) \in Problems
           /\ FileOf(txn[s].dir, Slug(s)) = File(s)
<1>1. txn[s] \in Txn
    BY DEF Shape
<1>2. txn[s].dir \in Seq(SeedFiles)
    BY <1>1 DEF Txn
<1>3. txn[s].at \in 1..Len(txn[s].dir)
    BY <1>2 DEF Position
<1>4. File(s) \in SeedFiles
    BY <1>2, <1>3 DEF File
<1>5. Slug(s) \in Problems
    BY <1>4, SetupAssumption DEF Slug
<1>6. \A j, k \in DOMAIN txn[s].dir : txn[s].dir[j].slug = txn[s].dir[k].slug => j = k
    BY DEF Position, LoadProblemFiles
<1>7. FileOf(txn[s].dir, Slug(s)) = File(s)
    BY <1>2, <1>3, <1>6, FileOfIt DEF Slug, File
<1> QED
    BY <1>3, <1>4, <1>5, <1>7

LEMMA MetadataType == ASSUME NEW f \in SeedFiles PROVE Metadata(f) \in RowSet
BY DEF Metadata, RowSet, FieldValues

-----------------------------------------------------------------------------
(* The steps of a transaction, field by field *)

\* Everything but these fields of s's transaction stays.
Kept(s, fields) ==
    /\ txn' \in [Seeds -> Txn]
    /\ \A t \in Seeds \ {s} : txn'[t] = txn[t]
    /\ "stage" \in fields \/ txn'[s].stage = txn[s].stage
    /\ "dir"   \in fields \/ txn'[s].dir = txn[s].dir
    /\ "at"    \in fields \/ txn'[s].at = txn[s].at
    /\ "read"  \in fields \/ txn'[s].read = txn[s].read
    /\ "snap"  \in fields \/ txn'[s].snap = txn[s].snap
    /\ "sets"  \in fields \/ txn'[s].sets = txn[s].sets
    /\ "gone"  \in fields \/ txn'[s].gone = txn[s].gone
    /\ "mine"  \in fields \/ txn'[s].mine = txn[s].mine
    /\ "since" \in fields \/ txn'[s].since = txn[s].since

LEMMA NewTxn ==
    ASSUME Shape, NEW s \in Seeds, NEW r \in Txn, txn' = [txn EXCEPT ![s] = r]
    PROVE  /\ txn' \in [Seeds -> Txn]
           /\ \A t \in Seeds \ {s} : txn'[t] = txn[t]
           /\ txn'[s] = r
BY DEF Shape

LEMMA StartStep ==
    ASSUME Shape, NEW s \in Seeds, StartSeed(s)
    PROVE  /\ Kept(s, {"stage", "at"})
           /\ txn'[s].stage = "read" /\ txn'[s].at = 1
<1> DEFINE r == [txn[s] EXCEPT !.stage = "read", !.at = 1]
<1>1. txn[s] \in Txn
    BY DEF Shape
<1>2. r \in Txn
    BY <1>1 DEF Txn, Stages
<1>3. txn' = [txn EXCEPT ![s] = r]
    BY DEF StartSeed, Shape
<1>4. /\ txn' \in [Seeds -> Txn]
      /\ \A t \in Seeds \ {s} : txn'[t] = txn[t]
      /\ txn'[s] = r
    BY <1>2, <1>3, NewTxn
<1> QED
    BY <1>1, <1>4 DEF Kept, Txn

LEMMA ReadStep ==
    ASSUME Shape, NEW s \in Seeds, Position(s), ReadProblem(s)
    PROVE  /\ Kept(s, {"stage", "read", "since"})
           /\ txn'[s].stage = IF row[Slug(s)] = Absent THEN "create" ELSE "update"
           /\ txn'[s].read = row[Slug(s)]
           /\ txn'[s].since = Put(Slug(s), Len(log), txn[s].since)
<1>1. Slug(s) \in Problems
    BY AtFile DEF ReadProblem, Active
<1>2. txn[s] \in Txn /\ Len(log) \in Nat /\ row[Slug(s)] \in RowSet \cup {Absent}
    BY <1>1 DEF Shape
<1>3. Put(Slug(s), Len(log), txn[s].since) \in Sinces
    BY <1>1, <1>2, PutType DEF Txn, Sinces
<1> DEFINE r == [txn[s] EXCEPT !.read = row[Slug(s)], !.since = Put(Slug(s), Len(log), @),
                             !.stage = IF row[Slug(s)] = Absent THEN "create" ELSE "update"]
<1>4. txn[s] \in Txn
    BY DEF Shape
<1>5. r \in Txn
    BY <1>4, <1>2, <1>3 DEF Txn, Stages
<1>6. txn' = [txn EXCEPT ![s] = r]
    BY DEF ReadProblem, Shape
<1>7. /\ txn' \in [Seeds -> Txn]
      /\ \A t \in Seeds \ {s} : txn'[t] = txn[t]
      /\ txn'[s] = r
    BY <1>5, <1>6, NewTxn
<1> QED
    BY <1>4, <1>7 DEF Kept, Txn

LEMMA CreateStep ==
    ASSUME Shape, NEW s \in Seeds, Position(s), CreateProblem(s)
    PROVE  /\ Kept(s, {"stage", "sets"})
           /\ txn'[s].stage = "insert"
           /\ txn'[s].sets = Put(Slug(s), Metadata(File(s)), txn[s].sets)
<1>1. Slug(s) \in Problems /\ File(s) \in SeedFiles
    BY AtFile DEF CreateProblem, Active
<1>2. Metadata(File(s)) \in Patch
    BY <1>1, MetadataType DEF RowSet, Patch
<1>3. Put(Slug(s), Metadata(File(s)), txn[s].sets) \in Patches
    BY <1>1, <1>2, PutType DEF Txn, Patches, Shape
<1> DEFINE r == [txn[s] EXCEPT !.sets = Put(Slug(s), Metadata(File(s)), @), !.stage = "insert"]
<1>4. txn[s] \in Txn
    BY DEF Shape
<1>5. r \in Txn
    BY <1>4, <1>3 DEF Txn, Stages
<1>6. txn' = [txn EXCEPT ![s] = r]
    BY DEF CreateProblem, Shape
<1>7. /\ txn' \in [Seeds -> Txn]
      /\ \A t \in Seeds \ {s} : txn'[t] = txn[t]
      /\ txn'[s] = r
    BY <1>5, <1>6, NewTxn
<1> QED
    BY <1>4, <1>7 DEF Kept, Txn

\* What UpdateProblem makes of the attributes that are to be written.
Updated(s) ==
    LET changed == Changed(File(s), txn[s].read)
    IN  IF changed = {} THEN txn[s].sets
        ELSE Put(Slug(s), [x \in changed |-> File(s)[x]], txn[s].sets)

LEMMA UpdatedType ==
    ASSUME Shape, NEW s \in Seeds, Position(s), txn[s].stage = "update"
    PROVE  Updated(s) \in Patches
<1>1. Slug(s) \in Problems /\ File(s) \in SeedFiles
    BY AtFile DEF Active
<1> DEFINE changed == Changed(File(s), txn[s].read)
           patch == [x \in changed |-> File(s)[x]]
<1>2. changed \in SUBSET Fields
    BY DEF Changed
<1>3. patch \in [changed -> FieldValues]
    BY <1>1, <1>2 DEF FieldValues
<1>4. patch \in Patch
    BY <1>2, <1>3 DEF Patch
<1>5. Put(Slug(s), patch, txn[s].sets) \in Patches
  <2>1. txn[s].sets \in Patches
      BY DEF Shape, Txn
  <2> HIDE DEF patch, changed
  <2> QED
      BY <1>1, <1>4, <2>1, PutType DEF Patches
<1> QED
    BY <1>5 DEF Updated, Txn, Shape

LEMMA UpdateStep ==
    ASSUME Shape, NEW s \in Seeds, Position(s), UpdateProblem(s)
    PROVE  /\ Kept(s, {"stage", "sets", "read"})
           /\ txn'[s].stage = "languages"
           /\ txn'[s].read = Absent
           /\ txn'[s].sets = Updated(s)
<1>1. Updated(s) \in Patches
    BY UpdatedType DEF UpdateProblem
<1>2. txn' = [txn EXCEPT ![s].sets = Updated(s), ![s].read = Absent, ![s].stage = "languages"]
    BY DEF UpdateProblem, Updated
<1> DEFINE r == [txn[s] EXCEPT !.sets = Updated(s), !.read = Absent, !.stage = "languages"]
<1>3. txn[s] \in Txn
    BY DEF Shape
<1>4. r \in Txn
    BY <1>1, <1>3 DEF Txn, Stages
<1>5. txn' = [txn EXCEPT ![s] = r]
    BY <1>2, <1>3 DEF Txn, Shape
<1>6. /\ txn' \in [Seeds -> Txn]
      /\ \A t \in Seeds \ {s} : txn'[t] = txn[t]
      /\ txn'[s] = r
    BY <1>4, <1>5, NewTxn
<1> QED
    BY <1>3, <1>6 DEF Kept, Txn

LEMMA NextStages ==
    /\ Waiting["languages"] = "languages wait" /\ Waiting["cases"] = "cases wait"
    /\ After["languages"] = "cases" /\ After["cases"] = "insert"
    /\ \A table \in {"languages", "cases"} : Waiting[table] \in Stages /\ After[table] \in Stages
<1>1. /\ Waiting["languages"] = "languages wait" /\ Waiting["cases"] = "cases wait"
      /\ After["languages"] = "cases" /\ After["cases"] = "insert"
    BY DEF Waiting, After
<1> QED
    BY <1>1 DEF Stages

LEMMA DeleteStep ==
    ASSUME Shape, NEW s \in Seeds, Position(s), DeleteBatch(s)
    PROVE  LET table == txn[s].stage
               found == Rows(table, Slug(s))
           IN  /\ table \in {"languages", "cases"}
               /\ \/ /\ Kept(s, {"stage", "snap"})
                     /\ txn'[s].stage = Waiting[table] /\ txn'[s].snap = found
                  \/ /\ Kept(s, {"stage", "gone"})
                     /\ \A t \in Seeds \ {s} : found \cap txn[t].gone[table] = {}
                     /\ txn'[s].stage = After[table]
                     /\ txn'[s].gone = [txn[s].gone EXCEPT ![table] = @ \cup found]
<1> DEFINE table == txn[s].stage
           found == Rows(table, Slug(s))
<1>1. table \in {"languages", "cases"}
    BY DEF DeleteBatch
<1>2. Slug(s) \in Problems
    BY <1>1, AtFile DEF Active
<1>3. found \in SUBSET Batches
    BY <1>2 DEF Rows, Shape
<1>4. Waiting[table] \in Stages /\ After[table] \in Stages
    BY <1>1, NextStages
<1>5. CASE BatchLocked(s, table, found)
  <2>1. txn' = [txn EXCEPT ![s].stage = Waiting[table], ![s].snap = found]
      BY <1>5 DEF DeleteBatch
  <2> HIDE DEF found, table
  <2> DEFINE r == [txn[s] EXCEPT !.stage = Waiting[table], !.snap = found]
  <2>2. txn[s] \in Txn
      BY DEF Shape
  <2>3. r \in Txn
      BY <2>2, <1>3, <1>4 DEF Txn, Stages
  <2>4. txn' = [txn EXCEPT ![s] = r]
      BY <2>1 DEF Txn, Shape
  <2>5. /\ txn' \in [Seeds -> Txn]
        /\ \A t \in Seeds \ {s} : txn'[t] = txn[t]
        /\ txn'[s] = r
      BY <2>3, <2>4, NewTxn
  <2> QED
      BY <2>2, <2>5, <1>1 DEF Kept, Txn, table, found
<1>6. CASE ~BatchLocked(s, table, found)
  <2>1. txn' = [txn EXCEPT ![s].stage = After[table], ![s].gone[table] = @ \cup found]
      BY <1>6 DEF DeleteBatch
  <2>2. \A t \in Seeds \ {s} : found \cap txn[t].gone[table] = {}
      BY <1>6 DEF BatchLocked
  <2>3. [txn[s].gone EXCEPT ![table] = @ \cup found]
          \in [languages : SUBSET Batches, cases : SUBSET Batches]
      BY <1>1, <1>3 DEF Shape, Txn
  <2> HIDE DEF found, table
  <2> DEFINE r == [txn[s] EXCEPT !.stage = After[table], !.gone[table] = @ \cup found]
  <2>4. txn[s] \in Txn
      BY DEF Shape
  <2>5. r \in Txn
      BY <2>4, <1>4, <2>3 DEF Txn, Stages
  <2>6. txn' = [txn EXCEPT ![s] = r]
      BY <2>1 DEF Txn, Shape
  <2>7. /\ txn' \in [Seeds -> Txn]
        /\ \A t \in Seeds \ {s} : txn'[t] = txn[t]
        /\ txn'[s] = r
      BY <2>5, <2>6, NewTxn
  <2> QED
      BY <2>4, <2>7, <2>2, <1>1 DEF Kept, Txn, table, found
<1> QED
    BY <1>5, <1>6

LEMMA WaitStep ==
    ASSUME Shape, NEW s \in Seeds, Position(s), DeleteAfterWait(s)
    PROVE  LET table == Table(txn[s].stage)
               left == txn[s].snap \cap Rows(table, Slug(s))
           IN  /\ Waits(s) /\ table \in {"languages", "cases"} /\ txn[s].stage = Waiting[table]
               /\ Kept(s, {"stage", "snap", "gone"})
               /\ \A t \in Seeds \ {s} : left \cap txn[t].gone[table] = {}
               /\ txn'[s].stage = After[table] /\ txn'[s].snap = {}
               /\ txn'[s].gone = [txn[s].gone EXCEPT ![table] = @ \cup left]
<1> DEFINE table == Table(txn[s].stage)
           left == txn[s].snap \cap Rows(table, Slug(s))
<1>1. table \in {"languages", "cases"}
    BY DEF Table
<1>2. Waits(s) /\ txn[s].stage = Waiting[table]
    BY <1>1, NextStages DEF DeleteAfterWait, Waits
<1>3. Slug(s) \in Problems
    BY <1>2, AtFile DEF Active, Waits
<1>4. left \in SUBSET Batches
    BY <1>3 DEF Shape, Txn
<1>5. After[table] \in Stages
    BY <1>1, NextStages
<1>6. \A t \in Seeds \ {s} : left \cap txn[t].gone[table] = {}
    BY DEF BatchLocked, DeleteAfterWait
<1>7. txn' = [txn EXCEPT ![s].stage = After[table], ![s].snap = {}, ![s].gone[table] = @ \cup left]
    BY DEF DeleteAfterWait
<1>8. [txn[s].gone EXCEPT ![table] = @ \cup left]
          \in [languages : SUBSET Batches, cases : SUBSET Batches]
    BY <1>1, <1>4 DEF Shape, Txn
<1> HIDE DEF left, table
<1>9. /\ Kept(s, {"stage", "snap", "gone"})
      /\ txn'[s].stage = After[table] /\ txn'[s].snap = {}
      /\ txn'[s].gone = [txn[s].gone EXCEPT ![table] = @ \cup left]
  <2> DEFINE r == [txn[s] EXCEPT !.stage = After[table], !.snap = {},
                                 !.gone[table] = @ \cup left]
  <2>1. txn[s] \in Txn
      BY DEF Shape
  <2>2. r \in Txn
      BY <2>1, <1>5, <1>8 DEF Txn, Stages
  <2>3. txn' = [txn EXCEPT ![s] = r]
      BY <1>7 DEF Txn, Shape
  <2>4. /\ txn' \in [Seeds -> Txn]
        /\ \A t \in Seeds \ {s} : txn'[t] = txn[t]
        /\ txn'[s] = r
      BY <2>2, <2>3, NewTxn
  <2> QED
      BY <2>1, <2>4, <1>1 DEF Kept, Txn
<1> QED
    BY <1>1, <1>2, <1>6, <1>9 DEF left, table

LEMMA InsertStep ==
    ASSUME Shape, NEW s \in Seeds, Position(s), InsertBatch(s)
    PROVE  /\ Kept(s, {"stage", "mine", "at"})
           /\ txn'[s].stage = IF txn[s].at = Len(txn[s].dir) THEN "commit" ELSE "read"
           /\ txn'[s].at = txn[s].at + 1
           /\ txn'[s].mine = txn[s].mine \cup {Batch(s, File(s))}
<1>1. File(s) \in SeedFiles
    BY AtFile DEF InsertBatch, Active
<1>2. Batch(s, File(s)) \in Batches
    BY <1>1 DEF Batch, Batches
<1> DEFINE r == [txn[s] EXCEPT !.mine = @ \cup {Batch(s, File(s))}, !.at = @ + 1,
                             !.stage = IF txn[s].at = Len(txn[s].dir) THEN "commit" ELSE "read"]
<1>3. txn[s] \in Txn
    BY DEF Shape
<1>4. r \in Txn
  <2>1. txn[s].at + 1 \in Nat /\ txn[s].mine \cup {Batch(s, File(s))} \in SUBSET Batches
      BY <1>3, <1>2 DEF Txn
  <2> QED
      BY <1>3, <2>1 DEF Txn, Stages
<1>5. txn' = [txn EXCEPT ![s] = r]
    BY DEF InsertBatch, Shape
<1>6. /\ txn' \in [Seeds -> Txn]
      /\ \A t \in Seeds \ {s} : txn'[t] = txn[t]
      /\ txn'[s] = r
    BY <1>4, <1>5, NewTxn
<1> QED
    BY <1>3, <1>6 DEF Kept, Txn

LEMMA NoTxnType == [NoTxn EXCEPT !.stage = "done"] \in Txn
<1>1. <<>> \in Patches
    BY EmptyMap DEF Patches
<1>2. <<>> \in Sinces
    BY EmptyMap DEF Sinces
<1>3. <<>> \in Seq(SeedFiles)
    OBVIOUS
<1> QED
    BY <1>1, <1>2, <1>3 DEF NoTxn, Txn, Stages

LEMMA AbortStep ==
    ASSUME Shape, NEW s \in Seeds, txn' = [txn EXCEPT ![s] = [NoTxn EXCEPT !.stage = "done"]]
    PROVE  /\ txn' \in [Seeds -> Txn]
           /\ \A t \in Seeds \ {s} : txn'[t] = txn[t]
           /\ txn'[s] = [NoTxn EXCEPT !.stage = "done"]
           /\ ~Active(s)' /\ NothingHeld(s)' /\ DOMAIN txn'[s].sets = {}
           /\ txn'[s].stage = "done"
<1>1. /\ txn' \in [Seeds -> Txn]
      /\ \A t \in Seeds \ {s} : txn'[t] = txn[t]
      /\ txn'[s] = [NoTxn EXCEPT !.stage = "done"]
    BY NoTxnType, NewTxn
<1>2. /\ txn'[s].stage = "done" /\ txn'[s].sets = <<>> /\ txn'[s].mine = {} /\ txn'[s].at = 0
      /\ txn'[s].gone["languages"] = {} /\ txn'[s].gone["cases"] = {}
    BY <1>1 DEF NoTxn
<1>3. DOMAIN txn'[s].sets = {}
    BY <1>2
<1> QED
    BY <1>1, <1>2, <1>3 DEF Active, NothingHeld

-----------------------------------------------------------------------------
(* Steps before the commit: the transaction itself *)

Own == <<row, langs, cases, log>>

LEMMA DoneNotHere ==
    ASSUME Shape, NEW s \in Seeds, Position(s), NEW p, Done(s, p)
    PROVE  ~Here(s, p)
<1>1. txn[s].dir \in Seq(SeedFiles) /\ txn[s].at \in Nat
    BY DEF Shape, Txn
<1>2. PICK i \in 1..txn[s].at - 1 : txn[s].dir[i].slug = p
    BY DEF Done
<1>3. SUFFICES ASSUME Here(s, p) PROVE FALSE
    OBVIOUS
<1>4. txn[s].at \in 1..Len(txn[s].dir) /\ txn[s].dir[txn[s].at].slug = p
    BY <1>3, AtFile DEF Here, Slug, File
<1>5. i \in DOMAIN txn[s].dir /\ txn[s].at \in DOMAIN txn[s].dir
    BY <1>1, <1>2, <1>4
<1>6. \A j, k \in DOMAIN txn[s].dir : txn[s].dir[j].slug = txn[s].dir[k].slug => j = k
    BY <1>3 DEF Here, Position, LoadProblemFiles
<1>7. i = txn[s].at
    BY <1>2, <1>4, <1>5, <1>6
<1> QED
    BY <1>1, <1>2, <1>7

\* Nothing about the seeds that take no step depends on one that does not commit.
LEMMA OthersKept ==
    ASSUME NEW t \in Seeds, Holding(t), txn'[t] = txn[t], UNCHANGED Own
    PROVE  Holding(t)'
<1>1. /\ (Active(t)' <=> Active(t)) /\ (Waits(t)' <=> Waits(t))
      /\ (Deleting(t)' <=> Deleting(t)) /\ Slug(t)' = Slug(t)
    BY DEF Active, Waits, Deleting, Slug, File
<1>2. \A p : /\ (Done(t, p)' <=> Done(t, p)) /\ (Here(t, p)' <=> Here(t, p))
            /\ (Quiet(t, p)' <=> Quiet(t, p))
    BY <1>1 DEF Done, Here, Quiet, Own
<1>3. Position(t)' /\ NothingHeld(t)'
    BY <1>1 DEF Holding, Position, NothingHeld
<1>4. DeletesItsOwn(t)' /\ SetsItsOwn(t)'
    BY <1>1, <1>2 DEF Holding, DeletesItsOwn, SetsItsOwn
<1>5. Emptied(t)' /\ RowToCome(t)'
    BY <1>1, <1>2 DEF Holding, Emptied, RowToCome, Own
<1>6. KnowsSince(t)' /\ ReadStill(t)' /\ RestIsThere(t)'
    BY <1>1, <1>2 DEF Holding, KnowsSince, ReadStill, RestIsThere, Reached, Merged, Own
<1> QED
    BY <1>3, <1>4, <1>5, <1>6 DEF Holding

\* A step within one file.
LEMMA SameFile ==
    ASSUME NEW s \in Seeds, Holding(s), Active(s), txn[s].stage # "commit",
           txn'[s].dir = txn[s].dir, txn'[s].at = txn[s].at, txn'[s].mine = txn[s].mine,
           txn'[s].stage \notin {"idle", "done", "commit"}
    PROVE  /\ Active(s)' /\ Slug(s)' = Slug(s) /\ File(s)' = File(s)
           /\ \A p : (Done(s, p)' <=> Done(s, p)) /\ (Here(s, p)' <=> Here(s, p))
           /\ Position(s)' /\ NothingHeld(s)' /\ Here(s, Slug(s))
<1>1. Active(s)' /\ Slug(s)' = Slug(s) /\ File(s)' = File(s) /\ Here(s, Slug(s))
    BY DEF Active, Slug, File, Here
<1>2. \A p : (Done(s, p)' <=> Done(s, p)) /\ (Here(s, p)' <=> Here(s, p))
    BY <1>1 DEF Done, Here
<1>3. Position(s)' /\ NothingHeld(s)'
    BY <1>1 DEF Holding, Position, NothingHeld
<1> QED
    BY <1>1, <1>2, <1>3

LEMMA StartHolds ==
    ASSUME Shape, NEW s \in Seeds, Holding(s), StartSeed(s)
    PROVE  Holding(s)'
<1>1. /\ Kept(s, {"stage", "at"})
      /\ txn'[s].stage = "read" /\ txn'[s].at = 1
    BY StartStep
<1>2. /\ txn'[s].dir = txn[s].dir /\ txn'[s].sets = txn[s].sets /\ txn'[s].gone = txn[s].gone
      /\ txn'[s].mine = txn[s].mine
    BY <1>1 DEF Kept
<1>3. /\ txn[s].sets = <<>> /\ txn[s].mine = {}
      /\ txn[s].gone["languages"] = {} /\ txn[s].gone["cases"] = {}
      /\ LoadProblemFiles(txn[s].dir)
    BY DEF StartSeed, Holding, NothingHeld, Active
<1>4. Active(s)' /\ \A p : ~Done(s, p)'
    BY <1>1 DEF Active, Done
<1>5. Len(txn[s].dir) \in Nat /\ Len(txn[s].dir) # 0
    BY <1>3 DEF Shape, Txn, LoadProblemFiles
<1>6. Position(s)'
    BY <1>1, <1>2, <1>3, <1>5 DEF Position
<1>7. NothingHeld(s)'
    BY <1>4 DEF NothingHeld
<1>8. DeletesItsOwn(s)'
    BY <1>1, <1>2, <1>3 DEF DeletesItsOwn, Waits
<1>9. SetsItsOwn(s)'
    BY <1>2, <1>3 DEF SetsItsOwn
<1>10. Emptied(s)' /\ RowToCome(s)'
    BY <1>1, <1>4 DEF Emptied, RowToCome, Deleting
<1>11. KnowsSince(s)' /\ ReadStill(s)' /\ RestIsThere(s)'
    BY <1>1, <1>4 DEF KnowsSince, ReadStill, RestIsThere, Reached, Merged, Deleting
<1> QED
    BY <1>6, <1>7, <1>8, <1>9, <1>10, <1>11 DEF Holding

LEMMA ReadHolds ==
    ASSUME Shape, NEW s \in Seeds, Holding(s), ReadProblem(s)
    PROVE  Holding(s)'
<1>1. /\ Kept(s, {"stage", "read", "since"})
      /\ txn'[s].stage = IF row[Slug(s)] = Absent THEN "create" ELSE "update"
      /\ txn'[s].read = row[Slug(s)]
      /\ txn'[s].since = Put(Slug(s), Len(log), txn[s].since)
    BY ReadStep DEF Holding
<1>2. /\ txn'[s].dir = txn[s].dir /\ txn'[s].sets = txn[s].sets /\ txn'[s].gone = txn[s].gone
      /\ txn'[s].mine = txn[s].mine /\ txn'[s].at = txn[s].at
    BY <1>1 DEF Kept
<1>3. txn[s].stage = "read" /\ Active(s) /\ UNCHANGED Own
    BY DEF ReadProblem, Active, Own
<1>4. txn'[s].stage \in {"create", "update"} /\ (txn'[s].stage = "update" => row[Slug(s)] # Absent)
    BY <1>1
<1>5. /\ Active(s)' /\ Slug(s)' = Slug(s) /\ File(s)' = File(s)
      /\ \A p : (Done(s, p)' <=> Done(s, p)) /\ (Here(s, p)' <=> Here(s, p))
      /\ Position(s)' /\ NothingHeld(s)' /\ Here(s, Slug(s))
    BY <1>2, <1>3, <1>4, SameFile
<1>6. /\ \A p : Done(s, p) => p # Slug(s)
      /\ \A p : Merged(s, p)' <=> Done(s, p)
      /\ \A p : Reached(s, p)' => Done(s, p) \/ p = Slug(s)
  <2>1. \A p : Done(s, p) => p # Slug(s)
      BY <1>5, DoneNotHere DEF Holding
  <2>2. \A p : Merged(s, p)' <=> Done(s, p)
      BY <1>4, <1>5 DEF Merged, Deleting
  <2>3. \A p : Reached(s, p)' => Done(s, p) \/ p = Slug(s)
      BY <1>5 DEF Reached, Here
  <2> QED
      BY <2>1, <2>2, <2>3
<1>7. DeletesItsOwn(s)' /\ SetsItsOwn(s)'
  <2>1. DeletesItsOwn(s)'
      BY <1>2, <1>4, <1>5 DEF Holding, DeletesItsOwn, Waits
  <2>2. SetsItsOwn(s)'
      BY <1>2, <1>5 DEF Holding, SetsItsOwn
  <2> QED
      BY <2>1, <2>2
<1>8. Emptied(s)'
    BY <1>2, <1>3, <1>5 DEF Holding, Emptied, Own
<1>9. RowToCome(s)'
    BY <1>2, <1>3, <1>4, <1>5 DEF Holding, RowToCome, Own, Deleting
<1>10. /\ Slug(s) \in DOMAIN txn'[s].since /\ txn'[s].since[Slug(s)] = Len(log)
       /\ \A p \in DOMAIN txn[s].since : p # Slug(s) =>
             p \in DOMAIN txn'[s].since /\ txn'[s].since[p] = txn[s].since[p]
  <2>1. /\ DOMAIN Put(Slug(s), Len(log), txn[s].since) = DOMAIN txn[s].since \cup {Slug(s)}
        /\ Put(Slug(s), Len(log), txn[s].since)[Slug(s)] = Len(log)
        /\ \A p \in DOMAIN txn[s].since :
              p # Slug(s) => Put(Slug(s), Len(log), txn[s].since)[p] = txn[s].since[p]
      BY DEF Put, Over
  <2> QED
      BY <1>1, <2>1
<1>11. Len(log) \in Nat
    BY DEF Shape
<1>12. \A p \in Problems : Done(s, p) => p \in DOMAIN txn[s].since /\ txn[s].since[p] <= Len(log)
    BY DEF Holding, KnowsSince, Reached
<1>13. KnowsSince(s)'
    BY <1>3, <1>6, <1>10, <1>11, <1>12 DEF KnowsSince, Own
<1>14. ReadStill(s)'
    BY <1>1, <1>3, <1>5 DEF ReadStill, Own
<1>15. \A p \in Problems : Done(s, p) => (Quiet(s, p)' <=> Quiet(s, p))
    BY <1>3, <1>6, <1>10, <1>12 DEF Quiet, Own
<1>16. RestIsThere(s)'
    BY <1>2, <1>3, <1>6, <1>15 DEF Holding, RestIsThere, Own, Merged
<1> QED
    BY <1>5, <1>7, <1>8, <1>9, <1>13, <1>14, <1>16 DEF Holding

LEMMA HereIs ==
    ASSUME NEW s \in Seeds, Active(s), txn[s].stage # "commit"
    PROVE  \A p : Here(s, p) <=> p = Slug(s)
BY DEF Here

LEMMA CreateHolds ==
    ASSUME Shape, NEW s \in Seeds, Holding(s), CreateProblem(s)
    PROVE  Holding(s)'
<1> DEFINE new == Put(Slug(s), Metadata(File(s)), txn[s].sets)
<1>1. /\ Kept(s, {"stage", "sets"})
      /\ txn'[s].stage = "insert"
      /\ txn'[s].sets = new
    BY CreateStep DEF Holding
<1>2. /\ txn'[s].dir = txn[s].dir /\ txn'[s].gone = txn[s].gone
      /\ txn'[s].mine = txn[s].mine /\ txn'[s].at = txn[s].at /\ txn'[s].since = txn[s].since
    BY <1>1 DEF Kept
<1>3. txn[s].stage = "create" /\ Active(s) /\ UNCHANGED Own /\ row[Slug(s)] = Absent
    BY DEF CreateProblem, Active, Own
<1>4. /\ Active(s)' /\ Slug(s)' = Slug(s) /\ File(s)' = File(s)
      /\ \A p : (Done(s, p)' <=> Done(s, p)) /\ (Here(s, p)' <=> Here(s, p))
      /\ Position(s)' /\ NothingHeld(s)' /\ Here(s, Slug(s))
    BY <1>1, <1>2, <1>3, SameFile
<1>5. \A p : (Here(s, p) <=> p = Slug(s)) /\ (Done(s, p) => p # Slug(s))
    BY <1>3, <1>4, HereIs, DoneNotHere DEF Holding
<1>6. /\ Slug(s) \in DOMAIN new /\ DOMAIN new[Slug(s)] = Fields
      /\ \A x \in Fields : new[Slug(s)][x] = FileOf(txn[s].dir, Slug(s))[x]
  <2>1. Slug(s) \in DOMAIN new /\ new[Slug(s)] = Metadata(File(s))
      BY DEF Put, Over
  <2>2. FileOf(txn[s].dir, Slug(s)) = File(s)
      BY <1>3, AtFile DEF Holding
  <2> QED
      BY <2>1, <2>2 DEF Metadata
<1>7. \A p : p # Slug(s) => /\ p \in DOMAIN new <=> p \in DOMAIN txn[s].sets
                            /\ p \in DOMAIN new => new[p] = txn[s].sets[p]
    BY DEF Put, Over
<1> HIDE DEF new
<1>8. DeletesItsOwn(s)'
    BY <1>1, <1>2, <1>4 DEF Holding, DeletesItsOwn, Waits
<1>9. SetsItsOwn(s)'
  <2>1. SUFFICES ASSUME NEW p \in DOMAIN new
                 PROVE  /\ Done(s, p) \/ Here(s, p)
                        /\ \A x \in DOMAIN new[p] : new[p][x] = FileOf(txn[s].dir, p)[x]
      BY <1>1, <1>2, <1>4 DEF SetsItsOwn
  <2>2. CASE p = Slug(s)
      BY <2>2, <1>5, <1>6
  <2>3. CASE p # Slug(s)
      BY <2>3, <1>7 DEF Holding, SetsItsOwn
  <2> QED
      BY <2>2, <2>3
<1>10. Emptied(s)'
    BY <1>2, <1>3, <1>4 DEF Holding, Emptied, Own
<1>11. RowToCome(s)'
  <2>1. \A p \in Problems : Done(s, p) \/ p = Slug(s) =>
            row[p] # Absent \/ (p \in DOMAIN new /\ DOMAIN new[p] = Fields)
      BY <1>5, <1>6, <1>7 DEF Holding, RowToCome
  <2> QED
      BY <1>1, <1>3, <1>4, <1>5, <2>1 DEF RowToCome, Deleting, Own
<1>12. KnowsSince(s)' /\ ReadStill(s)'
    BY <1>1, <1>2, <1>3, <1>4 DEF Holding, KnowsSince, ReadStill, Reached, Own
<1>13. RestIsThere(s)'
  <2>1. \A p : Merged(s, p)' <=> Done(s, p) \/ p = Slug(s)
      BY <1>1, <1>4, <1>5 DEF Merged
  <2>2. \A p : Quiet(s, p)' <=> Quiet(s, p)
      BY <1>2, <1>3 DEF Quiet, Own
  <2>3. SUFFICES ASSUME NEW p \in Problems, Done(s, p), row[p] # Absent, Quiet(s, p), NEW x \in Fields
                 PROVE  \/ row[p][x] = FileOf(txn[s].dir, p)[x]
                        \/ p \in DOMAIN new /\ x \in DOMAIN new[p]
      BY <1>1, <1>2, <1>3, <2>1, <2>2 DEF RestIsThere, Own
  <2>4. p # Slug(s) /\ Merged(s, p)
      BY <1>5, <2>3 DEF Merged
  <2> QED
      BY <2>3, <2>4, <1>7 DEF Holding, RestIsThere
<1> QED
    BY <1>4, <1>8, <1>9, <1>10, <1>11, <1>12, <1>13 DEF Holding

LEMMA UpdateHolds ==
    ASSUME Shape, NEW s \in Seeds, Holding(s), UpdateProblem(s)
    PROVE  Holding(s)'
<1> DEFINE new == Updated(s)
           changed == Changed(File(s), txn[s].read)
<1>1. /\ Kept(s, {"stage", "sets", "read"})
      /\ txn'[s].stage = "languages"
      /\ txn'[s].sets = new
    BY UpdateStep DEF Holding
<1>2. /\ txn'[s].dir = txn[s].dir /\ txn'[s].gone = txn[s].gone
      /\ txn'[s].mine = txn[s].mine /\ txn'[s].at = txn[s].at /\ txn'[s].since = txn[s].since
    BY <1>1 DEF Kept
<1>3. txn[s].stage = "update" /\ Active(s) /\ UNCHANGED Own
    BY DEF UpdateProblem, Active, Own
<1>4. /\ Active(s)' /\ Slug(s)' = Slug(s) /\ File(s)' = File(s)
      /\ \A p : (Done(s, p)' <=> Done(s, p)) /\ (Here(s, p)' <=> Here(s, p))
      /\ Position(s)' /\ NothingHeld(s)' /\ Here(s, Slug(s))
    BY <1>1, <1>2, <1>3, SameFile
<1>5. \A p : (Here(s, p) <=> p = Slug(s)) /\ (Done(s, p) => p # Slug(s))
    BY <1>3, <1>4, HereIs, DoneNotHere DEF Holding
<1>6. FileOf(txn[s].dir, Slug(s)) = File(s)
    BY <1>3, AtFile DEF Holding
<1>7. \/ changed = {} /\ new = txn[s].sets
      \/ /\ Slug(s) \in DOMAIN new /\ new[Slug(s)] = [x \in changed |-> File(s)[x]]
         /\ \A p : p # Slug(s) => /\ p \in DOMAIN new <=> p \in DOMAIN txn[s].sets
                                  /\ p \in DOMAIN new => new[p] = txn[s].sets[p]
  <2>1. CASE changed = {}
      BY <2>1 DEF Updated
  <2>2. CASE changed # {}
    <3>1. new = Put(Slug(s), [x \in changed |-> File(s)[x]], txn[s].sets)
        BY <2>2 DEF Updated
    <3> HIDE DEF new, changed
    <3> QED
        BY <3>1 DEF Put, Over
  <2> QED
      BY <2>1, <2>2
<1>8. \A p : p # Slug(s) => /\ p \in DOMAIN new <=> p \in DOMAIN txn[s].sets
                            /\ p \in DOMAIN new => new[p] = txn[s].sets[p]
    BY <1>7
<1>9. changed # {} => /\ Slug(s) \in DOMAIN new /\ DOMAIN new[Slug(s)] = changed
                      /\ \A x \in changed : new[Slug(s)][x] = File(s)[x]
    BY <1>7
<1>10. \A x \in Fields : x \notin changed => File(s)[x] = txn[s].read[x]
    BY DEF Changed
<1>17. changed = {} => new = txn[s].sets
    BY DEF Updated
<1> HIDE DEF new, changed
<1>11. DeletesItsOwn(s)'
    BY <1>1, <1>2, <1>4 DEF Holding, DeletesItsOwn, Waits
<1>12. SetsItsOwn(s)'
  <2>1. SUFFICES ASSUME NEW p \in DOMAIN new
                 PROVE  /\ Done(s, p) \/ Here(s, p)
                        /\ \A x \in DOMAIN new[p] : new[p][x] = FileOf(txn[s].dir, p)[x]
      BY <1>1, <1>2, <1>4 DEF SetsItsOwn
  <2>2. CASE p = Slug(s) /\ changed # {}
      BY <2>2, <1>5, <1>6, <1>9
  <2>3. CASE p # Slug(s) \/ changed = {}
    <3>1. p \in DOMAIN txn[s].sets /\ new[p] = txn[s].sets[p]
        BY <2>3, <1>8, <1>17
    <3> QED
        BY <3>1 DEF Holding, SetsItsOwn
  <2> QED
      BY <2>2, <2>3
<1>13. Emptied(s)'
    BY <1>2, <1>3, <1>4 DEF Holding, Emptied, Own
<1>14. RowToCome(s)'
  <2>1. \A p \in Problems : Done(s, p) =>
            row[p] # Absent \/ (p \in DOMAIN new /\ DOMAIN new[p] = Fields)
      BY <1>5, <1>8 DEF Holding, RowToCome
  <2>2. row[Slug(s)] # Absent
      BY <1>3 DEF Holding, RowToCome
  <2> QED
      BY <1>1, <1>3, <1>4, <2>1, <2>2 DEF RowToCome, Own
<1>15. KnowsSince(s)' /\ ReadStill(s)'
    BY <1>1, <1>2, <1>3, <1>4 DEF Holding, KnowsSince, ReadStill, Reached, Own
<1>16. RestIsThere(s)'
  <2>1. \A p : Merged(s, p)' <=> Done(s, p) \/ p = Slug(s)
      BY <1>1, <1>4, <1>5 DEF Merged, Deleting
  <2>2. \A p : Quiet(s, p)' <=> Quiet(s, p)
      BY <1>2, <1>3 DEF Quiet, Own
  <2>3. SUFFICES ASSUME NEW p \in Problems, Done(s, p) \/ p = Slug(s), row[p] # Absent, Quiet(s, p),
                        NEW x \in Fields
                 PROVE  \/ row[p][x] = FileOf(txn[s].dir, p)[x]
                        \/ p \in DOMAIN new /\ x \in DOMAIN new[p]
      BY <1>1, <1>2, <1>3, <2>1, <2>2 DEF RestIsThere, Own
  <2>4. CASE p = Slug(s)
    <3>1. txn[s].read = row[p]
        BY <1>3, <2>3, <2>4 DEF Holding, ReadStill
    <3> QED
        BY <2>4, <3>1, <1>6, <1>9, <1>10
  <2>5. CASE p # Slug(s)
    <3>1. Merged(s, p)
        BY <2>3, <2>5 DEF Merged
    <3> QED
        BY <2>3, <2>5, <3>1, <1>8 DEF Holding, RestIsThere
  <2> QED
      BY <2>4, <2>5
<1> QED
    BY <1>4, <1>11, <1>12, <1>13, <1>14, <1>15, <1>16 DEF Holding

\* A problem's batches are about that problem.
LEMMA LatestNames ==
    ASSUME Shape, NEW p, Names(p) # {}
    PROVE  /\ Latest(p) \in Names(p) /\ \A j \in Names(p) : j <= Latest(p)
           /\ LatestFile(p) \in Range(log[Latest(p)].dir) /\ LatestFile(p).slug = p
<1>1. DOMAIN log = 1..Len(log) /\ Len(log) \in Nat
    BY DEF Shape
<1>2. Names(p) \in SUBSET (1..Len(log))
    BY <1>1 DEF Names
<1>3. \E i \in Names(p) : \A j \in Names(p) : j <= i
    BY <1>1, <1>2, Greatest
<1>4. Latest(p) \in Names(p) /\ \A j \in Names(p) : j <= Latest(p)
    BY <1>3 DEF Latest
<1>5. p \in SlugsOf(log[Latest(p)].dir)
    BY <1>4 DEF Names
<1> QED
    BY <1>4, <1>5, FileOfAny DEF LatestFile

LEMMA LatestIsFile ==
    ASSUME Shape, NEW p, Names(p) # {}
    PROVE  LatestFile(p) \in SeedFiles
<1>1. Latest(p) \in DOMAIN log /\ LatestFile(p) \in Range(log[Latest(p)].dir)
    BY LatestNames DEF Names
<1>2. log[Latest(p)] \in Entry
    BY <1>1 DEF Shape
<1>3. log[Latest(p)].dir \in Seq(SeedFiles)
    BY <1>2 DEF Entry
<1> QED
    BY <1>1, <1>3 DEF Range

LEMMA BatchesAreAbout ==
    ASSUME Shape, NEW p \in Problems, Committed(p)
    PROVE  \A b \in langs[p] \cup cases[p] : b.file.slug = p
<1>1. CASE Names(p) = {}
    BY <1>1 DEF Committed
<1>2. CASE Names(p) # {}
  <2>1. LatestFile(p).slug = p
      BY <1>2, LatestNames
  <2>2. \A b \in langs[p] \cup cases[p] : b = Batch(log[Latest(p)].by, LatestFile(p))
      BY <1>2 DEF Committed
  <2> QED
      BY <2>1, <2>2 DEF Batch
<1> QED
    BY <1>1, <1>2

LEMMA SetsKept ==
    ASSUME NEW s, SetsItsOwn(s), txn'[s].dir = txn[s].dir, txn'[s].sets = txn[s].sets,
           \A p : (Done(s, p)' <=> Done(s, p)) /\ (Here(s, p)' <=> Here(s, p))
    PROVE  SetsItsOwn(s)'
BY DEF SetsItsOwn

\* What both DELETE steps have in common: the batches found are the problem's own.
LEMMA DeletingHolds ==
    ASSUME Shape, NEW s \in Seeds, Holding(s), NEW fields \in SUBSET {"stage", "snap", "gone"},
           Kept(s, fields), Deleting(s), UNCHANGED Own,
           txn'[s].stage \in {"languages wait", "cases wait", "cases", "insert"},
           Waits(s)' => \A b \in txn'[s].snap : b.file.slug = Slug(s),
           NEW more, \A b \in more : b.file.slug = Slug(s), NEW table \in {"languages", "cases"},
           \/ txn'[s].gone = txn[s].gone
           \/ txn'[s].gone = [txn[s].gone EXCEPT ![table] = @ \cup more]
    PROVE  Holding(s)'
<1>1. /\ txn'[s].dir = txn[s].dir /\ txn'[s].sets = txn[s].sets /\ txn'[s].read = txn[s].read
      /\ txn'[s].mine = txn[s].mine /\ txn'[s].at = txn[s].at /\ txn'[s].since = txn[s].since
    BY DEF Kept
<1>2. Active(s) /\ txn[s].stage # "commit"
    BY DEF Active, Deleting
<1>3. /\ Active(s)' /\ Slug(s)' = Slug(s) /\ File(s)' = File(s)
      /\ \A p : (Done(s, p)' <=> Done(s, p)) /\ (Here(s, p)' <=> Here(s, p))
      /\ Position(s)' /\ NothingHeld(s)' /\ Here(s, Slug(s))
    BY <1>1, <1>2, SameFile
<1>4. \A p : Here(s, p) <=> p = Slug(s)
    BY <1>2, HereIs
<1>5. txn[s].gone \in [languages : SUBSET Batches, cases : SUBSET Batches]
    BY DEF Shape, Txn
<1>6. \A tab \in {"languages", "cases"} :
         /\ txn[s].gone[tab] \subseteq txn'[s].gone[tab]
         /\ \A b \in txn'[s].gone[tab] : b \in txn[s].gone[tab] \/ b.file.slug = Slug(s)
  <2>1. \A tab \in {"languages", "cases"} :
           txn'[s].gone[tab] = txn[s].gone[tab] \/ txn'[s].gone[tab] = txn[s].gone[tab] \cup more
      BY <1>5
  <2> QED
      BY <2>1
<1>7. DeletesItsOwn(s)'
  <2>1. \A tab \in {"languages", "cases"} : \A b \in txn'[s].gone[tab] :
            Done(s, b.file.slug) \/ Here(s, b.file.slug)
      BY <1>4, <1>6 DEF Holding, DeletesItsOwn
  <2> QED
      BY <1>3, <2>1 DEF DeletesItsOwn
<1>8. SetsItsOwn(s)'
    BY <1>1, <1>3, SetsKept DEF Holding
<1>9. Emptied(s)'
  <2>1. \A p \in Problems : Done(s, p) =>
          langs[p] \subseteq txn'[s].gone["languages"] /\ cases[p] \subseteq txn'[s].gone["cases"]
      BY <1>6 DEF Holding, Emptied
  <2> QED
      BY <1>3, <2>1 DEF Emptied, Own
<1>10. RowToCome(s)'
  <2>1. row[Slug(s)] # Absent
      BY DEF Holding, RowToCome
  <2>2. \A p \in Problems : Done(s, p) =>
            row[p] # Absent \/ (p \in DOMAIN txn[s].sets /\ DOMAIN txn[s].sets[p] = Fields)
      BY DEF Holding, RowToCome
  <2> QED
      BY <1>1, <1>3, <1>4, <2>1, <2>2 DEF RowToCome, Own
<1>11. KnowsSince(s)'
  <2>1. \A p : Reached(s, p)' => Reached(s, p)
      BY <1>3 DEF Reached, Deleting
  <2> QED
      BY <1>1, <2>1 DEF Holding, KnowsSince, Own
<1>12. ReadStill(s)'
    BY DEF ReadStill
<1>13. RestIsThere(s)'
  <2>1. \A p : Merged(s, p)' => Merged(s, p)
      BY <1>3 DEF Merged
  <2>2. \A p : Quiet(s, p)' <=> Quiet(s, p)
      BY <1>1 DEF Quiet, Own
  <2> QED
      BY <1>1, <2>1, <2>2 DEF Holding, RestIsThere, Own
<1> QED
    BY <1>3, <1>7, <1>8, <1>9, <1>10, <1>11, <1>12, <1>13 DEF Holding

LEMMA DeleteHolds ==
    ASSUME Shape, NEW s \in Seeds, Holding(s), \A p \in Problems : Committed(p), DeleteBatch(s)
    PROVE  Holding(s)'
<1> DEFINE table == txn[s].stage
           found == Rows(table, Slug(s))
<1>1. table \in {"languages", "cases"} /\ UNCHANGED Own
    BY DEF DeleteBatch, Own
<1>2. Deleting(s) /\ Slug(s) \in Problems
    BY <1>1, AtFile DEF Deleting, Active, Holding
<1>3. \A b \in found : b.file.slug = Slug(s)
    BY <1>2, BatchesAreAbout DEF Rows
<1>4. \/ /\ Kept(s, {"stage", "snap"})
         /\ txn'[s].stage = Waiting[table] /\ txn'[s].snap = found
      \/ /\ Kept(s, {"stage", "gone"})
         /\ txn'[s].stage = After[table]
         /\ txn'[s].gone = [txn[s].gone EXCEPT ![table] = @ \cup found]
    BY DeleteStep DEF Holding
<1> HIDE DEF table, found
<1>5. CASE /\ Kept(s, {"stage", "snap"})
           /\ txn'[s].stage = Waiting[table] /\ txn'[s].snap = found
  <2>1. txn'[s].stage \in {"languages wait", "cases wait", "cases", "insert"}
      BY <1>1, <1>5, NextStages
  <2>2. txn'[s].gone = txn[s].gone
      BY <1>5 DEF Kept
  <2> QED
      BY <1>1, <1>2, <1>3, <1>5, <2>1, <2>2, DeletingHolds
<1>6. CASE /\ Kept(s, {"stage", "gone"})
           /\ txn'[s].stage = After[table]
           /\ txn'[s].gone = [txn[s].gone EXCEPT ![table] = @ \cup found]
  <2>1. txn'[s].stage \in {"cases", "insert"}
      BY <1>1, <1>6, NextStages
  <2>2. ~Waits(s)'
      BY <2>1 DEF Waits
  <2> QED
      BY <1>1, <1>2, <1>3, <1>6, <2>1, <2>2, DeletingHolds
<1> QED
    BY <1>4, <1>5, <1>6

LEMMA WaitHolds ==
    ASSUME Shape, NEW s \in Seeds, Holding(s), DeleteAfterWait(s)
    PROVE  Holding(s)'
<1> DEFINE table == Table(txn[s].stage)
           left == txn[s].snap \cap Rows(table, Slug(s))
<1>1. /\ Waits(s) /\ table \in {"languages", "cases"}
      /\ Kept(s, {"stage", "snap", "gone"})
      /\ txn'[s].stage = After[table] /\ txn'[s].snap = {}
      /\ txn'[s].gone = [txn[s].gone EXCEPT ![table] = @ \cup left]
    BY WaitStep DEF Holding
<1>2. UNCHANGED Own /\ Deleting(s)
    BY <1>1 DEF DeleteAfterWait, Own, Waits, Deleting
<1>3. \A b \in left : b.file.slug = Slug(s)
    BY <1>1 DEF Holding, DeletesItsOwn
<1> HIDE DEF table, left
<1>4. txn'[s].stage \in {"cases", "insert"}
    BY <1>1, NextStages
<1> QED
    BY <1>1, <1>2, <1>3, <1>4, DeletingHolds

LEMMA InsertHolds ==
    ASSUME Shape, NEW s \in Seeds, Holding(s), InsertBatch(s)
    PROVE  Holding(s)'
<1>1. /\ Kept(s, {"stage", "mine", "at"})
      /\ txn'[s].stage = IF txn[s].at = Len(txn[s].dir) THEN "commit" ELSE "read"
      /\ txn'[s].at = txn[s].at + 1
      /\ txn'[s].mine = txn[s].mine \cup {Batch(s, File(s))}
    BY InsertStep DEF Holding
<1>2. /\ txn'[s].dir = txn[s].dir /\ txn'[s].gone = txn[s].gone /\ txn'[s].sets = txn[s].sets
      /\ txn'[s].since = txn[s].since /\ txn'[s].snap = txn[s].snap
    BY <1>1 DEF Kept
<1>3. txn[s].stage = "insert" /\ Active(s) /\ UNCHANGED Own /\ RoomFor(s, Slug(s))
    BY DEF InsertBatch, Active, Own
<1>4. /\ txn[s].at \in 1..Len(txn[s].dir) /\ txn[s].at \in Nat /\ Len(txn[s].dir) \in Nat
      /\ txn[s].dir[txn[s].at] = File(s) /\ Slug(s) \in Problems
    BY <1>3, AtFile DEF Holding, Shape, Txn, File
<1>5. Active(s)' /\ ~Waits(s)' /\ ~Deleting(s)' /\ txn'[s].stage \in {"commit", "read"}
    BY <1>1 DEF Active, Waits, Deleting
<1>6. \A p : Done(s, p)' <=> Done(s, p) \/ p = Slug(s)
  <2>1. 1..txn'[s].at - 1 = (1..txn[s].at - 1) \cup {txn[s].at}
      BY <1>1, <1>4
  <2> QED
      BY <1>2, <1>3, <1>4, <1>5, <2>1 DEF Done, Slug
<1>7. \A p : Here(s, p) <=> p = Slug(s)
    BY <1>3, HereIs
<1>8. Position(s)'
  <2>1. /\ LoadProblemFiles(txn[s].dir)
        /\ txn[s].mine = {Batch(s, txn[s].dir[i]) : i \in 1..txn[s].at - 1}
      BY <1>3 DEF Holding, Position
  <2>2. txn'[s].at \in 1..Len(txn[s].dir) + 1
      BY <1>1, <1>4
  <2>3. (txn'[s].stage = "commit") = (txn'[s].at = Len(txn[s].dir) + 1)
      BY <1>1, <1>4
  <2>4. txn'[s].mine = {Batch(s, txn[s].dir[i]) : i \in 1..txn'[s].at - 1}
    <3>1. 1..txn'[s].at - 1 = (1..txn[s].at - 1) \cup {txn[s].at}
        BY <1>1, <1>4
    <3> QED
        BY <1>1, <1>4, <2>1, <3>1
  <2> QED
      BY <1>2, <2>1, <2>2, <2>3, <2>4 DEF Position
<1>9. NothingHeld(s)'
    BY <1>5 DEF NothingHeld
<1>10. DeletesItsOwn(s)'
    BY <1>2, <1>5, <1>6, <1>7 DEF Holding, DeletesItsOwn
<1>11. SetsItsOwn(s)'
  <2>1. \A p \in DOMAIN txn[s].sets :
          /\ Done(s, p) \/ Here(s, p)
          /\ \A x \in DOMAIN txn[s].sets[p] : txn[s].sets[p][x] = FileOf(txn[s].dir, p)[x]
      BY DEF Holding, SetsItsOwn
  <2> QED
      BY <1>2, <1>6, <1>7, <2>1 DEF SetsItsOwn
<1>12. Emptied(s)'
  <2>1. \A p \in Problems : Done(s, p) \/ p = Slug(s) =>
          langs[p] \subseteq txn[s].gone["languages"] /\ cases[p] \subseteq txn[s].gone["cases"]
      BY <1>3 DEF Holding, Emptied, RoomFor
  <2> QED
      BY <1>2, <1>3, <1>6, <2>1 DEF Emptied, Own
<1>13. RowToCome(s)'
  <2>1. \A p \in Problems : Done(s, p) \/ p = Slug(s) =>
            row[p] # Absent \/ (p \in DOMAIN txn[s].sets /\ DOMAIN txn[s].sets[p] = Fields)
      BY <1>3, <1>7 DEF Holding, RowToCome
  <2> QED
      BY <1>2, <1>3, <1>5, <1>6, <2>1 DEF RowToCome, Own
<1>14. KnowsSince(s)'
  <2>1. \A p \in Problems : Reached(s, p)' => Reached(s, p)
      BY <1>3, <1>5, <1>6, <1>7 DEF Reached, Here
  <2> QED
      BY <1>2, <1>3, <2>1 DEF Holding, KnowsSince, Own
<1>15. ReadStill(s)'
    BY <1>5 DEF ReadStill
<1>16. RestIsThere(s)'
  <2>1. \A p : Merged(s, p)' => Merged(s, p)
      BY <1>3, <1>5, <1>6, <1>7 DEF Merged
  <2>2. \A p : Quiet(s, p)' <=> Quiet(s, p)
      BY <1>2, <1>3 DEF Quiet, Own
  <2> QED
      BY <1>2, <1>3, <2>1, <2>2 DEF Holding, RestIsThere, Own
<1> QED
    BY <1>8, <1>9, <1>10, <1>11, <1>12, <1>13, <1>14, <1>15, <1>16 DEF Holding

\* A transaction that is over holds nothing.
LEMMA OverHolds ==
    ASSUME Shape, NEW s \in Seeds, txn' = [txn EXCEPT ![s] = [NoTxn EXCEPT !.stage = "done"]]
    PROVE  /\ Holding(s)' /\ DOMAIN txn'[s].sets = {}
           /\ \A table \in {"languages", "cases"} : txn'[s].gone[table] = {}
<1>1. /\ ~Active(s)' /\ NothingHeld(s)' /\ DOMAIN txn'[s].sets = {} /\ txn'[s].stage = "done"
    BY AbortStep
<1>2. \A table \in {"languages", "cases"} : txn'[s].gone[table] = {}
    BY <1>1 DEF NothingHeld
<1>3. \A p : ~Done(s, p)' /\ ~Here(s, p)'
    BY <1>1 DEF Done, Here
<1>4. ~Waits(s)' /\ ~Deleting(s)'
    BY <1>1 DEF Waits, Deleting
<1>5. Position(s)' /\ DeletesItsOwn(s)' /\ SetsItsOwn(s)'
    BY <1>1, <1>2, <1>4 DEF Position, DeletesItsOwn, SetsItsOwn
<1>6. Emptied(s)' /\ RowToCome(s)'
    BY <1>1, <1>3, <1>4 DEF Emptied, RowToCome
<1>7. KnowsSince(s)' /\ ReadStill(s)' /\ RestIsThere(s)'
    BY <1>1, <1>3 DEF KnowsSince, ReadStill, RestIsThere, Reached, Merged
<1> QED
    BY <1>1, <1>2, <1>5, <1>6, <1>7 DEF Holding

-----------------------------------------------------------------------------
(* Steps before the commit: the locks *)

\* What a step adds to its locks, nobody else holds.
LEMMA StillApart ==
    ASSUME NEW s, NEW t, Apart(s, t), txn'[t] = txn[t],
           \A p \in DOMAIN txn'[s].sets :
               p \in DOMAIN txn[s].sets \/ p \notin DOMAIN txn[t].sets,
           \A table \in {"languages", "cases"} : \A b \in txn'[s].gone[table] :
               b \in txn[s].gone[table] \/ b \notin txn[t].gone[table]
    PROVE  Apart(s, t)' /\ Apart(t, s)'
BY DEF Apart

LEMMA SeedKeepsApart ==
    ASSUME Shape, NEW s \in Seeds, Holding(s), NEW t \in Seeds \ {s}, Apart(s, t),
           \/ ReadProblem(s) \/ CreateProblem(s) \/ UpdateProblem(s)
           \/ DeleteBatch(s) \/ DeleteAfterWait(s) \/ InsertBatch(s) \/ StartSeed(s)
    PROVE  Apart(s, t)' /\ Apart(t, s)'
<1>1. Position(s)
    BY DEF Holding
<1>2. ASSUME NEW fields \in SUBSET {"stage", "at", "read", "since", "snap", "mine"}, Kept(s, fields)
      PROVE  Apart(s, t)' /\ Apart(t, s)'
  <2>1. txn'[t] = txn[t] /\ txn'[s].sets = txn[s].sets /\ txn'[s].gone = txn[s].gone
      BY <1>2 DEF Kept
  <2> QED
      BY <2>1, StillApart
<1>3. CASE StartSeed(s)
    BY <1>2, <1>3, StartStep
<1>4. CASE ReadProblem(s)
    BY <1>1, <1>2, <1>4, ReadStep
<1>5. CASE InsertBatch(s)
    BY <1>1, <1>2, <1>5, InsertStep
<1>6. CASE CreateProblem(s)
  <2>1. /\ Kept(s, {"stage", "sets"})
        /\ txn'[s].sets = Put(Slug(s), Metadata(File(s)), txn[s].sets)
      BY <1>1, <1>6, CreateStep
  <2>2. txn'[t] = txn[t] /\ txn'[s].gone = txn[s].gone
      BY <2>1 DEF Kept
  <2>3. Slug(s) \notin DOMAIN txn[t].sets
      BY <1>6 DEF CreateProblem, RowLocked
  <2>4. DOMAIN txn'[s].sets = DOMAIN txn[s].sets \cup {Slug(s)}
      BY <2>1 DEF Put, Over
  <2> QED
      BY <2>2, <2>3, <2>4, StillApart
<1>7. CASE UpdateProblem(s)
  <2>1. Kept(s, {"stage", "sets", "read"}) /\ txn'[s].sets = Updated(s)
      BY <1>1, <1>7, UpdateStep
  <2>2. txn'[t] = txn[t] /\ txn'[s].gone = txn[s].gone
      BY <2>1 DEF Kept
  <2> DEFINE changed == Changed(File(s), txn[s].read)
  <2>3. changed # {} => Slug(s) \notin DOMAIN txn[t].sets
      BY <1>7 DEF UpdateProblem, RowLocked
  <2>4. changed # {} => DOMAIN Updated(s) = DOMAIN txn[s].sets \cup {Slug(s)}
      BY DEF Updated, Put, Over
  <2>5. changed = {} => DOMAIN Updated(s) = DOMAIN txn[s].sets
      BY DEF Updated
  <2> HIDE DEF changed
  <2>6. \A p \in DOMAIN txn'[s].sets : p \in DOMAIN txn[s].sets \/ p \notin DOMAIN txn[t].sets
      BY <2>1, <2>3, <2>4, <2>5
  <2> QED
      BY <2>2, <2>6, StillApart
<1>8. ASSUME NEW more, NEW table \in {"languages", "cases"}, more \cap txn[t].gone[table] = {},
             txn'[s].gone = [txn[s].gone EXCEPT ![table] = @ \cup more],
             txn'[s].sets = txn[s].sets, txn'[t] = txn[t]
      PROVE  Apart(s, t)' /\ Apart(t, s)'
  <2>1. txn[s].gone \in [languages : SUBSET Batches, cases : SUBSET Batches]
      BY DEF Shape, Txn
  <2>2. \A tab \in {"languages", "cases"} : \A b \in txn'[s].gone[tab] :
            b \in txn[s].gone[tab] \/ b \notin txn[t].gone[tab]
      BY <1>8, <2>1
  <2> QED
      BY <1>8, <2>2, StillApart
<1>9. CASE DeleteBatch(s)
  <2> DEFINE table == txn[s].stage
             found == Rows(table, Slug(s))
  <2>1. /\ table \in {"languages", "cases"}
        /\ \/ Kept(s, {"stage", "snap"})
           \/ /\ Kept(s, {"stage", "gone"})
              /\ \A u \in Seeds \ {s} : found \cap txn[u].gone[table] = {}
              /\ txn'[s].gone = [txn[s].gone EXCEPT ![table] = @ \cup found]
      BY <1>1, <1>9, DeleteStep
  <2> HIDE DEF table, found
  <2>2. CASE Kept(s, {"stage", "snap"})
      BY <1>2, <2>2
  <2>3. CASE /\ Kept(s, {"stage", "gone"})
             /\ \A u \in Seeds \ {s} : found \cap txn[u].gone[table] = {}
             /\ txn'[s].gone = [txn[s].gone EXCEPT ![table] = @ \cup found]
    <3>1. txn'[s].sets = txn[s].sets /\ txn'[t] = txn[t]
        BY <2>3 DEF Kept
    <3> QED
        BY <1>8, <2>1, <2>3, <3>1
  <2> QED
      BY <2>1, <2>2, <2>3
<1>10. CASE DeleteAfterWait(s)
  <2> DEFINE table == Table(txn[s].stage)
             left == txn[s].snap \cap Rows(table, Slug(s))
  <2>1. /\ table \in {"languages", "cases"}
        /\ Kept(s, {"stage", "snap", "gone"})
        /\ \A u \in Seeds \ {s} : left \cap txn[u].gone[table] = {}
        /\ txn'[s].gone = [txn[s].gone EXCEPT ![table] = @ \cup left]
      BY <1>1, <1>10, WaitStep
  <2> HIDE DEF table, left
  <2>2. txn'[s].sets = txn[s].sets /\ txn'[t] = txn[t]
      BY <2>1 DEF Kept
  <2> QED
      BY <1>8, <2>1, <2>2
<1> QED
    BY <1>3, <1>4, <1>5, <1>6, <1>7, <1>9, <1>10

-----------------------------------------------------------------------------
(* The commit *)

\* Two open transactions never have batches of one problem both.
LEMMA OneInserts ==
    ASSUME Shape, NEW s \in Seeds, NEW t \in Seeds, Apart(s, t), Holding(s), Holding(t),
           NEW p \in Problems, Committed(p), Done(s, p), Done(t, p)
    PROVE  FALSE
<1>1. /\ langs[p] \subseteq txn[s].gone["languages"]
      /\ langs[p] \subseteq txn[t].gone["languages"]
    BY DEF Holding, Emptied
<1>2. langs[p] = {}
    BY <1>1 DEF Apart
<1>3. row[p] = Absent
    BY <1>2 DEF Committed
<1>4. p \in DOMAIN txn[s].sets /\ p \in DOMAIN txn[t].sets
    BY <1>3 DEF Holding, RowToCome
<1> QED
    BY <1>4 DEF Apart

\* At its commit a transaction has been through every file.
LEMMA AtTheEnd ==
    ASSUME Shape, NEW s \in Seeds, Holding(s), txn[s].stage = "commit"
    PROVE  /\ \A p : Done(s, p) <=> p \in SlugsOf(txn[s].dir)
           /\ \A p : ~Here(s, p)
           /\ LoadProblemFiles(txn[s].dir) /\ txn[s].dir \in Seq(SeedFiles)
           /\ txn[s].mine = {Batch(s, f) : f \in Range(txn[s].dir)}
           /\ SlugsOf(txn[s].dir) \subseteq Problems
<1>1. /\ txn[s].at = Len(txn[s].dir) + 1 /\ LoadProblemFiles(txn[s].dir) /\ Active(s)
      /\ txn[s].mine = {Batch(s, txn[s].dir[i]) : i \in 1..txn[s].at - 1}
    BY DEF Holding, Position, Active
<1>2. txn[s].dir \in Seq(SeedFiles)
    BY DEF Shape, Txn
<1>3. 1..txn[s].at - 1 = DOMAIN txn[s].dir /\ DOMAIN txn[s].dir = 1..Len(txn[s].dir)
    BY <1>1, <1>2
<1>4. \A p : Done(s, p) <=> p \in SlugsOf(txn[s].dir)
    BY <1>1, <1>3 DEF Done, SlugsOf, Range
<1>5. txn[s].mine = {Batch(s, f) : f \in Range(txn[s].dir)}
    BY <1>1, <1>3 DEF Range
<1>6. \A p : ~Here(s, p)
    BY DEF Here
<1>7. SlugsOf(txn[s].dir) \subseteq Problems
  <2>1. Range(txn[s].dir) \subseteq SeedFiles
      BY <1>2, <1>3 DEF Range
  <2> QED
      BY <2>1, SetupAssumption DEF SlugsOf
<1> QED
    BY <1>1, <1>2, <1>4, <1>5, <1>6, <1>7

\* The batches after the commit: its own for its problems, and no other changed.
LEMMA WrittenIs ==
    ASSUME Shape, NEW s \in Seeds, Holding(s), txn[s].stage = "commit",
           NEW p \in Problems, Committed(p), NEW table \in {"languages", "cases"}
    PROVE  Written(s, table)[p] =
             IF p \in SlugsOf(txn[s].dir) THEN {Batch(s, FileOf(txn[s].dir, p))}
             ELSE Rows(table, p)
<1>1. /\ \A q : Done(s, q) <=> q \in SlugsOf(txn[s].dir)
      /\ \A q : ~Here(s, q)
      /\ LoadProblemFiles(txn[s].dir)
      /\ txn[s].mine = {Batch(s, f) : f \in Range(txn[s].dir)}
    BY AtTheEnd
<1> DEFINE new == {b \in txn[s].mine : b.file.slug = p}
<1>2. Written(s, table)[p] = (Rows(table, p) \ txn[s].gone[table]) \cup new
    BY DEF Written
<1>3. CASE p \in SlugsOf(txn[s].dir)
  <2>1. langs[p] \subseteq txn[s].gone["languages"] /\ cases[p] \subseteq txn[s].gone["cases"]
      BY <1>1, <1>3 DEF Holding, Emptied
  <2>2. Rows(table, p) \ txn[s].gone[table] = {}
      BY <2>1 DEF Rows
  <2>3. \A f, g \in Range(txn[s].dir) : f.slug = g.slug => f = g
      BY <1>1 DEF LoadProblemFiles, Range
  <2>4. FileOf(txn[s].dir, p) \in Range(txn[s].dir) /\ FileOf(txn[s].dir, p).slug = p
      BY <1>3, FileOfAny
  <2>5. \A f : Batch(s, f).file = f
      BY DEF Batch
  <2>6. new = {Batch(s, FileOf(txn[s].dir, p))}
      BY <1>1, <2>3, <2>4, <2>5
  <2> QED
      BY <1>2, <1>3, <2>2, <2>6
<1>4. CASE p \notin SlugsOf(txn[s].dir)
  <2>1. new = {}
      BY <1>1, <1>4 DEF SlugsOf, Batch
  <2>2. \A b \in txn[s].gone[table] : b.file.slug \in SlugsOf(txn[s].dir)
      BY <1>1 DEF Holding, DeletesItsOwn
  <2>3. \A b \in Rows(table, p) : b.file.slug = p
      BY BatchesAreAbout DEF Rows
  <2>4. Rows(table, p) \ txn[s].gone[table] = Rows(table, p)
      BY <1>4, <2>2, <2>3
  <2> QED
      BY <1>2, <1>4, <2>1, <2>4
<1> QED
    BY <1>3, <1>4

\* The row after the commit.
RowAfter(s, p) ==
    IF p \notin DOMAIN txn[s].sets THEN row[p]
    ELSE IF row[p] = Absent THEN txn[s].sets[p] ELSE Over(txn[s].sets[p], row[p])

LEMMA RowAfterIs ==
    ASSUME Shape, NEW s \in Seeds, Holding(s), txn[s].stage = "commit", NEW p \in Problems
    PROVE  /\ p \notin SlugsOf(txn[s].dir) => RowAfter(s, p) = row[p]
           /\ p \in SlugsOf(txn[s].dir) => RowAfter(s, p) \in RowSet
           /\ p \in SlugsOf(txn[s].dir) /\ Quiet(s, p) =>
                RowAfter(s, p) = Metadata(FileOf(txn[s].dir, p))
<1>1. /\ \A q : Done(s, q) <=> q \in SlugsOf(txn[s].dir)
      /\ \A q : ~Here(s, q)
      /\ txn[s].dir \in Seq(SeedFiles)
    BY AtTheEnd
<1> DEFINE f == FileOf(txn[s].dir, p)
           sets == txn[s].sets
<1>2. p \notin SlugsOf(txn[s].dir) => p \notin DOMAIN sets
    BY <1>1 DEF Holding, SetsItsOwn
<1>3. SUFFICES ASSUME p \in SlugsOf(txn[s].dir)
               PROVE  RowAfter(s, p) \in RowSet /\ (Quiet(s, p) => RowAfter(s, p) = Metadata(f))
    BY <1>2 DEF RowAfter
<1>4. f \in SeedFiles
    BY <1>1, <1>3, FileOfAny DEF Range
<1>5. row[p] \in RowSet \cup {Absent}
    BY DEF Shape
<1>6. \A x \in Fields : f[x] \in FieldValues
    BY <1>4 DEF FieldValues
<1>7. row[p] = Absent => p \in DOMAIN sets /\ DOMAIN sets[p] = Fields
    BY <1>1, <1>3 DEF Holding, RowToCome
<1>8. p \in DOMAIN sets => sets[p] \in Patch /\ \A x \in DOMAIN sets[p] : sets[p][x] = f[x]
  <2>1. sets \in Patches
      BY DEF Shape, Txn
  <2> QED
      BY <2>1 DEF Holding, SetsItsOwn, Patches
<1>9. row[p] # Absent /\ Quiet(s, p) =>
        \A x \in Fields : row[p][x] = f[x] \/ (p \in DOMAIN sets /\ x \in DOMAIN sets[p])
    BY <1>1, <1>3 DEF Holding, RestIsThere, Merged
<1> HIDE DEF f, sets
<1>10. CASE p \notin DOMAIN sets
  <2>1. RowAfter(s, p) = row[p] /\ row[p] \in RowSet
      BY <1>5, <1>7, <1>10 DEF RowAfter, sets
  <2> QED
      BY <2>1, <1>7, <1>9, <1>10 DEF RowSet, Metadata
<1>11. CASE p \in DOMAIN sets /\ row[p] = Absent
  <2>1. RowAfter(s, p) = sets[p]
      BY <1>11 DEF RowAfter, sets
  <2>2. sets[p] = [x \in Fields |-> f[x]]
      BY <1>7, <1>8, <1>11 DEF Patch
  <2> QED
      BY <2>1, <2>2, <1>6 DEF RowSet, Metadata
<1>12. CASE p \in DOMAIN sets /\ row[p] # Absent
  <2>1. RowAfter(s, p) = Over(sets[p], row[p])
      BY <1>12 DEF RowAfter, sets
  <2>2. row[p] \in RowSet /\ DOMAIN sets[p] \subseteq Fields
      BY <1>5, <1>8, <1>12 DEF Patch
  <2>3. Over(sets[p], row[p]) = [x \in Fields |-> IF x \in DOMAIN sets[p] THEN f[x] ELSE row[p][x]]
      BY <2>2, <1>8, <1>12 DEF Over, RowSet
  <2>4. Over(sets[p], row[p]) \in RowSet
      BY <2>2, <2>3, <1>6 DEF RowSet
  <2>5. Quiet(s, p) => Over(sets[p], row[p]) = [x \in Fields |-> f[x]]
      BY <2>3, <1>9, <1>12
  <2> QED
      BY <2>1, <2>4, <2>5 DEF Metadata
<1> QED
    BY <1>10, <1>11, <1>12

\* What a commit does, in one place.
Mine(s, p) == p \in SlugsOf(txn[s].dir)

LEMMA CommitIs ==
    ASSUME Shape, NEW s \in Seeds, Holding(s), \A p \in Problems : Committed(p), CommitSeed(s)
    PROVE  /\ txn[s].stage = "commit"
           /\ txn' = [txn EXCEPT ![s] = [NoTxn EXCEPT !.stage = "done"]]
           /\ log' = Append(log, [by |-> s, dir |-> txn[s].dir, since |-> txn[s].since])
           /\ row' = [p \in Problems |-> RowAfter(s, p)]
           /\ langs' = [p \in Problems |-> IF Mine(s, p) THEN {Batch(s, FileOf(txn[s].dir, p))}
                                           ELSE langs[p]]
           /\ cases' = [p \in Problems |-> IF Mine(s, p) THEN {Batch(s, FileOf(txn[s].dir, p))}
                                           ELSE cases[p]]
           /\ \A p \in Problems : /\ row[p] # Absent => row'[p] # Absent
                                  /\ ~Mine(s, p) => row'[p] = row[p]
                                  /\ Mine(s, p) => row'[p] \in RowSet /\ row'[p] # Absent
<1>1. txn[s].stage = "commit"
    BY DEF CommitSeed
<1>2. row' = [p \in Problems |-> RowAfter(s, p)]
    BY DEF CommitSeed, RowAfter
<1>3. \A table \in {"languages", "cases"} :
        Written(s, table) = [p \in Problems |-> IF Mine(s, p) THEN {Batch(s, FileOf(txn[s].dir, p))}
                                                ELSE Rows(table, p)]
  <2>1. SUFFICES ASSUME NEW table \in {"languages", "cases"}
                 PROVE  Written(s, table) =
                          [p \in Problems |-> IF Mine(s, p) THEN {Batch(s, FileOf(txn[s].dir, p))}
                                              ELSE Rows(table, p)]
      OBVIOUS
  <2>2. \A p \in Problems : Written(s, table)[p] =
            IF Mine(s, p) THEN {Batch(s, FileOf(txn[s].dir, p))} ELSE Rows(table, p)
      BY <1>1, WrittenIs DEF Mine
  <2>3. \E g : Written(s, table) = [p \in Problems |-> g[p]]
    <3>1. Written(s, table) = [p \in Problems |-> Written(s, table)[p]]
        BY DEF Written
    <3> QED
        BY <3>1
  <2> QED
      BY <2>2, <2>3
<1>4. /\ langs' = [p \in Problems |-> IF Mine(s, p) THEN {Batch(s, FileOf(txn[s].dir, p))}
                                      ELSE langs[p]]
      /\ cases' = [p \in Problems |-> IF Mine(s, p) THEN {Batch(s, FileOf(txn[s].dir, p))}
                                      ELSE cases[p]]
  <2>1. langs' = Written(s, "languages") /\ cases' = Written(s, "cases")
      BY DEF CommitSeed
  <2>2. \A p : Rows("languages", p) = langs[p] /\ Rows("cases", p) = cases[p]
      BY DEF Rows
  <2> QED
      BY <1>3, <2>1, <2>2
<1>5. \A p \in Problems : /\ row[p] # Absent => row'[p] # Absent
                          /\ ~Mine(s, p) => row'[p] = row[p]
                          /\ Mine(s, p) => row'[p] \in RowSet /\ row'[p] # Absent
  <2>1. Absent \notin RowSet
      BY SetupAssumption DEF RowSet
  <2> QED
      BY <1>1, <1>2, <2>1, RowAfterIs DEF Mine
<1> QED
    BY <1>1, <1>2, <1>4, <1>5 DEF CommitSeed

LEMMA CommitShape ==
    ASSUME Shape, NEW s \in Seeds, Holding(s), \A p \in Problems : Committed(p), CommitSeed(s)
    PROVE  Shape'
<1>1. /\ txn[s].stage = "commit"
      /\ txn' = [txn EXCEPT ![s] = [NoTxn EXCEPT !.stage = "done"]]
      /\ log' = Append(log, [by |-> s, dir |-> txn[s].dir, since |-> txn[s].since])
      /\ row' = [p \in Problems |-> RowAfter(s, p)]
      /\ langs' = [p \in Problems |-> IF Mine(s, p) THEN {Batch(s, FileOf(txn[s].dir, p))}
                                      ELSE langs[p]]
      /\ cases' = [p \in Problems |-> IF Mine(s, p) THEN {Batch(s, FileOf(txn[s].dir, p))}
                                      ELSE cases[p]]
      /\ \A p \in Problems : /\ ~Mine(s, p) => row'[p] = row[p]
                             /\ Mine(s, p) => row'[p] \in RowSet
    BY CommitIs
<1>2. txn' \in [Seeds -> Txn]
    BY <1>1, AbortStep
<1>3. row' \in [Problems -> RowSet \cup {Absent}]
  <2>1. \A p \in Problems : RowAfter(s, p) \in RowSet \cup {Absent}
      BY <1>1 DEF Shape
  <2> QED
      BY <1>1, <2>1
<1>4. \A p \in Problems : Mine(s, p) => Batch(s, FileOf(txn[s].dir, p)) \in Batches
  <2>1. txn[s].dir \in Seq(SeedFiles)
      BY <1>1, AtTheEnd
  <2>2. \A p \in Problems : Mine(s, p) => FileOf(txn[s].dir, p) \in SeedFiles
      BY <2>1, FileOfAny DEF Mine, Range
  <2> QED
      BY <2>2 DEF Batch, Batches
<1>5. langs' \in [Problems -> SUBSET Batches] /\ cases' \in [Problems -> SUBSET Batches]
    BY <1>1, <1>4 DEF Shape
<1>6. log' \in Seq(Entry)
  <2>1. txn[s] \in Txn
      BY DEF Shape
  <2>2. [by |-> s, dir |-> txn[s].dir, since |-> txn[s].since] \in Entry
      BY <2>1 DEF Txn, Entry
  <2> QED
      BY <1>1, <2>2 DEF Shape
<1> QED
    BY <1>2, <1>3, <1>5, <1>6 DEF Shape

\* The log after a commit.
LEMMA CommitLog ==
    ASSUME Shape, NEW s \in Seeds, CommitSeed(s)
    PROVE  /\ Len(log) \in Nat /\ Len(log') = Len(log) + 1
           /\ DOMAIN log = 1..Len(log) /\ DOMAIN log' = 1..Len(log) + 1
           /\ \A i \in 1..Len(log) : log'[i] = log[i]
           /\ log'[Len(log) + 1].by = s /\ log'[Len(log) + 1].dir = txn[s].dir
           /\ log'[Len(log) + 1].since = txn[s].since
<1> DEFINE e == [by |-> s, dir |-> txn[s].dir, since |-> txn[s].since]
<1>1. log' = Append(log, e) /\ log \in Seq(Entry)
    BY DEF CommitSeed, Shape
<1>2. e.by = s /\ e.dir = txn[s].dir /\ e.since = txn[s].since
    OBVIOUS
<1> HIDE DEF e
<1>3. /\ Len(log) \in Nat /\ Len(log') = Len(log) + 1
      /\ DOMAIN log = 1..Len(log) /\ DOMAIN log' = 1..Len(log) + 1
      /\ \A i \in 1..Len(log) : log'[i] = log[i]
      /\ log'[Len(log) + 1] = e
    BY <1>1
<1> QED
    BY <1>2, <1>3

LEMMA CommitNames ==
    ASSUME Shape, NEW s \in Seeds, CommitSeed(s), NEW p
    PROVE  /\ Mine(s, p) => Names(p)' = Names(p) \cup {Len(log) + 1} /\ Latest(p)' = Len(log) + 1
           /\ ~Mine(s, p) => Names(p)' = Names(p) /\ Latest(p)' = Latest(p)
<1>1. /\ Len(log) \in Nat
      /\ DOMAIN log = 1..Len(log) /\ DOMAIN log' = 1..Len(log) + 1
      /\ \A i \in 1..Len(log) : log'[i] = log[i]
      /\ log'[Len(log) + 1].dir = txn[s].dir
    BY CommitLog
<1>2. Mine(s, p) => Names(p)' = Names(p) \cup {Len(log) + 1}
    BY <1>1 DEF Names, Mine
<1>3. ~Mine(s, p) => Names(p)' = Names(p)
    BY <1>1 DEF Names, Mine
<1>4. ~Mine(s, p) => Latest(p)' = Latest(p)
    BY <1>3 DEF Latest
<1>5. Mine(s, p) => Latest(p)' = Len(log) + 1
  <2>1. SUFFICES ASSUME Mine(s, p) PROVE Latest(p)' = Len(log) + 1
      OBVIOUS
  <2> DEFINE N == Names(p)'
             n == Len(log) + 1
  <2>2. N \in SUBSET (1..n) /\ n \in N
      BY <1>1, <1>2, <2>1 DEF Names
  <2>3. Latest(p)' = CHOOSE i \in N : \A j \in N : j <= i
      BY DEF Latest
  <2> HIDE DEF N
  <2>4. \A i \in N : (\A j \in N : j <= i) => i = n
      BY <2>2, <1>1
  <2>5. \A j \in N : j <= n
      BY <2>2, <1>1
  <2> QED
      BY <2>2, <2>3, <2>4, <2>5
<1> QED
    BY <1>2, <1>3, <1>4, <1>5

LEMMA CommitLogged ==
    ASSUME Shape, NEW s \in Seeds, Holding(s), Logged, CommitSeed(s)
    PROVE  Logged'
<1>1. /\ Len(log) \in Nat
      /\ DOMAIN log = 1..Len(log) /\ DOMAIN log' = 1..Len(log) + 1
      /\ \A i \in 1..Len(log) : log'[i] = log[i]
      /\ log'[Len(log) + 1].dir = txn[s].dir
      /\ log'[Len(log) + 1].since = txn[s].since
    BY CommitLog
<1>2. /\ \A p : Done(s, p) <=> p \in SlugsOf(txn[s].dir)
      /\ LoadProblemFiles(txn[s].dir) /\ SlugsOf(txn[s].dir) \subseteq Problems
    BY AtTheEnd DEF CommitSeed
<1>3. \A p \in SlugsOf(txn[s].dir) : p \in DOMAIN txn[s].since /\ txn[s].since[p] <= Len(log)
    BY <1>2 DEF Holding, KnowsSince, Reached
<1>4. \A p \in SlugsOf(txn[s].dir) : txn[s].since[p] < Len(log) + 1
  <2>1. txn[s].since \in Sinces
      BY DEF Shape, Txn
  <2>2. \A p \in SlugsOf(txn[s].dir) : txn[s].since[p] \in Nat
      BY <1>3, <2>1 DEF Sinces
  <2> QED
      BY <1>1, <1>3, <2>2
<1>5. SUFFICES ASSUME NEW i \in 1..Len(log) + 1
               PROVE  /\ LoadProblemFiles(log'[i].dir)
                      /\ log'[i].by # Absent =>
                           \A p \in SlugsOf(log'[i].dir) :
                               p \in DOMAIN log'[i].since /\ log'[i].since[p] < i
    BY <1>1 DEF Logged
<1>6. CASE i \in 1..Len(log)
    BY <1>1, <1>6 DEF Logged
<1>7. CASE i = Len(log) + 1
    BY <1>1, <1>2, <1>3, <1>4, <1>7
<1> QED
    BY <1>1, <1>6, <1>7

LEMMA CommitCommitted ==
    ASSUME Shape, NEW s \in Seeds, Holding(s), \A q \in Problems : Committed(q), Logged,
           CommitSeed(s), NEW p \in Problems
    PROVE  Committed(p)'
<1>1. /\ txn[s].stage = "commit"
      /\ row' = [q \in Problems |-> RowAfter(s, q)]
      /\ langs' = [q \in Problems |-> IF Mine(s, q) THEN {Batch(s, FileOf(txn[s].dir, q))}
                                      ELSE langs[q]]
      /\ cases' = [q \in Problems |-> IF Mine(s, q) THEN {Batch(s, FileOf(txn[s].dir, q))}
                                      ELSE cases[q]]
      /\ ~Mine(s, p) => row'[p] = row[p]
      /\ Mine(s, p) => row'[p] # Absent
    BY CommitIs
<1>2. /\ Len(log) \in Nat
      /\ DOMAIN log = 1..Len(log) /\ DOMAIN log' = 1..Len(log) + 1
      /\ \A i \in 1..Len(log) : log'[i] = log[i]
      /\ log'[Len(log) + 1].by = s /\ log'[Len(log) + 1].dir = txn[s].dir
      /\ log'[Len(log) + 1].since = txn[s].since
    BY CommitLog
<1>3. CASE Mine(s, p)
  <2>1. Names(p)' # {} /\ Latest(p)' = Len(log) + 1
      BY <1>3, CommitNames
  <2>2. LatestFile(p)' = FileOf(txn[s].dir, p) /\ log'[Latest(p)'].by = s
      BY <2>1, <1>2 DEF LatestFile
  <2>3. langs'[p] = {Batch(s, FileOf(txn[s].dir, p))} /\ cases'[p] = langs'[p] /\ row'[p] # Absent
      BY <1>1, <1>3
  <2>4. s # Absent
      BY SetupAssumption
  <2>5. ~Overlapped(p)' => row'[p] = Metadata(FileOf(txn[s].dir, p))
    <3>1. SUFFICES ASSUME ~Overlapped(p)' PROVE Quiet(s, p)
        BY <1>1, <1>3, RowAfterIs DEF Mine
    <3>2. txn[s].since[p] \in Nat
      <4>1. p \in DOMAIN txn[s].since
          BY <1>1, <1>3, AtTheEnd DEF Holding, KnowsSince, Reached, Mine
      <4>2. txn[s].since \in Sinces
          BY DEF Shape, Txn
      <4> QED
          BY <4>1, <4>2 DEF Sinces
    <3>3. \A j \in txn[s].since[p] + 1..Len(log) : p \notin SlugsOf(log'[j].dir)
        BY <3>1, <2>1, <1>2 DEF Overlapped
    <3> QED
        BY <3>2, <3>3, <1>2 DEF Quiet
  <2> QED
      BY <2>1, <2>2, <2>3, <2>4, <2>5 DEF Committed
<1>4. CASE ~Mine(s, p)
  <2>1. Names(p)' = Names(p) /\ Latest(p)' = Latest(p)
      BY <1>4, CommitNames
  <2>2. row'[p] = row[p] /\ langs'[p] = langs[p] /\ cases'[p] = cases[p]
      BY <1>1, <1>4
  <2>3. CASE Names(p) = {}
      BY <2>1, <2>2, <2>3 DEF Committed
  <2>4. CASE Names(p) # {}
    <3>1. Latest(p) \in Names(p) /\ Latest(p) \in 1..Len(log) /\ p \in SlugsOf(log[Latest(p)].dir)
        BY <2>4, LatestNames, <1>2 DEF Names
    <3>2. log'[Latest(p)] = log[Latest(p)]
        BY <3>1, <1>2
    <3>3. LatestFile(p)' = LatestFile(p)
        BY <2>1, <3>2 DEF LatestFile
    <3>4. log[Latest(p)].by # Absent => (Overlapped(p)' <=> Overlapped(p))
      <4>1. SUFFICES ASSUME log[Latest(p)].by # Absent PROVE Overlapped(p)' <=> Overlapped(p)
          OBVIOUS
      <4>2. log[Latest(p)].since[p] \in Nat
        <5>1. p \in DOMAIN log[Latest(p)].since
            BY <3>1, <4>1, <1>2 DEF Logged
        <5>2. log[Latest(p)] \in Entry
            BY <3>1 DEF Shape
        <5> QED
            BY <5>1, <5>2 DEF Entry, Sinces
      <4>3. \A j \in log[Latest(p)].since[p] + 1..Latest(p) - 1 : log'[j] = log[j]
          BY <4>2, <3>1, <1>2
      <4> QED
          BY <2>1, <3>2, <4>3 DEF Overlapped
    <3>5. log[Latest(p)].by = Absent \/ ~Overlapped(p)' => row[p] = Metadata(LatestFile(p))
        BY <2>4, <3>4 DEF Committed
    <3> QED
        BY <2>1, <2>2, <2>4, <3>2, <3>3, <3>5 DEF Committed
  <2> QED
      BY <2>3, <2>4
<1> QED
    BY <1>3, <1>4

\* What another transaction knows stays true when s commits.
LEMMA CommitOthers ==
    ASSUME Shape, NEW s \in Seeds, Holding(s), \A q \in Problems : Committed(q),
           CommitSeed(s), NEW t \in Seeds \ {s}, Holding(t), Apart(s, t)
    PROVE  Holding(t)'
<1>1. /\ txn[s].stage = "commit"
      /\ txn' = [txn EXCEPT ![s] = [NoTxn EXCEPT !.stage = "done"]]
      /\ langs' = [p \in Problems |-> IF Mine(s, p) THEN {Batch(s, FileOf(txn[s].dir, p))}
                                      ELSE langs[p]]
      /\ cases' = [p \in Problems |-> IF Mine(s, p) THEN {Batch(s, FileOf(txn[s].dir, p))}
                                      ELSE cases[p]]
      /\ \A p \in Problems : /\ row[p] # Absent => row'[p] # Absent
                             /\ ~Mine(s, p) => row'[p] = row[p]
    BY CommitIs
<1>2. txn'[t] = txn[t]
    BY <1>1, AbortStep
<1>3. /\ Len(log) \in Nat /\ Len(log') = Len(log) + 1
      /\ \A i \in 1..Len(log) : log'[i] = log[i]
      /\ log'[Len(log) + 1].dir = txn[s].dir
    BY CommitLog
<1>4. /\ (Active(t)' <=> Active(t)) /\ (Waits(t)' <=> Waits(t))
      /\ (Deleting(t)' <=> Deleting(t)) /\ Slug(t)' = Slug(t)
    BY <1>2 DEF Active, Waits, Deleting, Slug, File
<1>5. \A p : (Done(t, p)' <=> Done(t, p)) /\ (Here(t, p)' <=> Here(t, p))
    BY <1>2, <1>4 DEF Done, Here
<1>6. \A p \in Problems : Done(t, p) => ~Mine(s, p)
    BY <1>1, AtTheEnd, OneInserts DEF Mine
<1>7. \A p \in Problems : Reached(t, p) =>
         p \in DOMAIN txn[t].since /\ txn[t].since[p] <= Len(log) /\ txn[t].since[p] \in Nat
  <2>1. txn[t].since \in Sinces
      BY DEF Shape, Txn
  <2> QED
      BY <2>1 DEF Holding, KnowsSince, Sinces
<1>8. \A p \in Problems : Reached(t, p) /\ Quiet(t, p)' => ~Mine(s, p) /\ Quiet(t, p)
  <2>1. SUFFICES ASSUME NEW p \in Problems, Reached(t, p), Quiet(t, p)'
                 PROVE  ~Mine(s, p) /\ Quiet(t, p)
      OBVIOUS
  <2>2. \A i \in txn[t].since[p] + 1..Len(log) + 1 : p \notin SlugsOf(log'[i].dir)
      BY <1>2, <1>3, <2>1 DEF Quiet
  <2>3. txn[t].since[p] <= Len(log) /\ txn[t].since[p] \in Nat
      BY <1>7, <2>1
  <2>4. p \notin SlugsOf(log'[Len(log) + 1].dir)
      BY <1>3, <2>2, <2>3
  <2>5. \A i \in txn[t].since[p] + 1..Len(log) : p \notin SlugsOf(log[i].dir)
      BY <1>3, <2>2, <2>3
  <2> QED
      BY <1>3, <2>4, <2>5 DEF Quiet, Mine
<1>9. Position(t)' /\ NothingHeld(t)'
    BY <1>2, <1>4 DEF Holding, Position, NothingHeld
<1>10. DeletesItsOwn(t)' /\ SetsItsOwn(t)'
    BY <1>2, <1>4, <1>5 DEF Holding, DeletesItsOwn, SetsItsOwn
<1>11. Emptied(t)'
  <2>1. \A p \in Problems : Done(t, p) => langs'[p] = langs[p] /\ cases'[p] = cases[p]
      BY <1>1, <1>6
  <2> QED
      BY <1>2, <1>5, <2>1 DEF Holding, Emptied
<1>12. RowToCome(t)'
  <2>1. \A p \in Problems : Done(t, p) \/ (Here(t, p) /\ txn[t].stage = "insert") =>
            row'[p] # Absent \/ (p \in DOMAIN txn[t].sets /\ DOMAIN txn[t].sets[p] = Fields)
      BY <1>1 DEF Holding, RowToCome
  <2>2. Deleting(t) \/ txn[t].stage = "update" => Slug(t) \in Problems
      BY AtFile DEF Holding, Deleting, Active
  <2>3. Deleting(t) \/ txn[t].stage = "update" => row'[Slug(t)] # Absent
      BY <1>1, <2>2 DEF Holding, RowToCome
  <2> QED
      BY <1>2, <1>4, <1>5, <2>1, <2>3 DEF RowToCome
<1>13. KnowsSince(t)'
  <2>1. \A p : Reached(t, p)' <=> Reached(t, p)
      BY <1>2, <1>5 DEF Reached
  <2>2. \A p \in Problems : Reached(t, p) => txn[t].since[p] <= Len(log) + 1
      BY <1>3, <1>7
  <2> QED
      BY <1>2, <1>3, <1>7, <2>1, <2>2 DEF KnowsSince
<1>14. ReadStill(t)'
  <2>1. SUFFICES ASSUME txn[t].stage = "update", NEW p, p = Slug(t), Quiet(t, p)'
                 PROVE  txn[t].read = row'[p]
      BY <1>2, <1>4 DEF ReadStill, Quiet
  <2>2. p \in Problems /\ Reached(t, p)
      BY <2>1, AtFile DEF Holding, Active, Reached, Here
  <2>3. ~Mine(s, p) /\ Quiet(t, p)
      BY <1>8, <2>1, <2>2
  <2> QED
      BY <1>1, <2>1, <2>2, <2>3 DEF Holding, ReadStill
<1>15. RestIsThere(t)'
  <2>1. \A p : (Merged(t, p)' <=> Merged(t, p)) /\ (Merged(t, p) => Reached(t, p))
      BY <1>2, <1>4, <1>5 DEF Merged, Reached, Deleting
  <2>2. SUFFICES ASSUME NEW p \in Problems, Merged(t, p), row'[p] # Absent, Quiet(t, p)', NEW x \in Fields
                 PROVE  \/ row'[p][x] = FileOf(txn[t].dir, p)[x]
                        \/ p \in DOMAIN txn[t].sets /\ x \in DOMAIN txn[t].sets[p]
      BY <1>2, <2>1 DEF RestIsThere
  <2>3. Quiet(t, p) /\ row'[p] = row[p]
      BY <1>1, <1>8, <2>1, <2>2
  <2> QED
      BY <2>2, <2>3 DEF Holding, RestIsThere
<1> QED
    BY <1>9, <1>10, <1>11, <1>12, <1>13, <1>14, <1>15 DEF Holding

-----------------------------------------------------------------------------
(* The invariant *)

LEMMA InitInv == Init => SeedInv
<1>1. SUFFICES ASSUME Init PROVE SeedInv
    OBVIOUS
<1> DEFINE file(base, p) == Replay(base, p)
<1>2. PICK setup \in Setups :
         /\ row = [p \in Problems |-> IF file(setup.base, p) = Absent THEN Absent
                                       ELSE Metadata(file(setup.base, p))]
         /\ langs = [p \in Problems |-> IF file(setup.base, p) = Absent THEN {}
                                         ELSE {Batch(Absent, file(setup.base, p))}]
         /\ cases = langs
         /\ log = [i \in DOMAIN setup.base |->
                     [by |-> Absent, dir |-> setup.base[i], since |-> <<>>]]
         /\ txn = [s \in Seeds |-> [NoTxn EXCEPT !.dir = setup.dir[s]]]
    BY <1>1 DEF Init
<1> DEFINE base == setup.base
<1>3. /\ base \in Seq(Directories) /\ Directories \subseteq Seq(SeedFiles)
      /\ \A dir \in Range(base) : LoadProblemFiles(dir)
    BY SetupAssumption
<1>4. DOMAIN base = 1..Len(base) /\ Len(base) \in Nat /\ \A i \in 1..Len(base) : base[i] \in Directories
    BY <1>3
<1>5. /\ DOMAIN log = 1..Len(base) /\ log \in Seq(Entry) /\ Len(log) = Len(base)
      /\ \A i \in 1..Len(base) : log[i].dir = base[i] /\ log[i].by = Absent
  <2>1. <<>> \in Sinces
      BY EmptyMap DEF Sinces
  <2>2. \A i \in 1..Len(base) : [by |-> Absent, dir |-> base[i], since |-> <<>>] \in Entry
      BY <1>3, <1>4, <2>1 DEF Entry
  <2>3. log = [i \in 1..Len(base) |-> [by |-> Absent, dir |-> base[i], since |-> <<>>]]
      BY <1>2, <1>4
  <2>4. log \in Seq(Entry) /\ Len(log) = Len(base)
      BY <1>4, <2>2, <2>3
  <2>5. \A i \in 1..Len(base) : log[i].dir = base[i] /\ log[i].by = Absent
      BY <2>3
  <2> QED
      BY <2>3, <2>4, <2>5
<1>6. \A p \in Problems :
         /\ Names(p) = {} => file(base, p) = Absent
         /\ Names(p) # {} => file(base, p) = LatestFile(p) /\ log[Latest(p)].by = Absent
                             /\ file(base, p) \in SeedFiles
  <2>1. SUFFICES ASSUME NEW p \in Problems
                 PROVE  /\ Names(p) = {} => file(base, p) = Absent
                        /\ Names(p) # {} => /\ file(base, p) = LatestFile(p)
                                            /\ log[Latest(p)].by = Absent
                                            /\ file(base, p) \in SeedFiles
      OBVIOUS
  <2> DEFINE with == {i \in DOMAIN base : p \in SlugsOf(base[i])}
  <2>2. Names(p) = with
      BY <1>4, <1>5 DEF Names
  <2>3. file(base, p) = IF with = {} THEN Absent
                        ELSE FileOf(base[CHOOSE i \in with : \A j \in with : j <= i], p)
      BY DEF Replay
  <2>4. CASE with = {}
      BY <2>2, <2>3, <2>4
  <2>5. CASE with # {}
    <3>1. \E i \in with : \A j \in with : j <= i
      <4>1. with \in SUBSET (1..Len(base))
          BY <1>4
      <4> QED
          BY <1>4, <2>5, <4>1, Greatest
    <3>2. Latest(p) = CHOOSE i \in with : \A j \in with : j <= i
        BY <2>2 DEF Latest
    <3>3. Latest(p) \in with
        BY <3>1, <3>2
    <3>4. file(base, p) = FileOf(base[Latest(p)], p)
        BY <2>3, <2>5, <3>2
    <3>5. base[Latest(p)] \in Seq(SeedFiles) /\ p \in SlugsOf(base[Latest(p)])
        BY <3>3, <1>3, <1>4
    <3>6. FileOf(base[Latest(p)], p) \in SeedFiles
        BY <3>5, FileOfAny DEF Range
    <3>7. log[Latest(p)].dir = base[Latest(p)] /\ log[Latest(p)].by = Absent
        BY <3>3, <1>4, <1>5
    <3> QED
        BY <2>2, <2>5, <3>4, <3>6, <3>7 DEF LatestFile
  <2> QED
      BY <2>4, <2>5
<1> HIDE DEF file, base
<1>7. Absent \notin SeedFiles /\ Absent \notin RowSet
    BY SetupAssumption DEF RowSet
<1>8. /\ row \in [Problems -> RowSet \cup {Absent}]
      /\ langs \in [Problems -> SUBSET Batches] /\ cases \in [Problems -> SUBSET Batches]
  <2>1. \A p \in Problems : file(base, p) # Absent => file(base, p) \in SeedFiles
      BY <1>6
  <2>2. \A p \in Problems : file(base, p) # Absent => Metadata(file(base, p)) \in RowSet
      BY <2>1, MetadataType
  <2>3. \A p \in Problems : file(base, p) # Absent => Batch(Absent, file(base, p)) \in Batches
      BY <2>1 DEF Batch, Batches
  <2>4. row = [p \in Problems |-> IF file(base, p) = Absent THEN Absent ELSE Metadata(file(base, p))]
      BY <1>2 DEF file, base
  <2>5. langs = [p \in Problems |-> IF file(base, p) = Absent THEN {}
                                    ELSE {Batch(Absent, file(base, p))}]
      BY <1>2 DEF file, base
  <2>6. row \in [Problems -> RowSet \cup {Absent}]
      BY <2>2, <2>4
  <2>7. langs \in [Problems -> SUBSET Batches]
      BY <2>3, <2>5
  <2> QED
      BY <2>6, <2>7, <1>2
<1>9. \A s \in Seeds : /\ txn[s] = [NoTxn EXCEPT !.dir = setup.dir[s]]
                       /\ setup.dir[s] \in Seq(SeedFiles)
  <2>1. \A s \in Seeds : setup.dir[s] \in Directories
      BY DEF Directories
  <2> QED
      BY <1>2, <1>3, <2>1
<1>10. txn \in [Seeds -> Txn]
  <2>1. ASSUME NEW dir \in Seq(SeedFiles) PROVE [NoTxn EXCEPT !.dir = dir] \in Txn
    <3>1. <<>> \in Patches /\ <<>> \in Sinces
        BY EmptyMap DEF Patches, Sinces
    <3> QED
        BY <3>1 DEF NoTxn, Txn, Stages
  <2> QED
      BY <1>2, <1>9, <2>1
<1>11. Shape
    BY <1>5, <1>8, <1>10 DEF Shape
<1>12. \A s \in Seeds : /\ txn[s].stage = "idle" /\ txn[s].sets = <<>> /\ txn[s].mine = {}
                        /\ txn[s].at = 0
                        /\ txn[s].gone["languages"] = {} /\ txn[s].gone["cases"] = {}
  <2>1. SUFFICES ASSUME NEW s \in Seeds
                 PROVE  /\ txn[s].stage = "idle" /\ txn[s].sets = <<>> /\ txn[s].mine = {}
                        /\ txn[s].at = 0
                        /\ txn[s].gone["languages"] = {} /\ txn[s].gone["cases"] = {}
      OBVIOUS
  <2>2. txn[s] = [NoTxn EXCEPT !.dir = setup.dir[s]]
      BY <1>9
  <2>3. txn[s].gone = [languages |-> {}, cases |-> {}]
      BY <2>2 DEF NoTxn
  <2>4. /\ txn[s].stage = "idle" /\ txn[s].sets = <<>> /\ txn[s].mine = {}
        /\ txn[s].at = 0
      BY <2>2 DEF NoTxn
  <2> QED
      BY <2>3, <2>4
<1>13. \A s \in Seeds : Holding(s)
  <2>1. SUFFICES ASSUME NEW s \in Seeds PROVE Holding(s)
      OBVIOUS
  <2>2. ~Active(s) /\ ~Waits(s) /\ ~Deleting(s)
      BY <1>12 DEF Active, Waits, Deleting
  <2>3. \A p : ~Done(s, p) /\ ~Here(s, p)
      BY <2>2 DEF Done, Here
  <2>4. Position(s) /\ NothingHeld(s)
      BY <1>12, <2>2 DEF Position, NothingHeld
  <2>5. DeletesItsOwn(s) /\ SetsItsOwn(s)
      BY <1>12, <2>2 DEF DeletesItsOwn, SetsItsOwn
  <2>6. Emptied(s) /\ RowToCome(s)
      BY <1>12, <2>2, <2>3 DEF Emptied, RowToCome
  <2>7. KnowsSince(s) /\ ReadStill(s) /\ RestIsThere(s)
      BY <1>12, <2>3 DEF KnowsSince, ReadStill, RestIsThere, Reached, Merged
  <2> QED
      BY <2>4, <2>5, <2>6, <2>7 DEF Holding
<1>14. \A s, t \in Seeds : s # t => Apart(s, t)
    BY <1>12 DEF Apart
<1>15. \A p \in Problems : Committed(p)
  <2>1. SUFFICES ASSUME NEW p \in Problems PROVE Committed(p)
      OBVIOUS
  <2>2. /\ row[p] = IF file(base, p) = Absent THEN Absent ELSE Metadata(file(base, p))
        /\ langs[p] = IF file(base, p) = Absent THEN {} ELSE {Batch(Absent, file(base, p))}
        /\ cases[p] = langs[p]
      BY <1>2 DEF file, base
  <2>3. CASE Names(p) = {}
      BY <1>6, <2>2, <2>3 DEF Committed
  <2>4. CASE Names(p) # {}
    <3>1. file(base, p) = LatestFile(p) /\ log[Latest(p)].by = Absent /\ file(base, p) \in SeedFiles
        BY <1>6, <2>4
    <3>2. file(base, p) # Absent /\ Metadata(file(base, p)) # Absent
        BY <1>7, <3>1, MetadataType
    <3> QED
        BY <2>2, <2>4, <3>1, <3>2 DEF Committed
  <2> QED
      BY <2>3, <2>4
<1>16. Logged
  <2>1. \A i \in 1..Len(base) : LoadProblemFiles(base[i])
      BY <1>3, <1>4 DEF Range
  <2> QED
      BY <1>5, <2>1 DEF Logged
<1> QED
    BY <1>11, <1>13, <1>14, <1>15, <1>16 DEF SeedInv

LEMMA OwnKept ==
    ASSUME Shape, UNCHANGED Own, txn' \in [Seeds -> Txn]
    PROVE  /\ Shape' /\ (Logged => Logged')
           /\ \A p \in Problems : Committed(p) => Committed(p)'
<1>1. Shape'
    BY DEF Shape, Own
<1>2. Logged => Logged'
    BY DEF Logged, Own
<1>3. \A p : /\ Names(p)' = Names(p) /\ Latest(p)' = Latest(p) /\ LatestFile(p)' = LatestFile(p)
             /\ (Overlapped(p)' <=> Overlapped(p))
  <2>1. \A p : Names(p)' = Names(p)
      BY DEF Names, Own
  <2>2. \A p : Latest(p)' = Latest(p)
      BY <2>1 DEF Latest
  <2>3. \A p : LatestFile(p)' = LatestFile(p) /\ (Overlapped(p)' <=> Overlapped(p))
      BY <2>2 DEF LatestFile, Overlapped, Own
  <2> QED
      BY <2>1, <2>2, <2>3
<1>4. \A p \in Problems : Committed(p) => Committed(p)'
    BY <1>3 DEF Committed, Own
<1> QED
    BY <1>1, <1>2, <1>4

LEMMA NextInv == SeedInv /\ [Next]_vars => SeedInv'
<1>1. SUFFICES ASSUME SeedInv, [Next]_vars PROVE SeedInv'
    OBVIOUS
<1>2. /\ Shape /\ Logged /\ \A p \in Problems : Committed(p)
      /\ \A s \in Seeds : Holding(s)
      /\ \A s, t \in Seeds : s # t => Apart(s, t)
    BY <1>1 DEF SeedInv
<1>3. ASSUME UNCHANGED Own, UNCHANGED txn PROVE SeedInv'
  <2>1. \A s \in Seeds : Holding(s)'
      BY <1>2, <1>3, OthersKept
  <2>2. \A s, t \in Seeds : s # t => Apart(s, t)'
      BY <1>2, <1>3 DEF Apart
  <2>3. txn' \in [Seeds -> Txn]
      BY <1>2, <1>3 DEF Shape
  <2> QED
      BY <1>2, <1>3, <2>1, <2>2, <2>3, OwnKept DEF SeedInv
<1>4. CASE Reader \/ UNCHANGED vars
    BY <1>3, <1>4 DEF Reader, Submit, ReadRow, ReadLanguages, ReadCases, Judge, Own, vars
<1>5. ASSUME NEW s \in Seeds, UNCHANGED Own, txn' \in [Seeds -> Txn],
             \A t \in Seeds \ {s} : txn'[t] = txn[t] /\ Apart(s, t)' /\ Apart(t, s)',
             Holding(s)'
      PROVE  SeedInv'
  <2>1. \A t \in Seeds : Holding(t)'
      BY <1>2, <1>5, OthersKept
  <2>2. \A t, u \in Seeds : t # u => Apart(t, u)'
    <3>1. SUFFICES ASSUME NEW t \in Seeds, NEW u \in Seeds, t # u PROVE Apart(t, u)'
        OBVIOUS
    <3>2. CASE t = s \/ u = s
        BY <1>5, <3>1, <3>2
    <3>3. CASE t # s /\ u # s
        BY <1>2, <1>5, <3>1, <3>3 DEF Apart
    <3> QED
        BY <3>2, <3>3
  <2> QED
      BY <1>2, <1>5, <2>1, <2>2, OwnKept DEF SeedInv
<1>6. ASSUME NEW s \in Seeds, NEW fields, Kept(s, fields), Holding(s)', UNCHANGED Own,
             \/ ReadProblem(s) \/ CreateProblem(s) \/ UpdateProblem(s)
             \/ DeleteBatch(s) \/ DeleteAfterWait(s) \/ InsertBatch(s) \/ StartSeed(s)
      PROVE  SeedInv'
  <2>1. \A t \in Seeds \ {s} : Apart(s, t)' /\ Apart(t, s)'
      BY <1>2, <1>6, SeedKeepsApart
  <2> QED
      BY <1>5, <1>6, <2>1 DEF Kept
<1>7. ASSUME NEW s \in Seeds, Seed(s) PROVE SeedInv'
  <2>1. Holding(s) /\ Position(s)
      BY <1>2 DEF Holding
  <2>2. CASE StartSeed(s)
    <3>1. UNCHANGED Own
        BY <2>2 DEF StartSeed, Own
    <3> QED
        BY <1>2, <1>6, <2>1, <2>2, <3>1, StartStep, StartHolds
  <2>3. CASE ReadProblem(s)
    <3>1. UNCHANGED Own
        BY <2>3 DEF ReadProblem, Own
    <3> QED
        BY <1>2, <1>6, <2>1, <2>3, <3>1, ReadStep, ReadHolds
  <2>4. CASE CreateProblem(s)
    <3>1. UNCHANGED Own
        BY <2>4 DEF CreateProblem, Own
    <3> QED
        BY <1>2, <1>6, <2>1, <2>4, <3>1, CreateStep, CreateHolds
  <2>5. CASE UpdateProblem(s)
    <3>1. UNCHANGED Own
        BY <2>5 DEF UpdateProblem, Own
    <3> QED
        BY <1>2, <1>6, <2>1, <2>5, <3>1, UpdateStep, UpdateHolds
  <2>6. CASE DeleteBatch(s)
    <3>1. UNCHANGED Own
        BY <2>6 DEF DeleteBatch, Own
    <3>2. Holding(s)'
        BY <1>2, <2>1, <2>6, DeleteHolds
    <3>3. Kept(s, {"stage", "snap"}) \/ Kept(s, {"stage", "gone"})
        BY <1>2, <2>1, <2>6, DeleteStep
    <3> QED
        BY <1>6, <2>6, <3>1, <3>2, <3>3
  <2>7. CASE DeleteAfterWait(s)
    <3>1. UNCHANGED Own
        BY <2>7 DEF DeleteAfterWait, Own
    <3>2. Holding(s)'
        BY <1>2, <2>1, <2>7, WaitHolds
    <3>3. Kept(s, {"stage", "snap", "gone"})
        BY <1>2, <2>1, <2>7, WaitStep
    <3> QED
        BY <1>6, <2>7, <3>1, <3>2, <3>3
  <2>8. CASE InsertBatch(s)
    <3>1. UNCHANGED Own
        BY <2>8 DEF InsertBatch, Own
    <3> QED
        BY <1>2, <1>6, <2>1, <2>8, <3>1, InsertStep, InsertHolds
  <2>9. ASSUME txn' = [txn EXCEPT ![s] = [NoTxn EXCEPT !.stage = "done"]]
        PROVE  /\ Holding(s)' /\ txn' \in [Seeds -> Txn]
               /\ \A t \in Seeds \ {s} : txn'[t] = txn[t] /\ Apart(s, t)' /\ Apart(t, s)'
    <3>1. /\ Holding(s)' /\ DOMAIN txn'[s].sets = {}
          /\ \A table \in {"languages", "cases"} : txn'[s].gone[table] = {}
        BY <1>2, <2>9, OverHolds
    <3>2. txn' \in [Seeds -> Txn] /\ \A t \in Seeds \ {s} : txn'[t] = txn[t]
        BY <1>2, <2>9, AbortStep
    <3> QED
        BY <3>1, <3>2 DEF Apart
  <2>10. CASE AbortSeed(s)
    <3>1. UNCHANGED Own /\ txn' = [txn EXCEPT ![s] = [NoTxn EXCEPT !.stage = "done"]]
        BY <2>10 DEF AbortSeed, Own
    <3> QED
        BY <1>5, <2>9, <3>1
  <2>11. CASE CommitSeed(s)
    <3>1. txn' = [txn EXCEPT ![s] = [NoTxn EXCEPT !.stage = "done"]]
        BY <2>11 DEF CommitSeed
    <3>2. \A t \in Seeds \ {s} : Holding(t)'
        BY <1>2, <2>11, CommitOthers
    <3>3. \A t, u \in Seeds : t # u => Apart(t, u)'
      <4>1. SUFFICES ASSUME NEW t \in Seeds, NEW u \in Seeds, t # u PROVE Apart(t, u)'
          OBVIOUS
      <4>2. CASE t = s \/ u = s
          BY <2>9, <3>1, <4>1, <4>2
      <4>3. CASE t # s /\ u # s
          BY <1>2, <2>9, <3>1, <4>1, <4>3 DEF Apart
      <4> QED
          BY <4>2, <4>3
    <3>4. Shape' /\ Logged'
        BY <1>2, <2>1, <2>11, CommitShape, CommitLogged
    <3>5. \A p \in Problems : Committed(p)'
        BY <1>2, <2>1, <2>11, CommitCommitted
    <3> QED
        BY <2>9, <3>1, <3>2, <3>3, <3>4, <3>5 DEF SeedInv
  <2> QED
      BY <1>7, <2>2, <2>3, <2>4, <2>5, <2>6, <2>7, <2>8, <2>10, <2>11 DEF Seed
<1> QED
    BY <1>1, <1>4, <1>7 DEF Next

\* What is committed is what the same seeds leave one after another (LikeOneAfterAnother), and
\* every problem there has its row, one batch of languages and one of cases.
LEMMA InvIsSerial == SeedInv => LikeOneAfterAnother
<1>1. SUFFICES ASSUME SeedInv PROVE LikeOneAfterAnother
    OBVIOUS
<1> DEFINE dirs == [i \in DOMAIN log |-> log[i].dir]
           f(p) == Replay(dirs, p)
<1>2. /\ Shape /\ Logged /\ \A p \in Problems : Committed(p)
    BY <1>1 DEF SeedInv
<1>3. \A p \in Problems :
         /\ Names(p) = {} => f(p) = Absent
         /\ Names(p) # {} => f(p) = LatestFile(p) /\ f(p) # Absent
  <2>1. SUFFICES ASSUME NEW p \in Problems
                 PROVE  /\ Names(p) = {} => f(p) = Absent
                        /\ Names(p) # {} => f(p) = LatestFile(p) /\ f(p) # Absent
      OBVIOUS
  <2> DEFINE with == {i \in DOMAIN dirs : p \in SlugsOf(dirs[i])}
  <2>2. with = Names(p)
      BY DEF Names
  <2>10. f(p) = IF with = {} THEN Absent
                ELSE FileOf(dirs[CHOOSE i \in with : \A j \in with : j <= i], p)
      BY DEF Replay
  <2> HIDE DEF with, f
  <2>3. f(p) = IF Names(p) = {} THEN Absent
               ELSE FileOf(dirs[CHOOSE i \in Names(p) : \A j \in Names(p) : j <= i], p)
      BY <2>2, <2>10
  <2>4. Names(p) # {} => f(p) = FileOf(dirs[Latest(p)], p)
      BY <2>3 DEF Latest
  <2>5. Names(p) # {} => Latest(p) \in DOMAIN log
      BY <1>2, LatestNames DEF Names
  <2>6. Names(p) # {} => f(p) = LatestFile(p)
      BY <2>4, <2>5 DEF LatestFile
  <2>7. Names(p) # {} => LatestFile(p) \in SeedFiles
      BY <1>2, LatestIsFile
  <2>8. Absent \notin SeedFiles
      BY SetupAssumption
  <2> HIDE DEF f
  <2> QED
      BY <2>3, <2>6, <2>7, <2>8
<1> HIDE DEF f
<1>4. SUFFICES ASSUME NEW p \in Problems
               PROVE  IF f(p) = Absent THEN row[p] = Absent /\ langs[p] = {} /\ cases[p] = {}
                      ELSE /\ \A b \in langs[p] \cup cases[p] :
                                b.file = f(p) /\ b.by = log[Latest(p)].by
                           /\ log[Latest(p)].by = Absent \/ ~Overlapped(p) => row[p] = Metadata(f(p))
    BY DEF LikeOneAfterAnother, f
<1>5. CASE Names(p) = {}
    BY <1>2, <1>3, <1>5 DEF Committed
<1>6. CASE Names(p) # {}
  <2>1. \A b \in langs[p] \cup cases[p] : b = Batch(log[Latest(p)].by, f(p))
      BY <1>2, <1>3, <1>6 DEF Committed
  <2>2. log[Latest(p)].by = Absent \/ ~Overlapped(p) => row[p] = Metadata(f(p))
      BY <1>2, <1>3, <1>6 DEF Committed
  <2> QED
      BY <1>3, <1>6, <2>1, <2>2 DEF Batch
<1> QED
    BY <1>5, <1>6

\* Any number of seed commands over the same problems, interleaved statement by statement, leave
\* what the same commands leave one after another in the order they committed.
THEOREM SeedsAreSerial == Spec => []LikeOneAfterAnother
<1>1. Init => SeedInv
    BY InitInv
<1>2. SeedInv /\ [Next]_vars => SeedInv'
    BY NextInv
<1>3. SeedInv => LikeOneAfterAnother
    BY InvIsSerial
<1> QED
    BY <1>1, <1>2, <1>3, PTL DEF Spec

-----------------------------------------------------------------------------
(* Readers *)

\* Without a commit the log says what it said.
LEMMA LogKept ==
    ASSUME UNCHANGED log
    PROVE  \A p : /\ Names(p)' = Names(p) /\ LatestFile(p)' = LatestFile(p)
                  /\ \A a, b : Replaced(p, a, b)' <=> Replaced(p, a, b)
<1>1. \A p : Names(p)' = Names(p)
    BY DEF Names
<1>2. \A p : Latest(p)' = Latest(p)
    BY <1>1 DEF Latest
<1> QED
    BY <1>1, <1>2 DEF LatestFile, Replaced

\* After a commit every place of the log says what it said, and a problem whose latest file is
\* another has been replaced.
LEMMA LogGrows ==
    ASSUME Shape, NEW s \in Seeds, CommitSeed(s), NEW p
    PROVE  /\ Len(log) \in Nat /\ Len(log') = Len(log) + 1
           /\ Names(p) \subseteq Names(p)'
           /\ \A i \in Names(p) : log'[i] = log[i]
           /\ \A a \in Nat : Replaced(p, a, Len(log)) => Replaced(p, a, Len(log))'
           /\ \A a \in Nat, b \in Nat :
                  b <= Len(log) => (Replaced(p, a, b)' <=> Replaced(p, a, b))
           /\ Names(p) # {} =>
                \/ LatestFile(p)' = LatestFile(p)
                \/ \A a \in Nat : a <= Len(log) => Replaced(p, a, Len(log))'
<1>1. /\ Len(log) \in Nat /\ Len(log') = Len(log) + 1
      /\ DOMAIN log = 1..Len(log) /\ DOMAIN log' = 1..Len(log) + 1
      /\ \A i \in 1..Len(log) : log'[i] = log[i]
      /\ log'[Len(log) + 1].dir = txn[s].dir
    BY CommitLog
<1>2. \A i \in Names(p) : i \in 1..Len(log)
    BY <1>1 DEF Names
<1>3. Names(p) \subseteq Names(p)' /\ \A i \in Names(p) : log'[i] = log[i]
    BY <1>1, <1>2 DEF Names
<1>4. \A a \in Nat, b \in Nat :
          b <= Len(log) => (Replaced(p, a, b)' <=> Replaced(p, a, b))
    BY <1>1 DEF Replaced
<1>5. \A a \in Nat : Replaced(p, a, Len(log)) => Replaced(p, a, Len(log))'
    BY <1>1 DEF Replaced
<1>6. ASSUME Mine(s, p), NEW a \in Nat, a <= Len(log) PROVE Replaced(p, a, Len(log))'
  <2>1. Len(log) + 1 \in a + 1..Len(log) + 1
      BY <1>1, <1>6
  <2> QED
      BY <1>1, <1>6, <2>1 DEF Replaced, Mine
<1>7. ASSUME ~Mine(s, p), Names(p) # {} PROVE LatestFile(p)' = LatestFile(p)
  <2>1. Latest(p)' = Latest(p)
      BY <1>7, CommitNames
  <2>2. log'[Latest(p)] = log[Latest(p)]
      BY <1>3, <1>7, LatestNames
  <2> QED
      BY <2>1, <2>2 DEF LatestFile
<1> QED
    BY <1>1, <1>3, <1>4, <1>5, <1>6, <1>7

\* What a table holds of a committed problem is its latest file's.
LEMMA TheLatest ==
    ASSUME Shape, NEW p \in Problems, Committed(p), Names(p) # {}
    PROVE  The(langs[p]) = LatestFile(p) /\ The(cases[p]) = LatestFile(p)
<1>1. PICK b : b = Batch(log[Latest(p)].by, LatestFile(p))
    OBVIOUS
<1>2. langs[p] = {b} /\ cases[p] = {b}
    BY <1>1 DEF Committed
<1>3. b.file = LatestFile(p)
    BY <1>1 DEF Batch
<1>4. \A x : (x = {b}) => The(x) = b.file
    BY DEF The
<1> QED
    BY <1>2, <1>3, <1>4

LEMMA InitReads == Init => ReadInv
<1>1. SUFFICES ASSUME Init PROVE ReadInv
    OBVIOUS
<1>2. load = NoLoad
    BY <1>1 DEF Init
<1>3. NoLoad \in Load /\ NoLoad.stage = "idle"
    BY DEF NoLoad, Load
<1> QED
    BY <1>2, <1>3 DEF ReadInv

\* What a reader has seen stays true when a seed commits.
LEMMA CommitReads ==
    ASSUME SeedInv, ReadInv, NEW s \in Seeds, CommitSeed(s)
    PROVE  ReadInv'
<1>1. /\ load' = load /\ load \in Load /\ Shape
      /\ load.stage # "idle" => load.slug \in Problems
    BY DEF ReadInv, CommitSeed, SeedInv
<1>2. /\ load.since \in Nat /\ load.from \in Nat /\ load.to \in Nat
    BY <1>1 DEF Load
<1>3. SUFFICES ASSUME NEW p \in Problems, load.stage # "idle", load.slug = p
               PROVE  Reading(p)'
    BY <1>1 DEF ReadInv
<1>4. Asked(p) /\ OfferedWhenAsked(p) /\ LanguagesRead(p) /\ AllRead(p)
    BY <1>3 DEF ReadInv, Reading
<1>5. /\ Len(log) \in Nat /\ Len(log') = Len(log) + 1
      /\ Names(p) \subseteq Names(p)'
      /\ \A i \in Names(p) : log'[i] = log[i]
      /\ \A a \in Nat : Replaced(p, a, Len(log)) => Replaced(p, a, Len(log))'
      /\ \A a \in Nat, b \in Nat :
            b <= Len(log) => (Replaced(p, a, b)' <=> Replaced(p, a, b))
      /\ Names(p) # {} =>
           \/ LatestFile(p)' = LatestFile(p)
           \/ \A a \in Nat : a <= Len(log) => Replaced(p, a, Len(log))'
    BY <1>1, LogGrows
<1>6. /\ Names(p) # {}
      /\ load.since <= Len(log) /\ load.from <= Len(log) /\ load.to <= Len(log)
    BY <1>4 DEF Asked
<1>7. Asked(p)'
    BY <1>1, <1>2, <1>5, <1>6 DEF Asked
<1>8. OfferedWhenAsked(p)'
    BY <1>1, <1>2, <1>4, <1>5, <1>6 DEF OfferedWhenAsked
<1>9. LanguagesRead(p)'
    BY <1>1, <1>2, <1>4, <1>5, <1>6 DEF LanguagesRead
<1>10. AllRead(p)'
  <2>1. SUFFICES ASSUME load.stage \in {"loaded", "over"} PROVE AllRead(p)'
      BY <1>1 DEF AllRead
  <2>2. \E i, j \in Names(p)' :
           i <= j /\ load.langs = FileOf(log'[i].dir, p) /\ load.cases = FileOf(log'[j].dir, p)
      BY <1>4, <1>5, <2>1 DEF AllRead
  <2>3. /\ Replaced(p, load.from, load.to)' \/ load.langs = load.cases
        /\ Replaced(p, load.since, load.to)' \/ load.lang \in Offered(load.langs)
    <3>1. /\ Replaced(p, load.from, load.to) => Replaced(p, load.from, load.to)'
          /\ Replaced(p, load.since, load.to) => Replaced(p, load.since, load.to)'
        BY <1>1, <1>2, <1>5, <1>6
    <3> QED
        BY <1>4, <2>1, <3>1 DEF AllRead
  <2> QED
      BY <1>1, <2>2, <2>3 DEF AllRead
<1> QED
    BY <1>7, <1>8, <1>9, <1>10 DEF Reading

\* The files a reader may be given, and what it knows of them.
LEMMA ReaderKnows ==
    ASSUME SeedInv, ReadInv, load.stage # "idle"
    PROVE  \E p \in Problems :
              /\ load.slug = p /\ Reading(p)
              /\ LatestFile(p) \in SeedFiles
              /\ Latest(p) \in Names(p) /\ \A j \in Names(p) : j <= Latest(p)
              /\ The(langs[p]) = LatestFile(p) /\ The(cases[p]) = LatestFile(p)
              /\ row[p] \in RowSet
<1>1. PICK p \in Problems : p = load.slug /\ Reading(p)
    BY DEF ReadInv
<1>2. Shape /\ Committed(p) /\ Names(p) # {}
    BY <1>1 DEF SeedInv, Reading, Asked
<1>3. row[p] \in RowSet
    BY <1>2 DEF Shape, Committed
<1> QED
    BY <1>1, <1>2, <1>3, LatestIsFile, LatestNames, TheLatest

LEMMA LogLength == ASSUME SeedInv PROVE Len(log) \in Nat
BY DEF SeedInv, Shape

LEMMA SubmitReads ==
    ASSUME SeedInv, ReadInv, Submit
    PROVE  ReadInv'
<1>1. PICK p \in Problems, mode \in {"run", "submit"} :
        /\ Published(p)
        /\ \E lang \in Offered(The(langs[p])) :
              load' = [NoLoad EXCEPT !.stage = "queued", !.slug = p, !.lang = lang,
                                     !.mode = mode, !.since = Len(log)]
    BY DEF Submit
<1>2. PICK lang \in Offered(The(langs[p])) :
        load' = [NoLoad EXCEPT !.stage = "queued", !.slug = p, !.lang = lang,
                               !.mode = mode, !.since = Len(log)]
    BY <1>1
<1>3. Shape /\ Committed(p) /\ Names(p) # {} /\ UNCHANGED log
    BY <1>1 DEF SeedInv, Committed, Published, Submit
<1>4. The(langs[p]) = LatestFile(p) /\ LatestFile(p) \in SeedFiles
    BY <1>3, TheLatest, LatestIsFile
<1>5. lang \in Langs /\ Len(log) \in Nat
    BY <1>2, <1>4, LogLength DEF Langs
<1>6. /\ load' \in Load
      /\ load'.stage = "queued" /\ load'.slug = p /\ load'.lang = lang
      /\ load'.since = Len(log) /\ load'.from = 0 /\ load'.to = 0
    BY <1>2, <1>5 DEF NoLoad, Load
<1>7. Reading(p)'
  <2>1. Names(p)' = Names(p) /\ LatestFile(p)' = LatestFile(p)
      BY <1>3, LogKept
  <2>2. Asked(p)'
      BY <1>3, <1>5, <1>6, <2>1 DEF Asked
  <2>3. OfferedWhenAsked(p)'
      BY <1>2, <1>4, <1>6, <2>1 DEF OfferedWhenAsked
  <2>4. LanguagesRead(p)' /\ AllRead(p)'
      BY <1>6 DEF LanguagesRead, AllRead
  <2> QED
      BY <2>2, <2>3, <2>4 DEF Reading
<1> QED
    BY <1>6, <1>7 DEF ReadInv

\* A step of a reader that leaves the log, the problem and the language as they were.
LEMMA StillReads ==
    ASSUME ReadInv, UNCHANGED log, load' \in Load, load.stage # "idle",
           load'.slug = load.slug, load'.since = load.since,
           load'.from \in {load.from, Len(log)}, load'.to \in {load.to, Len(log)},
           Len(log) \in Nat,
           \A p \in Problems : load.slug = p =>
               OfferedWhenAsked(p)' /\ LanguagesRead(p)' /\ AllRead(p)'
    PROVE  ReadInv'
<1>1. load.slug \in Problems
    BY DEF ReadInv
<1>2. ASSUME NEW p \in Problems, load'.slug = p PROVE Asked(p)'
  <2>1. Asked(p)
      BY <1>2 DEF ReadInv, Reading
  <2>2. Names(p)' = Names(p)
      BY LogKept
  <2> QED
      BY <2>1, <2>2 DEF Asked
<1> QED
    BY <1>1, <1>2 DEF ReadInv, Reading

LEMMA RowReads ==
    ASSUME SeedInv, ReadInv, ReadRow
    PROVE  ReadInv'
<1>1. /\ load.stage = "queued" /\ UNCHANGED log /\ load \in Load /\ Len(log) \in Nat
      /\ load' = [load EXCEPT !.stage = "languages", !.row = row[load.slug], !.from = Len(log)]
    BY LogLength DEF ReadRow, ReadInv
<1>2. PICK p \in Problems : load.slug = p /\ Reading(p) /\ row[p] \in RowSet
    BY <1>1, ReaderKnows
<1>3. /\ load' \in Load /\ load'.slug = load.slug /\ load'.since = load.since
      /\ load'.from = Len(log) /\ load'.to = load.to
      /\ load'.stage = "languages" /\ load'.lang = load.lang
    BY <1>1, <1>2 DEF Load
<1>4. LatestFile(p)' = LatestFile(p) /\ \A a, b : Replaced(p, a, b)' <=> Replaced(p, a, b)
    BY <1>1, LogKept
<1>5. OfferedWhenAsked(p)'
    BY <1>1, <1>2, <1>3, <1>4 DEF OfferedWhenAsked, Reading
<1>6. LanguagesRead(p)' /\ AllRead(p)'
    BY <1>3 DEF LanguagesRead, AllRead
<1> QED
    BY <1>1, <1>2, <1>3, <1>5, <1>6, StillReads

LEMMA LanguagesReads ==
    ASSUME SeedInv, ReadInv, ReadLanguages
    PROVE  ReadInv'
<1>1. /\ load.stage = "languages" /\ UNCHANGED log /\ load \in Load /\ Len(log) \in Nat
      /\ load' = [load EXCEPT !.stage = "cases", !.langs = The(langs[load.slug])]
    BY LogLength DEF ReadLanguages, ReadInv
<1>2. PICK p \in Problems :
        /\ load.slug = p /\ Reading(p) /\ LatestFile(p) \in SeedFiles
        /\ Latest(p) \in Names(p) /\ The(langs[p]) = LatestFile(p)
    BY <1>1, ReaderKnows
<1>3. /\ load' \in Load /\ load'.slug = load.slug /\ load'.since = load.since
      /\ load'.from = load.from /\ load'.to = load.to
      /\ load'.stage = "cases" /\ load'.lang = load.lang /\ load'.langs = LatestFile(p)
    BY <1>1, <1>2 DEF Load
<1>4. /\ Names(p)' = Names(p) /\ LatestFile(p)' = LatestFile(p)
      /\ \A a, b : Replaced(p, a, b)' <=> Replaced(p, a, b)
    BY <1>1, LogKept
<1>5. LanguagesRead(p)'
  <2>1. \E i \in Names(p)' : load'.langs = FileOf(log'[i].dir, p)
      BY <1>1, <1>2, <1>3, <1>4 DEF LatestFile
  <2>2. Replaced(p, load.since, Len(log)) \/ load.lang \in Offered(LatestFile(p))
      BY <1>1, <1>2 DEF Reading, OfferedWhenAsked
  <2>3. Replaced(p, load.since, Len(log))' \/ load'.lang \in Offered(load'.langs)
      BY <1>1, <1>3, <1>4, <2>2
  <2> QED
      BY <1>3, <1>4, <2>1, <2>3, <1>1 DEF LanguagesRead
<1>6. OfferedWhenAsked(p)' /\ AllRead(p)'
    BY <1>3 DEF OfferedWhenAsked, AllRead
<1> QED
    BY <1>1, <1>2, <1>3, <1>5, <1>6, StillReads

LEMMA CasesReads ==
    ASSUME SeedInv, ReadInv, ReadCases
    PROVE  ReadInv'
<1>1. /\ load.stage = "cases" /\ UNCHANGED log /\ load \in Load /\ Len(log) \in Nat
      /\ load' = [load EXCEPT !.stage = "loaded", !.cases = The(cases[load.slug]),
                              !.to = Len(log)]
    BY LogLength DEF ReadCases, ReadInv
<1>2. PICK p \in Problems :
        /\ load.slug = p /\ Reading(p) /\ LatestFile(p) \in SeedFiles
        /\ Latest(p) \in Names(p) /\ \A j \in Names(p) : j <= Latest(p)
        /\ The(cases[p]) = LatestFile(p)
    BY <1>1, ReaderKnows
<1>3. /\ load' \in Load /\ load'.slug = load.slug /\ load'.since = load.since
      /\ load'.from = load.from /\ load'.to = Len(log)
      /\ load'.stage = "loaded" /\ load'.lang = load.lang /\ load'.langs = load.langs
      /\ load'.cases = LatestFile(p)
    BY <1>1, <1>2 DEF Load
<1>4. /\ Names(p)' = Names(p) /\ \A a, b : Replaced(p, a, b)' <=> Replaced(p, a, b)
    BY <1>1, LogKept
<1>5. AllRead(p)'
  <2>1. PICK i \in Names(p) : load.langs = FileOf(log[i].dir, p)
      BY <1>1, <1>2 DEF Reading, LanguagesRead
  <2>2. \E k, j \in Names(p)' :
           k <= j /\ load'.langs = FileOf(log'[k].dir, p) /\ load'.cases = FileOf(log'[j].dir, p)
      BY <1>1, <1>2, <1>3, <1>4, <2>1 DEF LatestFile
  <2>3. /\ Replaced(p, load.from, Len(log)) \/ load.langs = LatestFile(p)
        /\ Replaced(p, load.since, Len(log)) \/ load.lang \in Offered(load.langs)
      BY <1>1, <1>2 DEF Reading, LanguagesRead
  <2>4. /\ Replaced(p, load.from, Len(log))' \/ load'.langs = load'.cases
        /\ Replaced(p, load.since, Len(log))' \/ load'.lang \in Offered(load'.langs)
      BY <1>1, <1>3, <1>4, <2>3
  <2> QED
      BY <1>1, <1>3, <2>2, <2>4 DEF AllRead
<1>6. OfferedWhenAsked(p)' /\ LanguagesRead(p)'
    BY <1>3 DEF OfferedWhenAsked, LanguagesRead
<1> QED
    BY <1>1, <1>2, <1>3, <1>5, <1>6, StillReads

LEMMA JudgeReads ==
    ASSUME SeedInv, ReadInv, Judge
    PROVE  ReadInv'
<1>1. /\ load.stage = "loaded" /\ UNCHANGED log /\ load \in Load /\ Len(log) \in Nat
      /\ load' = [load EXCEPT !.stage = "over"]
    BY LogLength DEF Judge, ReadInv
<1>2. PICK p \in Problems : load.slug = p /\ Reading(p)
    BY <1>1, ReaderKnows
<1>3. /\ load' \in Load /\ load'.slug = load.slug /\ load'.since = load.since
      /\ load'.from = load.from /\ load'.to = load.to
      /\ load'.stage = "over" /\ load'.lang = load.lang /\ load'.langs = load.langs
      /\ load'.cases = load.cases
    BY <1>1 DEF Load
<1>4. /\ Names(p)' = Names(p) /\ \A a, b : Replaced(p, a, b)' <=> Replaced(p, a, b)
    BY <1>1, LogKept
<1>5. AllRead(p)'
    BY <1>1, <1>2, <1>3, <1>4 DEF Reading, AllRead
<1>6. OfferedWhenAsked(p)' /\ LanguagesRead(p)'
    BY <1>3 DEF OfferedWhenAsked, LanguagesRead
<1> QED
    BY <1>1, <1>2, <1>3, <1>5, <1>6, StillReads

LEMMA NextReads == SeedInv /\ ReadInv /\ [Next]_vars => ReadInv'
<1>1. SUFFICES ASSUME SeedInv, ReadInv, [Next]_vars PROVE ReadInv'
    OBVIOUS
<1>2. ASSUME UNCHANGED <<log, load>> PROVE ReadInv'
  <2>1. \A p : Reading(p) => Reading(p)'
    <3>1. SUFFICES ASSUME NEW p, Reading(p) PROVE Reading(p)'
        OBVIOUS
    <3>2. /\ Names(p)' = Names(p) /\ LatestFile(p)' = LatestFile(p)
          /\ \A a, b : Replaced(p, a, b)' <=> Replaced(p, a, b)
        BY <1>2, LogKept
    <3> QED
        BY <1>2, <3>1, <3>2 DEF Reading, Asked, OfferedWhenAsked, LanguagesRead, AllRead
  <2> QED
      BY <1>1, <1>2, <2>1 DEF ReadInv
<1>3. ASSUME NEW s \in Seeds, Seed(s) PROVE ReadInv'
  <2>1. CASE CommitSeed(s)
      BY <1>1, <2>1, CommitReads
  <2>2. CASE ~CommitSeed(s)
    <3>1. UNCHANGED <<log, load>>
        BY <1>3, <2>2 DEF Seed, StartSeed, ReadProblem, CreateProblem, UpdateProblem,
           DeleteBatch, DeleteAfterWait, InsertBatch, AbortSeed
    <3> QED
        BY <1>2, <3>1
  <2> QED
      BY <2>1, <2>2
<1>4. CASE Reader
    BY <1>1, <1>4, SubmitReads, RowReads, LanguagesReads, CasesReads, JudgeReads DEF Reader
<1>5. CASE UNCHANGED vars
    BY <1>2, <1>5 DEF vars
<1> QED
    BY <1>1, <1>3, <1>4, <1>5 DEF Next

-----------------------------------------------------------------------------
(* What the readers may rely on *)

LEMMA InvIsTyped == SeedInv /\ ReadInv => TypeOK
<1>1. SUFFICES ASSUME SeedInv, ReadInv PROVE TypeOK
    OBVIOUS
<1>2. Shape
    BY <1>1 DEF SeedInv
<1>3. ASSUME NEW p \in Problems, row[p] # Absent
      PROVE  DOMAIN row[p] = Fields /\ Cardinality(langs[p]) = 1 /\ Cardinality(cases[p]) = 1
  <2>1. Committed(p) /\ Names(p) # {}
      BY <1>1, <1>3 DEF SeedInv, Committed
  <2>2. PICK b : langs[p] = {b} /\ cases[p] = {b}
      BY <2>1 DEF Committed
  <2>3. row[p] \in RowSet
      BY <1>2, <1>3 DEF Shape
  <2> QED
      BY <2>2, <2>3, FS_Singleton DEF RowSet
<1>4. ASSUME NEW s \in Seeds
      PROVE  /\ txn[s].stage \in Stages
             /\ txn[s].at \in 0..Len(txn[s].dir) + 1
             /\ DOMAIN txn[s].sets \subseteq Problems
  <2>1. txn[s] \in Txn /\ Position(s) /\ NothingHeld(s)
      BY <1>1, <1>2 DEF SeedInv, Holding, Shape
  <2>2. txn[s].stage \in Stages /\ txn[s].dir \in Seq(SeedFiles) /\ txn[s].sets \in Patches
      BY <2>1 DEF Txn
  <2>3. Len(txn[s].dir) \in Nat
      BY <2>2
  <2>4. txn[s].at \in 0..Len(txn[s].dir) + 1
      BY <2>1, <2>3 DEF Position, NothingHeld
  <2> QED
      BY <2>2, <2>4 DEF Patches
<1>5. load.stage \in {"idle", "queued", "languages", "cases", "loaded", "over"}
    BY <1>1 DEF ReadInv, Load
<1> QED
    BY <1>3, <1>4, <1>5 DEF TypeOK

\* A problem that is stored has its row, one batch of languages and one of cases, and every
\* transaction is at a file of its directory or behind the last (TypeOK).
THEOREM CatalogTyped == Spec => []TypeOK
<1>1. Init => SeedInv /\ ReadInv
    BY InitInv, InitReads
<1>2. SeedInv /\ ReadInv /\ [Next]_vars => SeedInv' /\ ReadInv'
    BY NextInv, NextReads
<1>3. SeedInv /\ ReadInv => TypeOK
    BY InvIsTyped
<1> QED
    BY <1>1, <1>2, <1>3, PTL DEF Spec

\* What has been read of a problem are files of it that were committed, and so checked.
LEMMA ReadFilesAreValid ==
    ASSUME SeedInv, ReadInv, load.stage \in {"loaded", "over"}
    PROVE  \E i, j \in DOMAIN log :
              /\ i <= j
              /\ load.langs \in Range(log[i].dir) /\ load.cases \in Range(log[j].dir)
              /\ Valid(load.langs) /\ Valid(load.cases)
<1>1. PICK p \in Problems : p = load.slug /\ Reading(p)
    BY DEF ReadInv
<1>2. PICK i \in Names(p), j \in Names(p) :
        i <= j /\ load.langs = FileOf(log[i].dir, p) /\ load.cases = FileOf(log[j].dir, p)
    BY <1>1 DEF Reading, AllRead
<1>3. /\ i \in DOMAIN log /\ p \in SlugsOf(log[i].dir)
      /\ j \in DOMAIN log /\ p \in SlugsOf(log[j].dir)
    BY DEF Names
<1>4. load.langs \in Range(log[i].dir) /\ load.cases \in Range(log[j].dir)
    BY <1>2, <1>3, FileOfAny
<1>5. Valid(load.langs) /\ Valid(load.cases)
    BY <1>3, <1>4 DEF SeedInv, Logged, LoadProblemFiles
<1> QED
    BY <1>2, <1>3, <1>4, <1>5

LEMMA InvReadsForward == SeedInv /\ ReadInv => ReadsMoveForward
<1>1. SUFFICES ASSUME SeedInv, ReadInv, load.stage \in {"loaded", "over"}
               PROVE  ReadsMoveForward
    BY DEF ReadsMoveForward
<1> DEFINE place(f) == {i \in DOMAIN log : f \in Range(log[i].dir)}
<1>2. \E i \in place(load.langs), j \in place(load.cases) : i <= j
    BY <1>1, ReadFilesAreValid
<1>3. (\A i \in load.from + 1..load.to : load.slug \notin SlugsOf(log[i].dir))
        => load.langs = load.cases
  <2>1. PICK p \in Problems : p = load.slug /\ Reading(p)
      BY <1>1 DEF ReadInv
  <2>2. Replaced(p, load.from, load.to) \/ load.langs = load.cases
      BY <1>1, <2>1 DEF Reading, AllRead
  <2> QED
      BY <2>1, <2>2 DEF Replaced
<1> QED
    BY <1>2, <1>3 DEF ReadsMoveForward

\* A problem is read in three statements while seed commands commit: the cases are never of an
\* older file than the languages, and are the same file's unless the problem was replaced meanwhile.
THEOREM ReadsGoForward == Spec => []ReadsMoveForward
<1>1. Init => SeedInv /\ ReadInv
    BY InitInv, InitReads
<1>2. SeedInv /\ ReadInv /\ [Next]_vars => SeedInv' /\ ReadInv'
    BY NextInv, NextReads
<1>3. SeedInv /\ ReadInv => ReadsMoveForward
    BY InvReadsForward
<1> QED
    BY <1>1, <1>2, <1>3, PTL DEF Spec

LEMMA InvJudgesAsSeeded == SeedInv /\ ReadInv => JudgedAsSeeded
<1>1. SUFFICES ASSUME SeedInv, ReadInv, load.stage \in {"loaded", "over"}
               PROVE  JudgedAsSeeded
    BY DEF JudgedAsSeeded
<1>2. Valid(load.langs) /\ Valid(load.cases)
    BY <1>1, ReadFilesAreValid
<1>3. CasesToJudge(load) # {}
  <2>1. PICK c \in Range(load.cases.cases) : c.sample
      BY <1>2 DEF Valid, HasASampleCase
  <2>2. c \in CasesToJudge(load)
      BY <2>1 DEF CasesToJudge
  <2> QED
      BY <2>2
<1>4. ASSUME ~Judgeable(load),
             ~\E i \in load.since + 1..load.to : load.slug \in SlugsOf(log[i].dir),
             load.row = Metadata(load.langs)
      PROVE  /\ Validates(load.row.comparison)
             /\ load.lang = "python" => ~ValidatorCodes(load.row.comparison).python.plain
  <2>1. load.lang \in Offered(load.langs)
    <3>1. PICK p \in Problems : p = load.slug /\ Reading(p)
        BY <1>1 DEF ReadInv
    <3>2. Replaced(p, load.since, load.to) \/ load.lang \in Offered(load.langs)
        BY <1>1, <3>1 DEF Reading, AllRead
    <3> QED
        BY <1>4, <3>1, <3>2 DEF Replaced
  <2> DEFINE comparison == load.row.comparison
             code == ValidatorCodes(comparison)
  <2>2. /\ Validates(comparison)
        /\ ~(load.lang \in DOMAIN code /\ Loads(code[load.lang]))
      BY <1>4, <2>1 DEF Judgeable
  <2>3. comparison = load.langs.comparison
      BY <1>4 DEF Metadata, Fields
  <2>4. DOMAIN code = Offered(load.langs) /\ ("python" \in DOMAIN code => ~CallProblem(code.python))
      BY <1>2, <2>2, <2>3 DEF Valid, CustomValidatorForEveryLanguage
  <2>5. load.lang = "python" => ~code.python.plain
      BY <2>1, <2>2, <2>4 DEF CallProblem, Loads
  <2> QED
      BY <2>2, <2>5
<1> QED
    BY <1>3, <1>4 DEF JudgedAsSeeded

\* A submission is never judged on no cases, and a problem that nobody replaced since the
\* submission was made can be judged in its language, unless two seeds have mixed its row or the
\* seed command could not tell from the validator what it is.
THEOREM JudgedFairly == Spec => []JudgedAsSeeded
<1>1. Init => SeedInv /\ ReadInv
    BY InitInv, InitReads
<1>2. SeedInv /\ ReadInv /\ [Next]_vars => SeedInv' /\ ReadInv'
    BY NextInv, NextReads
<1>3. SeedInv /\ ReadInv => JudgedAsSeeded
    BY InvJudgesAsSeeded
<1> QED
    BY <1>1, <1>2, <1>3, PTL DEF Spec

-----------------------------------------------------------------------------
(* The Next button *)

\* The problem at a place of the list, and the first of some problems.
LEMMA FirstOfThem ==
    ASSUME NEW ps \in SUBSET Problems, ps # {}
    PROVE  FirstOf(ps) \in ps
<1>1. DOMAIN Slugs = 1..Len(Slugs) /\ Len(Slugs) \in Nat
    BY SetupAssumption
<1>2. \A p \in Problems : ListOrder(p) \in Nat
  <2>1. SUFFICES ASSUME NEW p \in Problems PROVE ListOrder(p) \in Nat
      OBVIOUS
  <2>2. \E i \in DOMAIN Slugs : Slugs[i] = p
      BY DEF Problems, Range
  <2>3. ListOrder(p) \in DOMAIN Slugs
      BY <2>2 DEF ListOrder
  <2> QED
      BY <1>1, <2>3
<1> DEFINE T == {ListOrder(p) : p \in ps}
<1>3. T \in SUBSET Nat /\ T # {}
    BY <1>2
<1>4. PICK m \in T : \A y \in T : m <= y
    BY <1>3, Least
<1>5. PICK p \in ps : m = ListOrder(p)
    OBVIOUS
<1>6. \A q \in ps : ListOrder(p) <= ListOrder(q)
    BY <1>4, <1>5
<1> QED
    BY <1>6 DEF FirstOf

\* The Next button leads to a published problem that is neither solved nor the current one, and
\* nowhere only when there is none.
LEMMA NextIsUnsolved ==
    ASSUME NEW current, NEW solved,
           NEW candidates,
           candidates = {p \in Problems : Published(p) /\ p \notin solved \cup {current}}
    PROVE  IF candidates = {} THEN NextProblem(current, solved) = Absent
           ELSE NextProblem(current, solved) \in candidates
<1> DEFINE after == {p \in candidates : ListOrder(p) > ListOrder(current)}
<1>1. NextProblem(current, solved) =
        CASE candidates = {} -> Absent
          [] after # {} -> FirstOf(after)
          [] OTHER -> FirstOf(candidates)
    BY DEF NextProblem
<1>2. after # {} => FirstOf(after) \in candidates
    BY FirstOfThem
<1>3. candidates # {} => FirstOf(candidates) \in candidates
    BY FirstOfThem
<1> QED
    BY <1>1, <1>2, <1>3

LEMMA ProblemsAreFinite == IsFiniteSet(Problems)
<1>1. Slugs \in Seq(Problems) /\ DOMAIN Slugs = 1..Len(Slugs) /\ Len(Slugs) \in Nat
    BY SetupAssumption
<1>2. IsFiniteSet(DOMAIN Slugs)
    BY <1>1, FS_Interval
<1>3. Slugs \in [DOMAIN Slugs -> Problems] /\ \A p \in Problems : \E i \in DOMAIN Slugs : Slugs[i] = p
    BY <1>1 DEF Problems, Range
<1>4. Slugs \in Surjection(DOMAIN Slugs, Problems)
    BY <1>3 DEF Surjection
<1> QED
    BY <1>2, <1>4, FS_Surjection

\* What may have been met, what is left, where the button leads, the tour as one press after
\* another, and what it comes to.
Mets(solved) == SUBSET (Problems \ solved)
Left(solved, met) == {p \in Problems : Published(p) /\ p \notin solved \cup met}
Onward(solved, met, p) == NextProblem(p, solved \cup met)

Press(tour, solved) ==
    [met \in Mets(solved) |->
        [p \in Problems |->
            IF Onward(solved, met, p) = Absent THEN met
            ELSE tour[met \cup {Onward(solved, met, p)}][Onward(solved, met, p)]]]

ComesTo(solved, met, p) ==
    IF Left(solved, met) \ {p} = {} THEN met ELSE met \cup Left(solved, met)

LEMMA TourIs ==
    ASSUME NEW current, NEW solved
    PROVE  Tour(current, solved) = (CHOOSE g : g = Press(g, solved))[{}][current]
BY DEF Tour, Press, Mets, Onward

\* A press moves the problem it leads to from what is left to what was met.
LEMMA OnePress ==
    ASSUME NEW solved, NEW met \in Mets(solved), NEW p \in Problems
    PROVE  LET next == Onward(solved, met, p)
           IN  /\ next = Absent => ComesTo(solved, met, p) = met
               /\ next # Absent =>
                    /\ next \in Left(solved, met)
                    /\ next \in Problems /\ met \cup {next} \in Mets(solved)
                    /\ Left(solved, met \cup {next}) = Left(solved, met) \ {next}
                    /\ ComesTo(solved, met \cup {next}, next) = ComesTo(solved, met, p)
<1> DEFINE next == Onward(solved, met, p)
           left == Left(solved, met)
           candidates == {q \in Problems : Published(q) /\ q \notin (solved \cup met) \cup {p}}
<1>1. candidates = left \ {p}
    BY DEF Left
<1>2. IF candidates = {} THEN next = Absent ELSE next \in candidates
  <2> HIDE DEF left
  <2> QED
      BY NextIsUnsolved DEF Onward
<1>3. Absent \notin Problems
    BY SetupAssumption
<1> HIDE DEF next
<1>4. next = Absent <=> left \ {p} = {}
    BY <1>1, <1>2, <1>3
<1>5. next = Absent => ComesTo(solved, met, p) = met
    BY <1>4 DEF ComesTo
<1>6. ASSUME next # Absent
      PROVE  /\ next \in left /\ next # p
             /\ next \in Problems /\ met \cup {next} \in Mets(solved)
             /\ Left(solved, met \cup {next}) = left \ {next}
  <2>1. next \in candidates
      BY <1>1, <1>4, <1>6, <1>2
  <2> QED
      BY <2>1 DEF Left, Mets
<1>7. ASSUME next # Absent
      PROVE  ComesTo(solved, met \cup {next}, next) = ComesTo(solved, met, p)
  <2>1. ComesTo(solved, met, p) = met \cup left
      BY <1>4, <1>7 DEF ComesTo
  <2>2. ComesTo(solved, met \cup {next}, next) =
          IF left \ {next} = {} THEN met \cup {next} ELSE (met \cup {next}) \cup (left \ {next})
    <3>1. (left \ {next}) \ {next} = left \ {next}
        OBVIOUS
    <3> QED
        BY <1>6, <1>7, <3>1 DEF ComesTo
  <2>3. next \in left
      BY <1>6, <1>7
  <2> HIDE DEF left
  <2> QED
      BY <2>1, <2>2, <2>3
<1> QED
    BY <1>5, <1>6, <1>7 DEF next

LEMMA PressAt ==
    ASSUME NEW solved, NEW g, NEW h, h = Press(g, solved)
    PROVE  \A met \in Mets(solved), p \in Problems :
              h[met][p] =
                IF Onward(solved, met, p) = Absent THEN met
                ELSE g[met \cup {Onward(solved, met, p)}][Onward(solved, met, p)]
BY DEF Press

\* There is a tour.
LEMMA TourExists ==
    ASSUME NEW solved
    PROVE  \E g : g = Press(g, solved)
<1> DEFINE g == [met \in Mets(solved) |-> [p \in Problems |-> ComesTo(solved, met, p)]]
<1>1. \A met \in Mets(solved), p \in Problems : g[met][p] = ComesTo(solved, met, p)
    OBVIOUS
<1>2. ASSUME NEW met \in Mets(solved), NEW p \in Problems
      PROVE  ComesTo(solved, met, p) =
               IF Onward(solved, met, p) = Absent THEN met
               ELSE g[met \cup {Onward(solved, met, p)}][Onward(solved, met, p)]
  <2> HIDE DEF g
  <2> DEFINE next == Onward(solved, met, p)
  <2>1. /\ next = Absent => ComesTo(solved, met, p) = met
        /\ next # Absent =>
             /\ next \in Problems /\ met \cup {next} \in Mets(solved)
             /\ ComesTo(solved, met \cup {next}, next) = ComesTo(solved, met, p)
      BY OnePress
  <2> HIDE DEF next
  <2>2. next # Absent => g[met \cup {next}][next] = ComesTo(solved, met \cup {next}, next)
      BY <1>1, <2>1
  <2>3. ComesTo(solved, met, p) = IF next = Absent THEN met ELSE g[met \cup {next}][next]
      BY <2>1, <2>2
  <2> QED
      BY <2>3 DEF next
<1>3. g = Press(g, solved)
    BY <1>2 DEF Press
<1> QED
    BY <1>3

\* And it can only come to that: the shortest tour that did not would have one shorter still.
LEMMA TourComesTo ==
    ASSUME NEW solved, NEW g, NEW met \in Mets(solved), NEW p \in Problems,
           \A m \in Mets(solved), q \in Problems :
              g[m][q] = IF Onward(solved, m, q) = Absent THEN m
                        ELSE g[m \cup {Onward(solved, m, q)}][Onward(solved, m, q)]
    PROVE  g[met][p] = ComesTo(solved, met, p)
<1> DEFINE size(m) == Cardinality(Left(solved, m))
           T == {k \in Nat : \E m \in Mets(solved), q \in Problems :
                                size(m) = k /\ g[m][q] # ComesTo(solved, m, q)}
<1>1. \A m : IsFiniteSet(Left(solved, m)) /\ size(m) \in Nat
  <2>1. \A m : Left(solved, m) \in SUBSET Problems
      BY DEF Left
  <2>2. \A m : IsFiniteSet(Left(solved, m))
      BY <2>1, ProblemsAreFinite, FS_Subset
  <2> QED
      BY <2>2, FS_CardinalityType
<1>2. \A m, x : x \in Left(solved, m) => Cardinality(Left(solved, m) \ {x}) = size(m) - 1
    BY <1>1, FS_RemoveElement
<1> HIDE DEF size
<1>3. ASSUME T # {} PROVE FALSE
  <2>1. PICK k \in T : \A j \in T : k <= j
    <3>1. T \in SUBSET Nat
        OBVIOUS
    <3> QED
        BY <1>3, <3>1, Least
  <2>2. PICK m \in Mets(solved), q \in Problems :
          size(m) = k /\ g[m][q] # ComesTo(solved, m, q)
      BY <2>1
  <2> DEFINE next == Onward(solved, m, q)
  <2>3. /\ g[m][q] = IF next = Absent THEN m ELSE g[m \cup {next}][next]
        /\ next = Absent => ComesTo(solved, m, q) = m
        /\ next # Absent =>
             /\ next \in Left(solved, m) /\ next \in Problems /\ m \cup {next} \in Mets(solved)
             /\ Left(solved, m \cup {next}) = Left(solved, m) \ {next}
             /\ ComesTo(solved, m \cup {next}, next) = ComesTo(solved, m, q)
    <3>1. g[m][q] = IF next = Absent THEN m ELSE g[m \cup {next}][next]
        OBVIOUS
    <3> HIDE DEF T
    <3>2. /\ next = Absent => ComesTo(solved, m, q) = m
          /\ next # Absent =>
               /\ next \in Left(solved, m) /\ next \in Problems /\ m \cup {next} \in Mets(solved)
               /\ Left(solved, m \cup {next}) = Left(solved, m) \ {next}
               /\ ComesTo(solved, m \cup {next}, next) = ComesTo(solved, m, q)
        BY OnePress
    <3> QED
        BY <3>1, <3>2
  <2> HIDE DEF next
  <2>4. /\ next # Absent /\ next \in Left(solved, m)
        /\ next \in Problems /\ m \cup {next} \in Mets(solved)
        /\ Left(solved, m \cup {next}) = Left(solved, m) \ {next}
        /\ g[m \cup {next}][next] # ComesTo(solved, m \cup {next}, next)
      BY <2>2, <2>3
  <2>5. size(m \cup {next}) = k - 1
      BY <1>2, <2>2, <2>4 DEF size
  <2>6. k - 1 \in T
    <3>1. k - 1 \in Nat
        BY <1>1, <2>5
    <3> QED
        BY <2>4, <2>5, <3>1
  <2>7. k \in Nat
      BY <2>1
  <2> HIDE DEF T
  <2> QED
      BY <2>1, <2>6, <2>7
<1>4. size(met) \in Nat
    BY <1>1
<1> QED
    BY <1>3, <1>4

\* Whoever presses Next until there is none has met every published problem that was not solved
\* (NextReachesAll), whatever the list, the problems published and those solved before.
THEOREM NextMeetsAll == Spec => []NextReachesAll
<1>1. NextReachesAll
  <2>1. SUFFICES ASSUME NEW solved \in SUBSET {p \in Problems : Published(p)},
                        NEW p \in {q \in Problems : Published(q)}
                 PROVE  Tour(p, solved \cup {p}) = {q \in Problems : Published(q)} \ (solved \cup {p})
      BY DEF NextReachesAll
  <2> DEFINE all == solved \cup {p}
             g == CHOOSE f : f = Press(f, all)
  <2>2. g = Press(g, all)
      BY TourExists
  <2>3. Tour(p, all) = g[{}][p]
      BY TourIs
  <2> HIDE DEF g
  <2>4. g[{}][p] = ComesTo(all, {}, p)
    <3>1. {} \in Mets(all) /\ p \in Problems
        BY <2>1 DEF Mets
    <3>2. \A m \in Mets(all), q \in Problems :
             g[m][q] = IF Onward(all, m, q) = Absent THEN m
                       ELSE g[m \cup {Onward(all, m, q)}][Onward(all, m, q)]
      <4> HIDE DEF all
      <4> QED
          BY <2>2, PressAt
    <3> HIDE DEF all
    <3> QED
        BY <3>1, <3>2, TourComesTo
  <2>5. ComesTo(all, {}, p) = Left(all, {}) /\ Left(all, {}) = {q \in Problems : Published(q)} \ all
    <3>1. Left(all, {}) \ {p} = Left(all, {})
        BY DEF Left
    <3> QED
        BY <3>1 DEF ComesTo, Left
  <2> QED
      BY <2>3, <2>4, <2>5
<1> QED
    BY <1>1, PTL
=============================================================================
