------------------------------ MODULE Catalog ------------------------------
(***************************************************************************)
(* The problems in the database: the seed command that loads a directory of *)
(* files (seed of app/cli.py, upsert_problem of services/problem_service.py) *)
(* while users and the judge read them, and one submission judged with what *)
(* was read.  What the harness answers is a parameter.                       *)
(*                                                                         *)
(* Several seed commands may run at once.  Each is one transaction at READ  *)
(* COMMITTED: a statement sees what was committed when it started, waits    *)
(* for rows another transaction has written and not committed, and the      *)
(* unique constraints refuse what would be there twice.  A problem's         *)
(* languages are the rows of one upsert, and so are its cases, so each table *)
(* holds sets of batches: the file, and the seed that inserted it.          *)
(***************************************************************************)
EXTENDS ProblemFiles

CONSTANTS
    Seeds,          \* the seed commands
    Slugs,          \* the problems, in the list's order (title, then id)
    Setups,         \* pairs of the directories seeded before, in order, and the directory that
                    \* each seed command is pointed at; a directory is a sequence of files
    Harness(_),     \* what the language's harness may make of a problem read for judging
    Absent          \* no row, no file, no answer

Fields == {"published", "kind", "comparison", "limit", "memory"}
Metadata(f) == [x \in Fields |-> f[x]]

VARIABLES
    row,            \* committed: each problem's own row
    langs, cases,   \* committed: each problem's batches of languages and of cases
    log,            \* history: the directories committed, each with what its seed had read
    txn,            \* the seed commands' transactions
    load,           \* a problem being read, statement by statement
    judged          \* history: what became of the one submission

vars == <<row, langs, cases, log, txn, load, judged>>

Problems == Range(Slugs)

\* f, and where f is silent g.
Over(f, g) == [x \in DOMAIN f \cup DOMAIN g |-> IF x \in DOMAIN f THEN f[x] ELSE g[x]]
Put(k, v, g) == Over([x \in {k} |-> v], g)

Batch(s, f) == [by |-> s, file |-> f]
SlugsOf(dir) == {f.slug : f \in Range(dir)}
FileOf(dir, p) == CHOOSE f \in Range(dir) : f.slug = p
Names(p) == {i \in DOMAIN log : p \in SlugsOf(log[i].dir)}
Latest(p) == CHOOSE i \in Names(p) : \A j \in Names(p) : j <= i

NoTxn  == [stage |-> "idle", dir |-> <<>>, at |-> 0, read |-> Absent, snap |-> {}, sets |-> <<>>,
           gone |-> [languages |-> {}, cases |-> {}], mine |-> {}, since |-> <<>>]
NoLoad == [stage |-> "idle", slug |-> Absent, lang |-> Absent, mode |-> Absent, since |-> 0,
           row |-> Absent, from |-> 0, langs |-> Absent, cases |-> Absent, to |-> 0]

\* Every file of the directory is checked, and no two may have one slug, before a transaction starts.
LoadProblemFiles(dir) ==
    /\ dir # <<>>
    /\ \A f \in Range(dir) : Valid(f)
    /\ \A i, j \in DOMAIN dir : dir[i].slug = dir[j].slug => i = j

\* The directories and files the seed commands may meet.
Directories == UNION {Range(setup.base) \cup {setup.dir[s] : s \in Seeds} : setup \in Setups}
SeedFiles   == UNION {Range(dir) : dir \in Directories}
FieldValues == {f[x] : f \in SeedFiles, x \in Fields}

\* What was seeded before had been checked.
ASSUME SetupAssumption ==
    /\ Slugs \in Seq(Problems)
    /\ Absent \notin Problems /\ Absent \notin Seeds /\ Absent \notin SeedFiles
    /\ Absent \notin [Fields -> FieldValues]
    /\ Directories \subseteq Seq(SeedFiles)
    /\ {f.slug : f \in SeedFiles} \subseteq Problems
    /\ \A setup \in Setups :
         setup.base \in Seq(Directories) /\ \A dir \in Range(setup.base) : LoadProblemFiles(dir)

Stages == {"idle", "read", "create", "update", "languages", "languages wait", "cases",
           "cases wait", "insert", "commit", "done"}

TypeOK ==
    /\ \A p \in Problems : row[p] # Absent =>
         /\ DOMAIN row[p] = Fields
         /\ Cardinality(langs[p]) = 1 /\ Cardinality(cases[p]) = 1
    /\ \A s \in Seeds :
         /\ txn[s].stage \in Stages
         /\ txn[s].at \in 0..Len(txn[s].dir) + 1
         /\ DOMAIN txn[s].sets \subseteq Problems
    /\ load.stage \in {"idle", "queued", "languages", "cases", "loaded", "over"}

Replay(dirs, p) ==
    LET with == {i \in DOMAIN dirs : p \in SlugsOf(dirs[i])}
    IN  IF with = {} THEN Absent
        ELSE FileOf(dirs[CHOOSE i \in with : \A j \in with : j <= i], p)

Init ==
    /\ \E setup \in Setups :
         LET file(p) == Replay(setup.base, p)
         IN  /\ row = [p \in Problems |-> IF file(p) = Absent THEN Absent ELSE Metadata(file(p))]
             /\ langs = [p \in Problems |-> IF file(p) = Absent THEN {} ELSE {Batch(Absent, file(p))}]
             /\ cases = langs
             /\ log = [i \in DOMAIN setup.base |->
                         [by |-> Absent, dir |-> setup.base[i], since |-> <<>>]]
             /\ txn = [s \in Seeds |-> [NoTxn EXCEPT !.dir = setup.dir[s]]]
    /\ load = NoLoad
    /\ judged = Absent

-----------------------------------------------------------------------------
(* The seed command *)

StartSeed(s) ==
    /\ txn[s].stage = "idle"
    /\ LoadProblemFiles(txn[s].dir)
    /\ txn' = [txn EXCEPT ![s].stage = "read", ![s].at = 1]
    /\ UNCHANGED <<row, langs, cases, log, load, judged>>

File(s) == txn[s].dir[txn[s].at]
Slug(s) == File(s).slug

\* The SELECT by slug.
ReadProblem(s) ==
    /\ txn[s].stage = "read"
    /\ txn' = [txn EXCEPT
         ![s].read = row[Slug(s)],
         ![s].since = Put(Slug(s), Len(log), @),
         ![s].stage = IF row[Slug(s)] = Absent THEN "create" ELSE "update"]
    /\ UNCHANGED <<row, langs, cases, log, load, judged>>

\* Another seed has written this problem's row and not committed.
RowLocked(s) == \E t \in Seeds \ {s} : Slug(s) \in DOMAIN txn[t].sets

\* The INSERT of a new problem waits for another seed's, and then finds the slug taken or free.
CreateProblem(s) ==
    /\ txn[s].stage = "create"
    /\ ~RowLocked(s)
    /\ row[Slug(s)] = Absent
    /\ txn' = [txn EXCEPT ![s].sets = Put(Slug(s), Metadata(File(s)), @),
                          ![s].stage = "insert"]
    /\ UNCHANGED <<row, langs, cases, log, load, judged>>

\* Mutant of Changed: the memory limit is left as it was.
ChangedButMemory(f, read) == {x \in Fields \ {"memory"} : f[x] # read[x]}

\* The attributes that differ from what was read: SQLAlchemy's UPDATE sets only these.
Changed(f, read) == {x \in Fields : f[x] # read[x]}

\* Without a change there is no UPDATE; with one it waits for another seed's.
UpdateProblem(s) ==
    LET changed == Changed(File(s), txn[s].read)
    IN  /\ txn[s].stage = "update"
        /\ changed # {} => ~RowLocked(s)
        /\ txn' = [txn EXCEPT
             ![s].sets = IF changed = {} THEN @
                         ELSE Put(Slug(s), [x \in changed |-> File(s)[x]], @),
             ![s].read = Absent,
             ![s].stage = "languages"]
        /\ UNCHANGED <<row, langs, cases, log, load, judged>>

\* Which table a DELETE is about, and what it holds.
Table(stage) == IF stage \in {"languages", "languages wait"} THEN "languages" ELSE "cases"
Rows(table, p) == IF table = "languages" THEN langs[p] ELSE cases[p]
After == [languages |-> "cases", cases |-> "insert"]
Waiting == [languages |-> "languages wait", cases |-> "cases wait"]

\* Some of these batches are deleted by another seed that has not committed.
BatchLocked(s, table, batches) == \E t \in Seeds \ {s} : batches \cap txn[t].gone[table] # {}

\* DELETE FROM a table of the problem's (the solutions go like the cases).  A statement that waits
\* keeps the rows it found: what the other seed inserts meanwhile is not among them.
DeleteBatch(s) ==
    LET table == txn[s].stage
        found == Rows(table, Slug(s))
    IN  /\ table \in {"languages", "cases"}
        /\ txn' = IF BatchLocked(s, table, found)
                    THEN [txn EXCEPT ![s].stage = Waiting[table], ![s].snap = found]
                    ELSE [txn EXCEPT ![s].stage = After[table], ![s].gone[table] = @ \cup found]
        /\ UNCHANGED <<row, langs, cases, log, load, judged>>

DeleteAfterWait(s) ==
    LET table == Table(txn[s].stage)
        left == txn[s].snap \cap Rows(table, Slug(s))
    IN  /\ txn[s].stage = Waiting[table]
        /\ ~BatchLocked(s, table, txn[s].snap)
        /\ txn' = [txn EXCEPT ![s].stage = After[table], ![s].snap = {},
                              ![s].gone[table] = @ \cup left]
        /\ UNCHANGED <<row, langs, cases, log, load, judged>>

\* Mutant of RoomFor: no unique constraint.
AlwaysRoom(s, p) == TRUE

\* The rows of a problem are unique by ordinal.  The languages start at 0 in every file, so two
\* batches of them always collide; the files of one problem number their cases alike here.
RoomFor(s, p) ==
    langs[p] \subseteq txn[s].gone["languages"] /\ cases[p] \subseteq txn[s].gone["cases"]

InsertBatch(s) ==
    /\ txn[s].stage = "insert"
    /\ RoomFor(s, Slug(s))
    /\ txn' = [txn EXCEPT
         ![s].mine = @ \cup {Batch(s, File(s))},
         ![s].at = @ + 1,
         ![s].stage = IF txn[s].at = Len(txn[s].dir) THEN "commit" ELSE "read"]
    /\ UNCHANGED <<row, langs, cases, log, load, judged>>

\* A constraint refuses the statement, the server picks this seed as a deadlock's victim, the
\* connection is lost, or the operator gives up: nothing of it stays.
AbortSeed(s) ==
    /\ txn[s].stage \notin {"idle", "done"}
    /\ txn' = [txn EXCEPT ![s] = [NoTxn EXCEPT !.stage = "done"]]
    /\ UNCHANGED <<row, langs, cases, log, load, judged>>

\* What a table holds once s's rows are in and those it deleted are out.
Written(s, table) ==
    [p \in Problems |-> (Rows(table, p) \ txn[s].gone[table])
                          \cup {b \in txn[s].mine : b.file.slug = p}]

CommitSeed(s) ==
    /\ txn[s].stage = "commit"
    /\ row' = [p \in Problems |->
                 IF p \notin DOMAIN txn[s].sets THEN row[p]
                 ELSE IF row[p] = Absent THEN txn[s].sets[p] ELSE Over(txn[s].sets[p], row[p])]
    /\ langs' = Written(s, "languages")
    /\ cases' = Written(s, "cases")
    /\ log' = Append(log, [by |-> s, dir |-> txn[s].dir, since |-> txn[s].since])
    /\ txn' = [txn EXCEPT ![s] = [NoTxn EXCEPT !.stage = "done"]]
    /\ UNCHANGED <<load, judged>>

Seed(s) ==
    \/ StartSeed(s) \/ ReadProblem(s) \/ CreateProblem(s) \/ UpdateProblem(s)
    \/ DeleteBatch(s) \/ DeleteAfterWait(s) \/ InsertBatch(s)
    \/ AbortSeed(s) \/ CommitSeed(s)

-----------------------------------------------------------------------------
(* A user opens a problem and submits; the worker reads it again and judges *)

Published(p) == row[p] # Absent /\ row[p].published
The(batches) == (CHOOSE b \in batches : TRUE).file

\* The submission is accepted in a language the problem offers now.
Submit ==
    /\ load.stage = "idle"
    /\ \E p \in Problems, mode \in {"run", "submit"} :
         /\ Published(p)
         /\ \E lang \in Offered(The(langs[p])) :
              load' = [NoLoad EXCEPT !.stage = "queued", !.slug = p, !.lang = lang,
                                     !.mode = mode, !.since = Len(log)]
    /\ UNCHANGED <<row, langs, cases, log, txn, judged>>

\* SELECT the problem, then its languages, then its cases: three statements, three snapshots.
ReadRow ==
    /\ load.stage = "queued"
    /\ load' = [load EXCEPT !.stage = "languages", !.row = row[load.slug], !.from = Len(log)]
    /\ UNCHANGED <<row, langs, cases, log, txn, judged>>

ReadLanguages ==
    /\ load.stage = "languages"
    /\ load' = [load EXCEPT !.stage = "cases", !.langs = The(langs[load.slug])]
    /\ UNCHANGED <<row, langs, cases, log, txn, judged>>

\* Mutant of ReadCases: the cases come from a cache filled when the submission was made.
ReadCachedCases ==
    /\ load.stage = "cases"
    /\ load' = [load EXCEPT !.stage = "loaded", !.to = Len(log),
                !.cases = Replay([i \in 1..load.since |-> log[i].dir], load.slug)]
    /\ UNCHANGED <<row, langs, cases, log, txn, judged>>

ReadCases ==
    /\ load.stage = "cases"
    /\ load' = [load EXCEPT !.stage = "loaded", !.cases = The(cases[load.slug]), !.to = Len(log)]
    /\ UNCHANGED <<row, langs, cases, log, txn, judged>>

\* A Run is judged on the samples.
CasesToJudge(l) == {c \in Range(l.cases.cases) : l.mode = "submit" \/ c.sample}

\* The judge needs a variant for the language and, where a validator compares, one the harness
\* can load.
Judgeable(l) ==
    LET code == ValidatorCodes(l.row.comparison)
    IN  /\ l.lang \in Offered(l.langs)
        /\ Validates(l.row.comparison) => l.lang \in DOMAIN code /\ Loads(code[l.lang])

Outcome(status) == [status |-> status, right |-> FALSE, fair |-> FALSE]

Judge ==
    /\ load.stage = "loaded"
    /\ judged' \in IF Judgeable(load) THEN Harness(load) ELSE {Outcome("judge_error")}
    /\ load' = [load EXCEPT !.stage = "over"]
    /\ UNCHANGED <<row, langs, cases, log, txn>>

Reader == Submit \/ ReadRow \/ ReadLanguages \/ ReadCases \/ Judge

Next == Reader \/ \E s \in Seeds : Seed(s)

Spec == Init /\ [][Next]_vars

-----------------------------------------------------------------------------
(* The Next button *)

ListOrder(p) == CHOOSE i \in DOMAIN Slugs : Slugs[i] = p
FirstOf(ps) == CHOOSE p \in ps : \A q \in ps : ListOrder(p) <= ListOrder(q)

\* Mutant of NextProblem: no wrapping round to the start of the list.
NextWithoutWrap(current, solved) ==
    LET after == {p \in Problems : Published(p) /\ p \notin solved
                                     /\ ListOrder(p) > ListOrder(current)}
    IN  IF after = {} THEN Absent ELSE FirstOf(after)

\* The first after the current one in list order that is not solved, else the first in the list.
NextProblem(current, solved) ==
    LET candidates == {p \in Problems : Published(p) /\ p \notin solved \cup {current}}
        after == {p \in candidates : ListOrder(p) > ListOrder(current)}
    IN  CASE candidates = {} -> Absent
          [] after # {} -> FirstOf(after)
          [] OTHER -> FirstOf(candidates)

\* The problems met by solving the current one and pressing Next until there is none.
Tour(current, solved) ==
    LET tour[met \in SUBSET (Problems \ solved)] ==
            [p \in Problems |->
                LET next == NextProblem(p, solved \cup met)
                IN  IF next = Absent THEN met ELSE tour[met \cup {next}][next]]
    IN  tour[{}][current]

-----------------------------------------------------------------------------
(* Properties *)

Overlapped(p) ==
    \E j \in log[Latest(p)].since[p] + 1..Latest(p) - 1 : p \in SlugsOf(log[j].dir)

\* Seeds that ran at once leave what the same seeds would leave one after another, in the order
\* they committed: every problem of a directory or none, its languages and cases those of one
\* file.  The problem's own row is that file's too, unless another seed committed the problem
\* after this one had read it: an attribute this one found unchanged is then the other's.
LikeOneAfterAnother ==
    \A p \in Problems :
        LET f == Replay([i \in DOMAIN log |-> log[i].dir], p)
        IN  IF f = Absent THEN row[p] = Absent /\ langs[p] = {} /\ cases[p] = {}
            ELSE /\ \A b \in langs[p] \cup cases[p] : b.file = f /\ b.by = log[Latest(p)].by
                 /\ log[Latest(p)].by = Absent \/ ~Overlapped(p) => row[p] = Metadata(f)

\* A problem read in three statements while seeds commit: what is read later is never older, and
\* without a commit in between it is one file's.
ReadsMoveForward ==
    load.stage \in {"loaded", "over"} =>
        LET place(f) == {i \in DOMAIN log : f \in Range(log[i].dir)}
        IN  /\ \E i \in place(load.langs), j \in place(load.cases) : i <= j
            /\ (\A i \in load.from + 1..load.to : load.slug \notin SlugsOf(log[i].dir))
                 => load.langs = load.cases

\* No submission is judged on no cases at all, which would accept it, even when the problem was
\* replaced while it was read; and a problem that was not replaced since the submission was made
\* can be judged in the submission's language, unless two seeds have mixed its row or the seed
\* command could not tell from the validator what it is: a Python script may hide it, the others'
\* are not looked at.  Whether the harness then comes to a verdict is not said here: a validator
\* that loads may raise on an answer, and a report may be lost.
JudgedAsSeeded ==
    load.stage \in {"loaded", "over"} =>
        /\ CasesToJudge(load) # {}
        /\ Judgeable(load)
             \/ (\E i \in load.since + 1..load.to : load.slug \in SlugsOf(log[i].dir))
             \/ load.row # Metadata(load.langs)
             \/ /\ Validates(load.row.comparison)
                /\ load.lang = "python" => ~ValidatorCodes(load.row.comparison).python.plain

\* Whoever solves the problem at hand and presses Next until there is none has met every
\* published problem they had not solved.
NextReachesAll ==
    LET published == {p \in Problems : Published(p)}
    IN  \A solved \in SUBSET published : \A p \in published :
            Tour(p, solved \cup {p}) = published \ (solved \cup {p})
=============================================================================
