------------------------------- MODULE Library -------------------------------
(***************************************************************************)
(* The library: sync (bridge/sync.go), source migration (bridge/migrate.go) *)
(* cover refetch, the reader's own clicks and the maintenance pass, on the  *)
(* tables they share (internal/database).                                   *)
(*                                                                          *)
(* A thread is a goroutine in one of these operations; any number may be    *)
(* at work on the same title. A step ends at a statement that writes, or    *)
(* that reads what a later step relies on: SQLite runs one statement or     *)
(* transaction at a time, and between two of them every other thread may    *)
(* run. Titles, covers and dates are a function of the source here;         *)
(* the [New] badge, read_history, pages and enrichment are left out.        *)
(***************************************************************************)
EXTENDS Integers, FiniteSets

CONSTANTS
  Threads,        \* goroutines
  Sources,        \* the (plugin id, source manga id) pairs that hold the title
  Lists,          \* Lists[s]: the chapter lists the plugin of s may answer, each a set of ids
  Num,            \* the chapter number of an id, in fractions of a chapter (chapter_num is REAL)
  Whole,          \* how many of these fractions are one
  Tail,           \* the older id that an id re-issues with a prefix, or Nothing
  Nothing,
  MaxRow,         \* bound on the rows mangas ever had
  MaxOperations   \* bound on the operations that are started

Rows == 1..MaxRow

Ids == UNION {UNION Lists[s] : s \in Sources}

ASSUME LibraryAssumption ==
  /\ \A i \in Ids : Num[i] \in Int
  /\ Nothing \notin Sources \cup Ids
  /\ {Whole, MaxRow, MaxOperations} \subseteq Nat \ {0}

VARIABLES
  mangas,   \* [src, lib] by row id; src = Nothing where there is no row
  lastRow,  \* the AUTOINCREMENT counter of mangas
  chapters, \* the rows of chapters: [manga, id, reading, stray]
  fts,      \* the <<row, source>> pairs that library_fts has documents of
  pc, job,  \* where each thread is, and its local variables
  started,  \* how many operations have been started
  booting,  \* the process has started and startMaintenance has not returned
  chosen,   \* history: the rows the reader has put in the library
  revived,  \* history: the rows a cover refetch has put there
  late,     \* history: chapters read while a thread was about to act on older data
  behind    \* history: a write's re-index failed or was cut off

tables == <<mangas, lastRow, chapters, fts>>
history == <<chosen, revived, late, behind>>
vars == <<tables, pc, job, started, booting, history>>

NoRow == [src |-> Nothing, lib |-> FALSE]

NoJob == [op |-> "none", src |-> Nothing, row |-> 0, lib |-> FALSE,
          want |-> {}, left |-> {}, hit |-> {}]

RowOf(s) == IF \E r \in Rows : mangas[r].src = s THEN CHOOSE r \in Rows : mangas[r].src = s ELSE 0

Present(r) == r \in Rows /\ mangas[r].src # Nothing

InLibrary(r) == r \in Rows /\ mangas[r].lib

ChaptersOf(r) == {c \in chapters : c.manga = r}

IdsOf(r) == {c.id : c \in ChaptersOf(r)}

Keys(rows) == {<<c.manga, c.id>> : c \in rows}

\* A thread has found this row before.
Hit(t, c) == <<c.manga, c.id>> \in Keys(job[t].hit)

\* "read" is is_read = 1, "opened" only last_page_read > 0.
Progress(c) == c.reading # "none"

\* What library_fts should hold: INSERT ... SELECT ... WHERE in_library = 1.
Documents(table) == {d \in Rows \X Sources : table[d[1]].lib /\ table[d[1]].src = d[2]}

DocumentsOf(r, index) == {d \in index : d[1] = r}

\* Inserted under a source that the row has left, a chapter is stray (history).
Inserted(r, ids, stray) == {[manga |-> r, id |-> i, reading |-> "none", stray |-> stray] : i \in ids}

Init ==
  /\ \E s \in Sources : \E l \in Lists[s], read \in SUBSET Ids :
       /\ mangas = [r \in Rows |-> IF r = 1 THEN [NoRow EXCEPT !.src = s, !.lib = TRUE] ELSE NoRow]
       /\ chapters = {[c EXCEPT !.reading = IF c.id \in read THEN "read" ELSE @] : c \in Inserted(1, l, FALSE)}
       /\ read \subseteq l
  /\ lastRow = 1
  /\ fts = Documents(mangas)
  /\ pc = [t \in Threads |-> "idle"]
  /\ job = [t \in Threads |-> NoJob]
  /\ started = 0 /\ booting = FALSE
  /\ chosen = {1} /\ revived = {}
  /\ late = {} /\ behind = FALSE
-----------------------------------------------------------------------------
Goto(t, l) == pc' = [pc EXCEPT ![t] = l]

Start(t, l, j) ==
  /\ pc[t] = "idle" /\ started < MaxOperations
  /\ booting => j.op = "pass"
  /\ started' = started + 1
  /\ Goto(t, l)
  /\ job' = [job EXCEPT ![t] = j]
  /\ UNCHANGED <<tables, booting, history>>

Finish(t) ==
  /\ Goto(t, "idle")
  /\ job' = [job EXCEPT ![t] = NoJob]

Step(t, from, to) == pc[t] = from /\ Goto(t, to) /\ UNCHANGED <<job, started, booting>>

Leave(t, from) == pc[t] = from /\ Finish(t) /\ UNCHANGED <<started, booting>>

Window == {"prune", "commit"}

\* A write of t leaves these rows read: another thread in its window has not
\* seen them, and when nobody is left in one late is empty.
Settle(t, gained) ==
  late' = IF \E u \in Threads \ {t} : pc[u] \in Window THEN late \cup Keys(gained) ELSE {}

(***************************************************************************)
(* Sync and detail view: persistMangaDetails.                              *)
(***************************************************************************)

\* SyncManga, or one manga of syncMangas: in the library when it was looked up,
\* before the plugin was asked for its detail and its chapters.
SyncBegin(t) == \E s \in Sources : \E l \in Lists[s] :
  /\ InLibrary(RowOf(s))
  /\ Start(t, "upsert", [NoJob EXCEPT !.op = "sync", !.src = s, !.want = l])

\* GetMangaDetails asks for a title in the library or not, and goes on without
\* the chapters if the plugin does not list them.
DetailsBegin(t) == \E s \in Sources : \E l \in Lists[s] \cup {{}} :
  Start(t, "upsert", [NoJob EXCEPT !.op = "sync", !.src = s, !.want = l])

\* Mutant of Upsert: the conflict clause overwrites in_library.
UpsertOverwrites(t) ==
  /\ Step(t, "upsert", "select")
  /\ IF RowOf(job[t].src) = 0 THEN lastRow < MaxRow /\ lastRow' = lastRow + 1 ELSE UNCHANGED lastRow
  /\ LET r == IF RowOf(job[t].src) = 0 THEN lastRow' ELSE RowOf(job[t].src)
     IN  mangas' = [mangas EXCEPT ![r] = [src |-> job[t].src, lib |-> job[t].lib]]
  /\ UNCHANGED <<chapters, fts, history>>

\* UpsertManga's INSERT ... ON CONFLICT DO UPDATE, which keeps in_library.
Upsert(t) ==
  /\ Step(t, "upsert", "select")
  /\ \/ /\ RowOf(job[t].src) # 0
        /\ UNCHANGED <<mangas, lastRow, revived>>
     \/ /\ RowOf(job[t].src) = 0 /\ lastRow < MaxRow
        /\ lastRow' = lastRow + 1
        /\ mangas' = [mangas EXCEPT ![lastRow'] = [src |-> job[t].src, lib |-> job[t].lib]]
        /\ revived' = IF job[t].lib THEN revived \cup {lastRow'} ELSE revived
  /\ UNCHANGED <<chapters, fts, chosen, late, behind>>

\* UpsertManga's SELECT id (the row may have been migrated or pruned since),
\* then SyncFTS's DELETE.
SelectId(t) ==
  LET r == RowOf(job[t].src) IN
  /\ pc[t] = "select"
  /\ IF r = 0 THEN Finish(t) /\ UNCHANGED fts
     ELSE /\ Goto(t, "index")
          /\ job' = [job EXCEPT ![t].row = r]
          /\ fts' = fts \ DocumentsOf(r, fts)
  /\ UNCHANGED <<mangas, lastRow, chapters, started, booting, history>>

\* SyncFTS's INSERT, if the row is in the library.
Index(t) ==
  /\ pc[t] = "index"
  /\ fts' = fts \cup DocumentsOf(job[t].row, Documents(mangas))
  /\ IF job[t].op = "sync" THEN Goto(t, "member") /\ UNCHANGED job ELSE Finish(t)
  /\ UNCHANGED <<mangas, lastRow, chapters, started, booting, history>>

Member(t) ==
  /\ pc[t] = "member"
  /\ IF InLibrary(job[t].row)
     THEN Goto(t, "chapters") /\ job' = [job EXCEPT ![t].left = job[t].want]
     ELSE Finish(t)
  /\ UNCHANGED <<tables, started, booting, history>>

\* UpsertChapter keeps is_read and last_page_read; a manga row that has gone
\* fails the foreign key.
UpsertChapter(t) == \E i \in job[t].left :
  LET r == job[t].row IN
  /\ pc[t] = "chapters"
  /\ \/ /\ ~Present(r) /\ Finish(t) /\ UNCHANGED chapters
     \/ /\ Present(r) /\ UNCHANGED pc
        /\ job' = [job EXCEPT ![t].left = @ \ {i}]
        /\ IF i \in IdsOf(r) THEN UNCHANGED chapters
           ELSE chapters' = chapters \cup Inserted(r, {i}, mangas[r].src # job[t].src)
  /\ UNCHANGED <<mangas, lastRow, fts, started, booting, history>>

\* Mutant of Superseded: progress is not looked at.
SupersededAll(t) == {c \in ChaptersOf(job[t].row) :
                       c.id \notin job[t].want /\ \E i \in job[t].want : Tail[i] = c.id}

\* PruneSupersededChapters' victims: rows that the answer re-issues under a new
\* id and the same number, and that hold no progress. Ids of one tail and
\* different numbers prove nothing.
Superseded(t) == {c \in ChaptersOf(job[t].row) :
                    /\ c.id \notin job[t].want /\ ~Progress(c)
                    /\ \E i \in job[t].want : Tail[i] = c.id
                    /\ \A i \in job[t].want : Tail[i] = c.id => Num[i] = Num[c.id]}

PruneSelect(t) ==
  /\ pc[t] = "chapters" /\ job[t].left = {}
  /\ IF Superseded(t) = {} THEN Finish(t)
     ELSE Goto(t, "prune") /\ job' = [job EXCEPT ![t].hit = Superseded(t)]
  /\ UNCHANGED <<tables, started, booting, history>>

PruneDelete(t) ==
  /\ Leave(t, "prune")
  /\ chapters' = {c \in chapters : ~Hit(t, c)}
  /\ Settle(t, {})
  /\ UNCHANGED <<mangas, lastRow, fts, chosen, revived, behind>>

Sync(t) ==
  \/ SyncBegin(t) \/ DetailsBegin(t) \/ Upsert(t) \/ SelectId(t) \/ Index(t) \/ Member(t)
  \/ UpsertChapter(t) \/ PruneSelect(t) \/ PruneDelete(t)

(***************************************************************************)
(* refetchCover: the cached row is written back after the network.         *)
(***************************************************************************)
Refetch(t) == \E s \in Sources :
  /\ RowOf(s) # 0
  /\ Start(t, "upsert", [NoJob EXCEPT !.op = "refetch", !.src = s, !.lib = InLibrary(RowOf(s))])

(***************************************************************************)
(* MigrateMangaSource.                                                      *)
(***************************************************************************)
\* The target's list is fetched first; the entry must exist, the target must not.
MigrateBegin(t) == \E s \in Sources : \E u \in Sources \ {s} : \E l \in Lists[u] :
  /\ RowOf(s) # 0 /\ RowOf(u) = 0
  /\ Start(t, "collect", [NoJob EXCEPT !.op = "migrate", !.row = RowOf(s), !.src = u, !.want = l])

ReadSourceIDs(t) ==
  /\ pc[t] = "collect" /\ Goto(t, "commit")
  /\ job' = [job EXCEPT ![t].left = {c.id : c \in {d \in ChaptersOf(job[t].row) : Progress(d)}}]
  /\ UNCHANGED <<tables, started, booting, history>>

\* setChaptersUpToTx: everything below the highest collected number plus one.
CarriedRead(t, rows) ==
  LET bounds == {Num[c.id] : c \in {d \in rows : d.id \in job[t].left}}
  IN  {[c EXCEPT !.reading = IF \E b \in bounds : Num[c.id] < b + Whole THEN "read" ELSE @] : c \in rows}

\* Mutants of Commit: it leaves the old source's chapters, or its documents.
CommitKeepsOld(t) ==
  LET r == job[t].row IN
  /\ Leave(t, "commit") /\ RowOf(job[t].src) = 0 /\ Present(r)
  /\ mangas' = [mangas EXCEPT ![r].src = job[t].src]
  /\ chapters' = (chapters \ ChaptersOf(r))
       \cup CarriedRead(t, ChaptersOf(r) \cup Inserted(r, job[t].want \ IdsOf(r), FALSE))
  /\ fts' = (fts \ DocumentsOf(r, fts)) \cup DocumentsOf(r, Documents(mangas'))
  /\ UNCHANGED <<lastRow, history>>

CommitUnindexed(t) ==
  LET r == job[t].row IN
  /\ Leave(t, "commit") /\ RowOf(job[t].src) = 0 /\ Present(r)
  /\ mangas' = [mangas EXCEPT ![r].src = job[t].src]
  /\ chapters' = (chapters \ ChaptersOf(r)) \cup Inserted(r, job[t].want, FALSE)
  /\ UNCHANGED <<lastRow, fts, history>>

\* repointMangaTx, upsertChaptersTx, setChaptersUpToTx, deleteChaptersNotInTx and
\* SyncFTSTx in one transaction. The unique key refuses a target that exists by
\* now, the foreign key the chapters of a row that has gone: both roll back.
Commit(t) ==
  LET r == job[t].row
      ids == job[t].want \ IdsOf(r)
      rows == ChaptersOf(r) \cup Inserted(r, ids, FALSE)
  IN
  /\ Leave(t, "commit")
  /\ \/ /\ RowOf(job[t].src) # 0 \/ ~Present(r)
        /\ UNCHANGED tables
     \/ /\ RowOf(job[t].src) = 0 /\ Present(r)
        /\ mangas' = [mangas EXCEPT ![r].src = job[t].src]
        /\ chapters' = (chapters \ ChaptersOf(r)) \cup {c \in CarriedRead(t, rows) : c.id \in job[t].want}
        /\ fts' = (fts \ DocumentsOf(r, fts)) \cup DocumentsOf(r, Documents(mangas'))
        /\ UNCHANGED lastRow
  /\ Settle(t, {c \in chapters' : c.manga = r /\ c \notin chapters /\ Progress(c)})
  /\ UNCHANGED <<chosen, revived, behind>>

Migrate(t) == MigrateBegin(t) \/ ReadSourceIDs(t) \/ Commit(t)

(***************************************************************************)
(* The reader: library membership and chapter progress.                    *)
(***************************************************************************)
ToggleBegin(t) == \E s \in Sources :
  /\ RowOf(s) # 0
  /\ Start(t, "flip", [NoJob EXCEPT !.op = "toggle", !.row = RowOf(s)])

ToggleLibrary(t) ==
  LET r == job[t].row IN
  /\ Step(t, "flip", "unindex")
  /\ mangas' = [mangas EXCEPT ![r].lib = Present(r) /\ ~@]
  /\ IF mangas'[r].lib THEN chosen' = chosen \cup {r} /\ UNCHANGED revived
     ELSE chosen' = chosen \ {r} /\ revived' = revived \ {r}
  /\ UNCHANGED <<lastRow, chapters, fts, late, behind>>

Unindex(t) ==
  /\ Step(t, "unindex", "index")
  /\ fts' = fts \ DocumentsOf(job[t].row, fts)
  /\ UNCHANGED <<mangas, lastRow, chapters, history>>

\* withChapter's lookup.
ReadBegin(t) == \E o \in {"progress", "toggleRead", "reset"}, c \in chapters :
  Start(t, "touch", [NoJob EXCEPT !.op = o, !.hit = {c}])

Toggled == [none |-> {"read"}, opened |-> {"none", "read"}, read |-> {"none", "opened"}]

\* A chapter marked unread keeps the page it was left at, unless that was the last.
Touched(o, c) ==
  CASE o = "progress"   -> {IF Progress(c) THEN c ELSE [c EXCEPT !.reading = "opened"]}
    [] o = "toggleRead" -> {[c EXCEPT !.reading = new] : new \in Toggled[c.reading]}
    [] o = "reset"      -> {[c EXCEPT !.reading = "none"]}

\* SetChapterProgress, ToggleChapterRead, ResetChapterProgress by row id.
Touch(t) ==
  /\ Leave(t, "touch")
  /\ \/ \E c \in chapters : \E d \in Touched(job[t].op, c) :
          Hit(t, c) /\ chapters' = (chapters \ {c}) \cup {d}
     \/ (\A c \in chapters : ~Hit(t, c)) /\ UNCHANGED chapters
  /\ Settle(t, job[t].hit)
  /\ UNCHANGED <<mangas, lastRow, fts, chosen, revived, behind>>

Reader(t) == ToggleBegin(t) \/ ToggleLibrary(t) \/ Unindex(t) \/ ReadBegin(t) \/ Touch(t)

(***************************************************************************)
(* The maintenance pass: PruneOrphans if it is enabled, then healFTS. At    *)
(* startup it ends before the server listens.                               *)
(***************************************************************************)
PassBegin(t) ==
  /\ booting => \A u \in Threads : pc[u] = "idle"
  /\ \E l \in {"purge", "check"} : Start(t, l, [NoJob EXCEPT !.op = "pass"])

PassEnd(t) == Finish(t) /\ booting' = FALSE /\ UNCHANGED started

\* non_library_chapters
Purge(t) ==
  /\ Step(t, "purge", "drop")
  /\ chapters' = {c \in chapters : InLibrary(c.manga)}
  /\ UNCHANGED <<mangas, lastRow, fts, history>>

\* non_library_no_chapters
Drop(t) ==
  /\ Step(t, "drop", "sweep")
  /\ mangas' = [r \in Rows |-> IF ~mangas[r].lib /\ ChaptersOf(r) = {} THEN NoRow ELSE mangas[r]]
  /\ UNCHANGED <<lastRow, chapters, fts, history>>

\* orphan_fts
Sweep(t) ==
  /\ Step(t, "sweep", "check")
  /\ fts' = {d \in fts : Present(d[1])}
  /\ UNCHANGED <<mangas, lastRow, chapters, history>>

\* LibraryFTSDrift; it also counts, and finds a document that is there twice.
Check(t) ==
  /\ pc[t] = "check"
  /\ \/ fts = Documents(mangas) /\ PassEnd(t) /\ behind' = FALSE
     \/ Goto(t, "wipe") /\ UNCHANGED <<job, started, booting, behind>>
  /\ UNCHANGED <<tables, chosen, revived, late>>

\* RebuildLibraryFTS
Wipe(t) ==
  /\ Step(t, "wipe", "rebuild")
  /\ fts' = {}
  /\ UNCHANGED <<mangas, lastRow, chapters, history>>

Rebuild(t) ==
  /\ pc[t] = "rebuild" /\ PassEnd(t)
  /\ fts' = fts \cup Documents(mangas)
  /\ behind' = (behind /\ fts' # Documents(mangas))
  /\ UNCHANGED <<mangas, lastRow, chapters, chosen, revived, late>>

Maintain(t) ==
  \/ PassBegin(t) \/ Purge(t) \/ Drop(t) \/ Sweep(t) \/ Check(t) \/ Wipe(t) \/ Rebuild(t)

(***************************************************************************)
(* A statement or a plugin call that fails, and a crash of the process.    *)
(***************************************************************************)
Reindexing == {"select", "unindex", "index", "rebuild"}

\* Maintenance goes on to the next statement, every other operation returns.
Fails(t) ==
  /\ pc[t] # "idle"
  /\ CASE pc[t] = "purge" -> Step(t, "purge", "drop")
       [] pc[t] = "drop" -> Step(t, "drop", "sweep")
       [] pc[t] = "sweep" -> Step(t, "sweep", "check")
       [] pc[t] \in {"check", "wipe", "rebuild"} -> PassEnd(t)
       [] OTHER -> Finish(t) /\ UNCHANGED <<started, booting>>
  /\ IF pc[t] \in Window THEN Settle(t, {}) ELSE UNCHANGED late
  /\ behind' = (behind \/ pc[t] \in Reindexing)
  /\ UNCHANGED <<tables, chosen, revived>>

Crash ==
  /\ pc' = [t \in Threads |-> "idle"]
  /\ job' = [t \in Threads |-> NoJob]
  /\ ~booting /\ started < MaxOperations
  /\ booting' = TRUE /\ UNCHANGED started
  /\ late' = {}
  /\ behind' = (behind \/ \E t \in Threads : pc[t] \in Reindexing)
  /\ UNCHANGED <<tables, chosen, revived>>

Next ==
  \/ \E t \in Threads : Sync(t) \/ Refetch(t) \/ Migrate(t) \/ Reader(t) \/ Maintain(t) \/ Fails(t)
  \/ Crash

Spec == Init /\ [][Next]_vars
-----------------------------------------------------------------------------
ChapterRows == [manga : Rows, id : Ids, reading : {"none", "opened", "read"}, stray : BOOLEAN]

\* The types of the tables, with their keys: a source has one row, a chapter of
\* a manga one row, and no chapter outlives its manga (schema.go).
TypeOK ==
  /\ mangas \in [Rows -> [src : Sources \cup {Nothing}, lib : BOOLEAN]]
  /\ lastRow \in Rows
  /\ chapters \subseteq ChapterRows
  /\ fts \subseteq Rows \X Sources
  /\ \A r, q \in Rows : Present(r) /\ mangas[r].src = mangas[q].src => r = q
  /\ \A c, d \in chapters : c.manga = d.manga /\ c.id = d.id => c = d
  /\ \A c \in chapters : Present(c.manga)
  /\ booting \in BOOLEAN /\ behind \in BOOLEAN

\* While nobody is between a write and its re-index, and none was cut off since
\* the last maintenance pass that looked, library_fts holds the entries of the
\* library under their present source and nothing else, however syncs, toggles,
\* migrations, rebuilds and crashes have crossed (fts.go). It says nothing of
\* how often a document is there.
IndexAgrees ==
  ~behind /\ (\A t \in Threads : pc[t] \notin Reindexing) => fts = Documents(mangas)

\* The library is what the reader has put there: no sync, migration, prune,
\* failure or crash adds an entry or loses one. The exception is the row that
\* refetchCover writes back as it was before a migration (progress.go:133).
LibraryIsTheReaders == {r \in Rows : mangas[r].lib} = chosen \cup revived

\* An entry lists chapters of its own source only (migrate.go), except those a
\* sync inserts that had found its row before a migration gave it another source.
OwnChapters ==
  \A c \in chapters : c.stray \/ c.id \in UNION Lists[mangas[c.manga].src]

\* Progress on a chapter of the library is lost to the reader's own click only.
\* A migration replaces it by read chapters up to that number, a prune drops no
\* chapter with progress; the exception is what was read between their look at
\* the table and their write (migrate.go:48, chapters_prune.go:63).
ProgressKept ==
  [][\A c \in chapters : Progress(c) /\ InLibrary(c.manga) =>
       \/ \E d \in chapters' : d.manga = c.manga /\ d.id = c.id /\ Progress(d)
       \/ \E t \in Threads : pc[t] = "touch" /\ Hit(t, c) /\ pc'[t] = "idle"
       \/ <<c.manga, c.id>> \in late
       \/ mangas'[c.manga].src # mangas[c.manga].src
            /\ \A d \in chapters' : d.manga = c.manga /\ Num[d.id] <= Num[c.id] => d.reading = "read"]_vars
=============================================================================
