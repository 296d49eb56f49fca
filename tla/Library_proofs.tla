--------------------------- MODULE Library_proofs ---------------------------
(***************************************************************************)
(* Proofs about Library: for every number of threads, sources, chapter      *)
(* lists, rows and operations, the keys of the tables, the search index,    *)
(* the library's membership, the chapter lists and the reader's progress.   *)
(***************************************************************************)
EXTENDS Library, TLAPS

Operations == {"none", "sync", "refetch", "migrate", "toggle", "progress", "toggleRead", "reset", "pass"}

Places == {"idle", "upsert", "select", "index", "member", "chapters", "prune", "collect", "commit",
           "flip", "unindex", "touch", "purge", "drop", "sweep", "check", "wipe", "rebuild"}

JobRecords ==
  [op : Operations, src : Sources \cup {Nothing}, row : Rows \cup {0}, lib : BOOLEAN,
   want : SUBSET Ids, left : SUBSET Ids, hit : SUBSET ChapterRows]

Clicks == {"progress", "toggleRead", "reset"}

\* A migration knows its target from its first step on, a click what it is, and
\* a toggle the row that it found.
ThreadsTyped ==
  /\ pc \in [Threads -> Places]
  /\ job \in [Threads -> JobRecords]
  /\ \A t \in Threads : pc[t] \in {"collect", "commit"} => job[t].src \in Sources
  /\ \A t \in Threads : pc[t] = "touch" => job[t].op \in Clicks
  /\ \A t \in Threads : pc[t] = "flip" => job[t].row \in Rows

\* The rows that AUTOINCREMENT has not reached are empty.
Fresh == \A r \in Rows : r > lastRow => ~Present(r) /\ ~mangas[r].lib

TypeInv == TypeOK /\ ThreadsTyped /\ Fresh

-----------------------------------------------------------------------------
LEMMA RowsAre == \A r : r \in Rows <=> r \in Int /\ 1 <= r /\ r <= MaxRow
  BY LibraryAssumption DEF Rows

\* A lookup finds the row of the source, or there is none.
LEMMA RowOfFinds ==
  ASSUME NEW s
  PROVE  /\ RowOf(s) \in Rows \cup {0}
         /\ RowOf(s) # 0 => RowOf(s) \in Rows /\ mangas[RowOf(s)].src = s
         /\ RowOf(s) = 0 => \A r \in Rows : mangas[r].src # s
<1>1. CASE \E r \in Rows : mangas[r].src = s
  <2> DEFINE found == CHOOSE r \in Rows : mangas[r].src = s
  <2>1. found \in Rows /\ mangas[found].src = s
    BY <1>1
  <2>2. RowOf(s) = found
    BY <1>1 DEF RowOf
  <2>3. found # 0
    BY <2>1, RowsAre
  <2> QED BY <2>1, <2>2, <2>3
<1>2. CASE ~\E r \in Rows : mangas[r].src = s
  BY <1>2 DEF RowOf
<1> QED BY <1>1, <1>2

LEMMA OfferedIds ==
  \A s \in Sources : \A l \in Lists[s] : l \subseteq Ids
  BY DEF Ids

LEMMA NoJobTyped == NoJob \in JobRecords
  BY DEF NoJob, JobRecords, Operations

\* An operation that begins leaves the tables alone.
LEMMA StartTyped ==
  ASSUME TypeInv, NEW t \in Threads, NEW l \in Places \ {"commit"}, NEW j \in JobRecords,
         Start(t, l, j), l = "collect" => j.src \in Sources, l = "touch" => j.op \in Clicks,
         l = "flip" => j.row \in Rows
  PROVE  TypeInv'
<1>1. UNCHANGED <<mangas, lastRow, chapters, fts, booting, chosen, revived, late, behind>>
  BY DEF Start, tables, history
<1>2. ThreadsTyped'
  BY DEF Start, Goto, TypeInv, ThreadsTyped
<1> QED BY <1>1, <1>2 DEF TypeInv, TypeOK, Fresh, Present, ChapterRows

LEMMA FinishTyped ==
  ASSUME ThreadsTyped, NEW t \in Threads, Finish(t)
  PROVE  ThreadsTyped'
BY NoJobTyped DEF Finish, Goto, ThreadsTyped, Places

LEMMA StepTyped ==
  ASSUME ThreadsTyped, NEW t \in Threads, NEW k, NEW l \in Places \ {"collect", "commit", "touch", "flip"}, Step(t, k, l)
  PROVE  ThreadsTyped'
BY DEF Step, Goto, ThreadsTyped

LEMMA RelabelTyped ==
  ASSUME ThreadsTyped, NEW t \in Threads, NEW l \in Places, NEW j \in JobRecords,
         pc' = [pc EXCEPT ![t] = l], job' = [job EXCEPT ![t] = j],
         l \in {"collect", "commit"} => j.src \in Sources, l \notin {"touch", "flip"}
  PROVE  ThreadsTyped'
BY DEF ThreadsTyped

\* A chapter inserted under a new id of a present row keeps the keys.
LEMMA InsertedRows ==
  ASSUME NEW r \in Rows, NEW ids \in SUBSET Ids, NEW stray \in BOOLEAN
  PROVE  /\ Inserted(r, ids, stray) \subseteq ChapterRows
         /\ \A c \in Inserted(r, ids, stray) :
              c.manga = r /\ c.id \in ids /\ c.reading = "none" /\ c.stray = stray
         /\ \A c, d \in Inserted(r, ids, stray) : c.id = d.id => c = d
BY DEF Inserted, ChapterRows

LEMMA InsertedNotStray ==
  ASSUME NEW r \in Rows, NEW ids \in SUBSET Ids
  PROVE  /\ Inserted(r, ids, FALSE) \subseteq ChapterRows
         /\ \A c \in Inserted(r, ids, FALSE) : c.manga = r /\ c.id \in ids
         /\ \A c, d \in Inserted(r, ids, FALSE) : c.id = d.id => c = d
<1>1. FALSE \in BOOLEAN
  OBVIOUS
<1>2. \A c \in Inserted(r, ids, FALSE) : c.manga = r /\ c.id \in ids
  BY <1>1, InsertedRows, Zenon
<1>3. Inserted(r, ids, FALSE) \subseteq ChapterRows
  BY <1>1, InsertedRows, Zenon
<1>4. \A c, d \in Inserted(r, ids, FALSE) : c.id = d.id => c = d
  BY <1>1, InsertedRows, Zenon
<1> QED BY <1>2, <1>3, <1>4

-----------------------------------------------------------------------------
LEMMA InitTyped == Init => TypeInv
<1> SUFFICES ASSUME Init PROVE TypeInv
  OBVIOUS
<1>0. 1 \in Rows
  BY LibraryAssumption, RowsAre
<1>a. PICK s \in Sources : \E l \in Lists[s], read \in SUBSET Ids :
        /\ mangas = [r \in Rows |-> IF r = 1 THEN [NoRow EXCEPT !.src = s, !.lib = TRUE] ELSE NoRow]
        /\ chapters = {[c EXCEPT !.reading = IF c.id \in read THEN "read" ELSE @] : c \in Inserted(1, l, FALSE)}
  BY DEF Init
<1>1. PICK l \in Lists[s], read \in SUBSET Ids :
        /\ mangas = [r \in Rows |-> IF r = 1 THEN [NoRow EXCEPT !.src = s, !.lib = TRUE] ELSE NoRow]
        /\ chapters = {[c EXCEPT !.reading = IF c.id \in read THEN "read" ELSE @] : c \in Inserted(1, l, FALSE)}
  BY <1>a
<1>2. mangas \in [Rows -> [src : Sources \cup {Nothing}, lib : BOOLEAN]]
  BY <1>1 DEF NoRow
<1>3. \A r, q \in Rows : Present(r) /\ mangas[r].src = mangas[q].src => r = q
  BY <1>1, LibraryAssumption DEF NoRow, Present
<1>4. \A c \in Inserted(1, l, FALSE) : c \in ChapterRows /\ c.manga = 1
  BY <1>0, OfferedIds, InsertedRows
<1>5. chapters \subseteq ChapterRows /\ \A c \in chapters : c.manga = 1
  <2> SUFFICES ASSUME NEW c \in Inserted(1, l, FALSE)
               PROVE  LET d == [c EXCEPT !.reading = IF c.id \in read THEN "read" ELSE @]
                      IN  d \in ChapterRows /\ d.manga = 1
    BY <1>1
  <2> QED BY <1>4 DEF ChapterRows
<1>6. \A c, d \in chapters : c.manga = d.manga /\ c.id = d.id => c = d
  <2> SUFFICES ASSUME NEW c \in chapters, NEW d \in chapters, c.id = d.id PROVE c = d
    OBVIOUS
  <2>1. PICK x \in Inserted(1, l, FALSE) : c = [x EXCEPT !.reading = IF x.id \in read THEN "read" ELSE @]
    BY <1>1
  <2>2. PICK y \in Inserted(1, l, FALSE) : d = [y EXCEPT !.reading = IF y.id \in read THEN "read" ELSE @]
    BY <1>1
  <2>3. x.id = c.id /\ y.id = d.id
    BY <1>4, <2>1, <2>2 DEF ChapterRows
  <2>4. x = y
    <3>1. l \in SUBSET Ids /\ FALSE \in BOOLEAN
      BY OfferedIds
    <3>2. \A u, v \in Inserted(1, l, FALSE) : u.id = v.id => u = v
      BY <1>0, <3>1, InsertedRows
    <3> QED BY <2>3, <3>2
  <2> QED BY <2>1, <2>2, <2>4
<1>7. \A c \in chapters : Present(c.manga)
  BY <1>0, <1>1, <1>5, LibraryAssumption DEF Present, NoRow
<1>8. lastRow \in Rows /\ fts \subseteq Rows \X Sources /\ booting \in BOOLEAN /\ behind \in BOOLEAN
  BY <1>0 DEF Init, Documents
<1>9. Fresh
  BY <1>1, RowsAre DEF Init, Fresh, Present, NoRow
<1>10. ThreadsTyped
  BY NoJobTyped DEF Init, ThreadsTyped, Places
<1> QED BY <1>2, <1>3, <1>5, <1>6, <1>7, <1>8, <1>9, <1>10 DEF TypeInv, TypeOK

-----------------------------------------------------------------------------
(* Every step keeps the types and the keys *)

LEMMA RowsKept ==
  ASSUME TypeInv, UNCHANGED <<mangas, lastRow, chapters>>, fts' \subseteq Rows \X Sources,
         booting' \in BOOLEAN, behind' \in BOOLEAN, ThreadsTyped'
  PROVE  TypeInv'
BY DEF TypeInv, TypeOK, Fresh, Present, ChapterRows

LEMMA ChaptersMayChange ==
  ASSUME TypeInv, UNCHANGED <<mangas, lastRow, fts, booting, behind>>, ThreadsTyped',
         chapters' \subseteq ChapterRows,
         \A c, d \in chapters' : c.manga = d.manga /\ c.id = d.id => c = d,
         \A c \in chapters' : Present(c.manga)
  PROVE  TypeInv'
BY DEF TypeInv, TypeOK, Fresh, Present, ChapterRows

LEMMA DocumentsTyped ==
  ASSUME NEW r, NEW table
  PROVE  DocumentsOf(r, Documents(table)) \subseteq Rows \X Sources
BY DEF Documents, DocumentsOf

LEMMA BeginTyped ==
  ASSUME TypeInv, NEW t \in Threads,
         SyncBegin(t) \/ DetailsBegin(t) \/ Refetch(t) \/ MigrateBegin(t) \/ ToggleBegin(t)
           \/ ReadBegin(t) \/ PassBegin(t)
  PROVE  TypeInv'
<1> USE DEF NoJob, JobRecords, Operations, Places, Clicks
<1>1. CASE SyncBegin(t) \/ DetailsBegin(t)
  <2>1. PICK s \in Sources : \E l \in Lists[s] \cup {{}} :
          Start(t, "upsert", [NoJob EXCEPT !.op = "sync", !.src = s, !.want = l])
    BY <1>1 DEF SyncBegin, DetailsBegin
  <2>2. PICK l \in Lists[s] \cup {{}} :
          Start(t, "upsert", [NoJob EXCEPT !.op = "sync", !.src = s, !.want = l])
    BY <2>1
  <2>3. l \subseteq Ids
    BY OfferedIds
  <2>4. [NoJob EXCEPT !.op = "sync", !.src = s, !.want = l] \in JobRecords
    BY <2>3
  <2> QED BY <2>2, <2>4, StartTyped
<1>2. CASE Refetch(t)
  <2>1. PICK s \in Sources :
          Start(t, "upsert", [NoJob EXCEPT !.op = "refetch", !.src = s, !.lib = InLibrary(RowOf(s))])
    BY <1>2 DEF Refetch
  <2>2. InLibrary(RowOf(s)) \in BOOLEAN
    BY DEF InLibrary, TypeInv, TypeOK
  <2>3. [NoJob EXCEPT !.op = "refetch", !.src = s, !.lib = InLibrary(RowOf(s))] \in JobRecords
    BY <2>2
  <2> QED BY <2>1, <2>3, StartTyped
<1>3. CASE MigrateBegin(t)
  <2>1. PICK s \in Sources : \E u \in Sources \ {s} : \E l \in Lists[u] :
          Start(t, "collect", [NoJob EXCEPT !.op = "migrate", !.row = RowOf(s), !.src = u, !.want = l])
    BY <1>3 DEF MigrateBegin
  <2>2. PICK u \in Sources : \E l \in Lists[u] :
          Start(t, "collect", [NoJob EXCEPT !.op = "migrate", !.row = RowOf(s), !.src = u, !.want = l])
    BY <2>1
  <2>3. PICK l \in Lists[u] :
          Start(t, "collect", [NoJob EXCEPT !.op = "migrate", !.row = RowOf(s), !.src = u, !.want = l])
    BY <2>2
  <2>4. l \subseteq Ids /\ RowOf(s) \in Rows \cup {0}
    BY OfferedIds, RowOfFinds
  <2>5. [NoJob EXCEPT !.op = "migrate", !.row = RowOf(s), !.src = u, !.want = l] \in JobRecords
    BY <2>4
  <2> QED BY <2>3, <2>5, StartTyped
<1>4. CASE ToggleBegin(t)
  <2>1. PICK s \in Sources : RowOf(s) # 0 /\ Start(t, "flip", [NoJob EXCEPT !.op = "toggle", !.row = RowOf(s)])
    BY <1>4 DEF ToggleBegin
  <2>2. [NoJob EXCEPT !.op = "toggle", !.row = RowOf(s)] \in JobRecords
    BY RowOfFinds
  <2> QED BY <2>1, <2>2, StartTyped
<1>5. CASE ReadBegin(t)
  <2>1. PICK o \in {"progress", "toggleRead", "reset"} : \E c \in chapters :
          Start(t, "touch", [NoJob EXCEPT !.op = o, !.hit = {c}])
    BY <1>5 DEF ReadBegin
  <2>2. PICK c \in chapters : Start(t, "touch", [NoJob EXCEPT !.op = o, !.hit = {c}])
    BY <2>1
  <2>3. c \in ChapterRows
    BY DEF TypeInv, TypeOK
  <2>4. [NoJob EXCEPT !.op = o, !.hit = {c}] \in JobRecords
    BY <2>3
  <2> QED BY <2>2, <2>4, StartTyped
<1>6. CASE PassBegin(t)
  <2>1. PICK l \in {"purge", "check"} : Start(t, l, [NoJob EXCEPT !.op = "pass"])
    BY <1>6 DEF PassBegin
  <2>2. [NoJob EXCEPT !.op = "pass"] \in JobRecords
    OBVIOUS
  <2> QED BY <2>1, <2>2, StartTyped
<1> QED BY <1>1, <1>2, <1>3, <1>4, <1>5, <1>6

LEMMA SyncTyped ==
  ASSUME TypeInv, NEW t \in Threads,
         Upsert(t) \/ SelectId(t) \/ Index(t) \/ Member(t) \/ UpsertChapter(t)
           \/ PruneSelect(t) \/ PruneDelete(t)
  PROVE  TypeInv'
<1>0. ThreadsTyped /\ job[t] \in JobRecords
  BY DEF TypeInv, ThreadsTyped
<1>1. CASE Upsert(t)
  <2>1. ThreadsTyped'
    BY <1>0, <1>1, StepTyped DEF Upsert, Places
  <2>2. CASE RowOf(job[t].src) # 0
    BY <1>1, <2>1, <2>2, RowsKept DEF Upsert, Step, TypeInv, TypeOK
  <2>3. CASE RowOf(job[t].src) = 0
    <3>1. /\ lastRow' = lastRow + 1 /\ lastRow < MaxRow
          /\ mangas' = [mangas EXCEPT ![lastRow'] = [src |-> job[t].src, lib |-> job[t].lib]]
          /\ UNCHANGED <<chapters, fts, booting, behind>>
      BY <1>1, <2>3 DEF Upsert, Step
    <3>2. lastRow' \in Rows /\ lastRow \in Rows
      BY <3>1, RowsAre, LibraryAssumption DEF TypeInv, TypeOK
    <3>3. job[t].src \in Sources \cup {Nothing} /\ job[t].lib \in BOOLEAN
      BY <1>0 DEF JobRecords
    <3>4. mangas' \in [Rows -> [src : Sources \cup {Nothing}, lib : BOOLEAN]]
      BY <3>1, <3>2, <3>3 DEF TypeInv, TypeOK
    <3>5. \A r \in Rows : mangas[r].src # job[t].src
      BY <2>3, RowOfFinds
    <3>6. ~Present(lastRow')
      BY <3>1, <3>2, RowsAre DEF TypeInv, Fresh
    <3>7. \A r \in Rows : Present(r) => r # lastRow' /\ mangas'[r] = mangas[r]
      BY <3>1, <3>2, <3>6 DEF Present, NoRow, TypeInv, TypeOK
    <3>8. \A r, q \in Rows : Present(r)' /\ mangas'[r].src = mangas'[q].src => r = q
      BY <3>1, <3>2, <3>3, <3>5 DEF Present, TypeInv, TypeOK
    <3>9. \A c \in chapters' : Present(c.manga)'
      BY <3>1, <3>7 DEF Present, TypeInv, TypeOK, ChapterRows
    <3>10. Fresh'
      BY <3>1, <3>2, RowsAre DEF Fresh, Present, TypeInv, TypeOK
    <3> QED BY <2>1, <3>1, <3>2, <3>4, <3>8, <3>9, <3>10 DEF TypeInv, TypeOK, ChapterRows
  <2> QED BY <2>2, <2>3
<1>2. CASE SelectId(t)
  <2> DEFINE r == RowOf(job[t].src)
  <2>1. CASE r = 0
    BY <1>0, <1>2, <2>1, FinishTyped, RowsKept DEF SelectId, TypeInv, TypeOK, history
  <2>2. CASE r # 0
    <3>1. r \in Rows
      BY <2>2, RowOfFinds
    <3>2. [job[t] EXCEPT !.row = r] \in JobRecords
      BY <1>0, <3>1 DEF JobRecords
    <3>3. pc' = [pc EXCEPT ![t] = "index"] /\ job' = [job EXCEPT ![t].row = r]
      BY <1>2, <2>2 DEF SelectId, Goto
    <3>4. ThreadsTyped'
      BY <1>0, <3>2, <3>3 DEF ThreadsTyped, Places
    <3> QED BY <1>2, <2>2, <3>4, RowsKept DEF SelectId, TypeInv, TypeOK, history
  <2> QED BY <2>1, <2>2
<1>3. CASE Index(t)
  <2>1. ThreadsTyped'
    BY <1>0, <1>3, FinishTyped DEF Index, Goto, ThreadsTyped, Places
  <2>2. fts' \subseteq Rows \X Sources
    BY <1>3, DocumentsTyped DEF Index, TypeInv, TypeOK
  <2> QED BY <1>3, <2>1, <2>2, RowsKept DEF Index, TypeInv, TypeOK, history
<1>4. CASE Member(t)
  <2>1. [job[t] EXCEPT !.left = job[t].want] \in JobRecords
    BY <1>0 DEF JobRecords
  <2>2. ThreadsTyped'
    BY <1>0, <1>4, <2>1, FinishTyped DEF Member, Goto, ThreadsTyped, Places
  <2> QED BY <1>4, <2>2, RowsKept DEF Member, TypeInv, TypeOK, tables, history
<1>5. CASE UpsertChapter(t)
  <2>1. PICK i \in job[t].left :
          \/ /\ ~Present(job[t].row) /\ Finish(t) /\ UNCHANGED chapters
          \/ /\ Present(job[t].row) /\ UNCHANGED pc
             /\ job' = [job EXCEPT ![t].left = @ \ {i}]
             /\ IF i \in IdsOf(job[t].row) THEN UNCHANGED chapters
                ELSE chapters' = chapters \cup Inserted(job[t].row, {i}, mangas[job[t].row].src # job[t].src)
    BY <1>5 DEF UpsertChapter
  <2>2. i \in Ids
    BY <1>0 DEF JobRecords
  <2>3. [job[t] EXCEPT !.left = @ \ {i}] \in JobRecords
    BY <1>0 DEF JobRecords
  <2>4. ThreadsTyped'
    <3>1. CASE Finish(t)
      BY <1>0, <3>1, FinishTyped
    <3>2. CASE UNCHANGED pc /\ job' = [job EXCEPT ![t].left = @ \ {i}]
      BY <1>0, <2>3, <3>2 DEF ThreadsTyped
    <3> QED BY <2>1, <3>1, <3>2
  <2>5. UNCHANGED <<mangas, lastRow, fts, booting, behind>>
    BY <1>5 DEF UpsertChapter, history
  <2>6. CASE UNCHANGED chapters
    BY <2>4, <2>5, <2>6, RowsKept DEF TypeInv, TypeOK
  <2>7. CASE chapters' # chapters
    <3> DEFINE r == job[t].row
               new == Inserted(r, {i}, mangas[r].src # job[t].src)
    <3>1. Present(r) /\ i \notin IdsOf(r) /\ chapters' = chapters \cup new
      BY <2>1, <2>7
    <3>2. r \in Rows /\ {i} \in SUBSET Ids /\ (mangas[r].src # job[t].src) \in BOOLEAN
      BY <2>2, <3>1 DEF Present
    <3>3. /\ new \subseteq ChapterRows
          /\ \A c \in new : c.manga = r /\ c.id = i
          /\ \A c, d \in new : c.id = d.id => c = d
      <4>1. ASSUME NEW stray \in BOOLEAN, NEW x \in Rows
            PROVE  /\ Inserted(x, {i}, stray) \subseteq ChapterRows
                   /\ \A c \in Inserted(x, {i}, stray) : c.manga = x /\ c.id = i
                   /\ \A c, d \in Inserted(x, {i}, stray) : c.id = d.id => c = d
        BY <2>2 DEF Inserted, ChapterRows
      <4> QED BY <3>2, <4>1
    <3> HIDE DEF r, new
    <3>4. \A c \in chapters : c.manga = r => c.id # i
      BY <3>1 DEF IdsOf, ChaptersOf
    <3>5. \A c, d \in chapters' : c.manga = d.manga /\ c.id = d.id => c = d
      <4>1. \A c, d \in chapters : c.manga = d.manga /\ c.id = d.id => c = d
        BY DEF TypeInv, TypeOK
      <4> QED BY <3>1, <3>3, <3>4, <4>1
    <3>6. chapters' \subseteq ChapterRows /\ \A c \in chapters' : Present(c.manga)
      BY <3>1, <3>3 DEF TypeInv, TypeOK
    <3> QED BY <2>4, <2>5, <3>5, <3>6, ChaptersMayChange
  <2> QED BY <2>6, <2>7
<1>6. CASE PruneSelect(t)
  <2>1. [job[t] EXCEPT !.hit = Superseded(t)] \in JobRecords
    <3>1. Superseded(t) \subseteq ChapterRows
      BY DEF Superseded, ChaptersOf, TypeInv, TypeOK
    <3> QED BY <1>0, <3>1 DEF JobRecords
  <2>2. ThreadsTyped'
    BY <1>0, <1>6, <2>1, FinishTyped DEF PruneSelect, Goto, ThreadsTyped, Places
  <2> QED BY <1>6, <2>2, RowsKept DEF PruneSelect, TypeInv, TypeOK, tables, history
<1>7. CASE PruneDelete(t)
  <2>1. ThreadsTyped'
    BY <1>0, <1>7, FinishTyped DEF PruneDelete, Leave
  <2>2. chapters' \subseteq chapters
    BY <1>7 DEF PruneDelete
  <2> QED BY <1>7, <2>1, <2>2, ChaptersMayChange DEF PruneDelete, Leave, TypeInv, TypeOK
<1> QED BY <1>1, <1>2, <1>3, <1>4, <1>5, <1>6, <1>7

\* Where a write leaves a chapter its key, its row id stays too.
LEMMA SameKeys ==
  ASSUME TypeInv, UNCHANGED mangas, chapters' \subseteq ChapterRows,
         NEW c \in chapters, NEW d \in ChapterRows, d.manga = c.manga, d.id = c.id,
         chapters' = (chapters \ {c}) \cup {d}
  PROVE  /\ \A x, y \in chapters' : x.manga = y.manga /\ x.id = y.id => x = y
         /\ \A x \in chapters' : Present(x.manga)
BY DEF TypeInv, TypeOK

\* What a migration carries over is one row per row it found, under the same key.
CarriedRow(t, rows, c) ==
  [c EXCEPT !.reading = IF \E b \in {Num[y.id] : y \in {z \in rows : z.id \in job[t].left}} : Num[c.id] < b + Whole
                        THEN "read" ELSE @]

LEMMA CarriedIs ==
  ASSUME NEW t, NEW rows \in SUBSET ChapterRows
  PROVE  /\ CarriedRead(t, rows) = {CarriedRow(t, rows, c) : c \in rows}
         /\ \A c \in rows :
              /\ CarriedRow(t, rows, c) \in ChapterRows
              /\ CarriedRow(t, rows, c).manga = c.manga /\ CarriedRow(t, rows, c).id = c.id
              /\ CarriedRow(t, rows, c).reading \in {c.reading, "read"}
<1>1. CarriedRead(t, rows) = {CarriedRow(t, rows, c) : c \in rows}
  BY DEF CarriedRead, CarriedRow
<1>2. ASSUME NEW c \in rows
      PROVE  /\ CarriedRow(t, rows, c) \in ChapterRows
             /\ CarriedRow(t, rows, c).manga = c.manga /\ CarriedRow(t, rows, c).id = c.id
             /\ CarriedRow(t, rows, c).reading \in {c.reading, "read"}
  BY DEF CarriedRow, ChapterRows
<1> QED BY <1>1, <1>2

LEMMA CarriedRows ==
  ASSUME NEW t, NEW rows \in SUBSET ChapterRows
  PROVE  /\ CarriedRead(t, rows) \subseteq ChapterRows
         /\ (\A c, d \in rows : c.id = d.id => c = d)
              => \A d, e \in CarriedRead(t, rows) : d.id = e.id => d = e
BY CarriedIs

LEMMA CarriedFrom ==
  ASSUME NEW t, NEW rows \in SUBSET ChapterRows, NEW d \in CarriedRead(t, rows)
  PROVE  \E c \in rows : d.manga = c.manga /\ d.id = c.id /\ (Progress(c) => Progress(d))
BY CarriedIs DEF Progress

\* The rows of the entry once the target's chapters are inserted.
Merged(t) == ChaptersOf(job[t].row) \cup Inserted(job[t].row, job[t].want \ IdsOf(job[t].row), FALSE)

LEMMA MergedRows ==
  ASSUME TypeInv, NEW t \in Threads, job[t].row \in Rows
  PROVE  /\ Merged(t) \in SUBSET ChapterRows
         /\ \A c \in Merged(t) : c.manga = job[t].row
         /\ \A c, d \in Merged(t) : c.id = d.id => c = d
<1> DEFINE r == job[t].row
           ids == job[t].want \ IdsOf(r)
<1>1. ids \in SUBSET Ids
  BY DEF TypeInv, ThreadsTyped, JobRecords
<1>2. /\ Inserted(r, ids, FALSE) \subseteq ChapterRows
      /\ \A c \in Inserted(r, ids, FALSE) : c.manga = r /\ c.id \in ids
      /\ \A c, d \in Inserted(r, ids, FALSE) : c.id = d.id => c = d
  <2> HIDE DEF r, ids
  <2>1. r \in Rows
    BY DEF r
  <2> QED BY <1>1, <2>1, InsertedNotStray
<1>3. /\ ChaptersOf(r) \subseteq ChapterRows
      /\ \A c \in ChaptersOf(r) : c.manga = r /\ c.id \in IdsOf(r)
      /\ \A c, d \in ChaptersOf(r) : c.id = d.id => c = d
  BY DEF ChaptersOf, IdsOf, TypeInv, TypeOK
<1>4. Merged(t) = ChaptersOf(r) \cup Inserted(r, ids, FALSE)
  BY DEF Merged
<1>5. \A i \in ids : i \notin IdsOf(r)
  OBVIOUS
<1> HIDE DEF r, ids
<1>6. \A c, d \in Merged(t) : c.id = d.id => c = d
  BY <1>2, <1>3, <1>4, <1>5
<1>7. Merged(t) \in SUBSET ChapterRows /\ \A c \in Merged(t) : c.manga = r
  BY <1>2, <1>3, <1>4
<1> QED BY <1>6, <1>7 DEF r

\* What a migration that is not refused does.
LEMMA CommitWrites ==
  ASSUME TypeInv, NEW t \in Threads, Commit(t), ~UNCHANGED tables
  PROVE  /\ RowOf(job[t].src) = 0 /\ Present(job[t].row) /\ job[t].row \in Rows
         /\ mangas' = [mangas EXCEPT ![job[t].row].src = job[t].src]
         /\ chapters' = (chapters \ ChaptersOf(job[t].row))
                          \cup {c \in CarriedRead(t, Merged(t)) : c.id \in job[t].want}
         /\ fts' = (fts \ DocumentsOf(job[t].row, fts)) \cup DocumentsOf(job[t].row, Documents(mangas'))
         /\ UNCHANGED lastRow
         /\ CarriedRead(t, Merged(t)) \subseteq ChapterRows
         /\ \A d \in CarriedRead(t, Merged(t)) : d.manga = job[t].row
         /\ \A d, e \in CarriedRead(t, Merged(t)) : d.id = e.id => d = e
<1>1. /\ RowOf(job[t].src) = 0 /\ Present(job[t].row)
      /\ mangas' = [mangas EXCEPT ![job[t].row].src = job[t].src]
      /\ chapters' = (chapters \ ChaptersOf(job[t].row))
                       \cup {c \in CarriedRead(t, Merged(t)) : c.id \in job[t].want}
      /\ fts' = (fts \ DocumentsOf(job[t].row, fts)) \cup DocumentsOf(job[t].row, Documents(mangas'))
      /\ UNCHANGED lastRow
  BY DEF Commit, Merged
<1>2. job[t].row \in Rows
  BY <1>1 DEF Present
<1>3. /\ Merged(t) \in SUBSET ChapterRows
      /\ \A c \in Merged(t) : c.manga = job[t].row
      /\ \A c, d \in Merged(t) : c.id = d.id => c = d
  BY <1>2, MergedRows
<1>4. CarriedRead(t, Merged(t)) \subseteq ChapterRows
  BY <1>3, CarriedRows
<1>5. ASSUME NEW d \in CarriedRead(t, Merged(t)) PROVE \E c \in Merged(t) : d.manga = c.manga
  BY <1>3, CarriedFrom
<1>6. \A d, e \in CarriedRead(t, Merged(t)) : d.id = e.id => d = e
  BY <1>3, CarriedRows
<1>7. \A d \in CarriedRead(t, Merged(t)) : d.manga = job[t].row
  BY <1>3, <1>5
<1> QED BY <1>1, <1>2, <1>4, <1>6, <1>7

LEMMA CommitTyped ==
  ASSUME TypeInv, NEW t \in Threads, ReadSourceIDs(t) \/ Commit(t)
  PROVE  TypeInv'
<1>0. ThreadsTyped /\ job[t] \in JobRecords
  BY DEF TypeInv, ThreadsTyped
<1>1. CASE ReadSourceIDs(t)
  <2> DEFINE gathered == {c.id : c \in {d \in ChaptersOf(job[t].row) : Progress(d)}}
  <2>1. gathered \subseteq Ids
    BY DEF ChaptersOf, TypeInv, TypeOK, ChapterRows
  <2>2. [job[t] EXCEPT !.left = gathered] \in JobRecords
    BY <1>0, <2>1 DEF JobRecords
  <2>3. pc' = [pc EXCEPT ![t] = "commit"] /\ job' = [job EXCEPT ![t].left = gathered]
    BY <1>1 DEF ReadSourceIDs, Goto
  <2>4. ThreadsTyped'
    <3> HIDE DEF gathered
    <3>1. [job[t] EXCEPT !.left = gathered].src \in Sources
      BY <1>0, <1>1 DEF ThreadsTyped, ReadSourceIDs, JobRecords
    <3>2. job' = [job EXCEPT ![t] = [job[t] EXCEPT !.left = gathered]]
      BY <2>3
    <3> QED BY <1>0, <2>2, <2>3, <3>1, <3>2, RelabelTyped DEF Places
  <2> QED BY <1>1, <2>4, RowsKept DEF ReadSourceIDs, TypeInv, TypeOK, tables, history
<1>2. CASE Commit(t)
  <2> DEFINE r == job[t].row
             carried == CarriedRead(t, Merged(t))
  <2>1. ThreadsTyped'
    BY <1>0, <1>2, FinishTyped DEF Commit, Leave
  <2>2. UNCHANGED <<booting, behind>>
    BY <1>2 DEF Commit, Leave
  <2>3. CASE UNCHANGED tables
    BY <2>1, <2>2, <2>3, RowsKept DEF tables, TypeInv, TypeOK
  <2>4. CASE ~UNCHANGED tables
    <3>1. /\ RowOf(job[t].src) = 0 /\ Present(r)
          /\ mangas' = [mangas EXCEPT ![r].src = job[t].src]
          /\ chapters' = (chapters \ ChaptersOf(r)) \cup {c \in carried : c.id \in job[t].want}
          /\ fts' = (fts \ DocumentsOf(r, fts)) \cup DocumentsOf(r, Documents(mangas'))
          /\ UNCHANGED lastRow
      BY <1>2, <2>4, CommitWrites
    <3>2. r \in Rows /\ job[t].src \in Sources \cup {Nothing}
      BY <1>0, <3>1 DEF Present, JobRecords
    <3>3. \A c \in chapters : Present(c.manga) /\ c \in ChapterRows
      BY DEF TypeInv, TypeOK
    <3>4. carried \subseteq ChapterRows /\ \A d \in carried : d.manga = r
      BY <1>2, <2>4, CommitWrites
    <3>5. \A d, e \in carried : d.id = e.id => d = e
      BY <1>2, <2>4, CommitWrites
    <3> HIDE DEF carried
    <3>6. chapters' \subseteq ChapterRows
      BY <3>1, <3>3, <3>4
    <3>7. \A c, d \in chapters' : c.manga = d.manga /\ c.id = d.id => c = d
      <4>1. \A c, d \in chapters : c.manga = d.manga /\ c.id = d.id => c = d
        BY DEF TypeInv, TypeOK
      <4> QED BY <3>1, <3>4, <3>5, <4>1 DEF ChaptersOf
    <3>8. job[t].src \in Sources
      BY <1>0, <1>2 DEF ThreadsTyped, Commit, Leave
    <3>9. mangas' \in [Rows -> [src : Sources \cup {Nothing}, lib : BOOLEAN]]
      BY <3>1, <3>2 DEF TypeInv, TypeOK
    <3>10. /\ \A q \in Rows : mangas[q].src # job[t].src
           /\ \A q, v \in Rows : Present(q) /\ mangas[q].src = mangas[v].src => q = v
      BY <3>1, RowOfFinds DEF TypeInv, TypeOK
    <3>11. \A q, v \in Rows : Present(q)' /\ mangas'[q].src = mangas'[v].src => q = v
      BY <3>1, <3>2, <3>10 DEF Present, TypeInv, TypeOK
    <3>12. \A q \in Rows : Present(q) => Present(q)'
      BY <3>1, <3>2, <3>8, LibraryAssumption DEF Present, TypeInv, TypeOK
    <3>13. \A c \in chapters' : Present(c.manga)'
      BY <3>1, <3>2, <3>3, <3>4, <3>12 DEF ChapterRows
    <3>14. fts' \subseteq Rows \X Sources
      BY <3>1, DocumentsTyped DEF TypeInv, TypeOK
    <3>15. Fresh'
      <4>1. ~(r > lastRow)
        BY <3>1, <3>2 DEF Fresh, TypeInv, Present, NoRow
      <4>2. \A q \in Rows : q # r => mangas'[q] = mangas[q]
        BY <3>1 DEF TypeInv, TypeOK
      <4> QED BY <3>1, <4>1, <4>2 DEF Fresh, TypeInv, Present
    <3> HIDE DEF r
    <3> QED
      BY <2>1, <2>2, <3>1, <3>6, <3>7, <3>9, <3>11, <3>13, <3>14, <3>15 DEF TypeInv, TypeOK
  <2> QED BY <2>3, <2>4
<1> QED BY <1>1, <1>2

\* A click changes how far a chapter has been read, and nothing else of it.
LEMMA TouchedRows ==
  ASSUME NEW c \in ChapterRows, NEW o \in Clicks, NEW d \in Touched(o, c)
  PROVE  d \in ChapterRows /\ d.manga = c.manga /\ d.id = c.id /\ d.stray = c.stray
<1>1. \A new \in {"none", "opened", "read"} :
        LET e == [c EXCEPT !.reading = new]
        IN  e \in ChapterRows /\ e.manga = c.manga /\ e.id = c.id /\ e.stray = c.stray
  BY DEF ChapterRows
<1>2. \A new \in Toggled[c.reading] : new \in {"none", "opened", "read"}
  BY DEF Toggled, ChapterRows
<1>3. CASE o = "progress"
  BY <1>1, <1>3 DEF Touched
<1>4. CASE o = "toggleRead"
  BY <1>1, <1>2, <1>4 DEF Touched
<1>5. CASE o = "reset"
  BY <1>1, <1>5 DEF Touched
<1> QED BY <1>3, <1>4, <1>5 DEF Clicks

LEMMA ReaderTyped ==
  ASSUME TypeInv, NEW t \in Threads, ToggleLibrary(t) \/ Unindex(t) \/ Touch(t)
  PROVE  TypeInv'
<1>0. ThreadsTyped /\ job[t] \in JobRecords
  BY DEF TypeInv, ThreadsTyped
<1>1. CASE ToggleLibrary(t)
  <2> DEFINE r == job[t].row
             flipped == Present(r) /\ ~mangas[r].lib
  <2>1. ThreadsTyped'
    BY <1>0, <1>1, StepTyped DEF ToggleLibrary, Places
  <2>2. /\ mangas' = [mangas EXCEPT ![r].lib = flipped]
        /\ UNCHANGED <<lastRow, chapters, fts, booting, behind>>
    BY <1>1 DEF ToggleLibrary, Step
  <2>3. flipped \in BOOLEAN
    BY DEF TypeInv, TypeOK
  <2>4. flipped => Present(r)
    OBVIOUS
  <2> HIDE DEF flipped
  <2>5. mangas' \in [Rows -> [src : Sources \cup {Nothing}, lib : BOOLEAN]]
    BY <2>2, <2>3 DEF TypeInv, TypeOK
  <2>6. \A q \in Rows : mangas'[q].src = mangas[q].src
    BY <2>2 DEF TypeInv, TypeOK
  <2>7. Fresh'
    <3> SUFFICES ASSUME NEW q \in Rows, q > lastRow PROVE ~Present(q)' /\ ~mangas'[q].lib
      BY <2>2 DEF Fresh
    <3>1. ~Present(q) /\ ~mangas[q].lib
      BY DEF TypeInv, Fresh
    <3>2. ~mangas'[q].lib
      <4>1. CASE q = r
        <5>1. mangas'[q].lib = flipped
          BY <2>2, <4>1 DEF TypeInv, TypeOK
        <5>2. ~flipped
          BY <2>4, <3>1, <4>1
        <5> QED BY <5>1, <5>2
      <4>2. CASE q # r
        BY <2>2, <3>1, <4>2 DEF TypeInv, TypeOK
      <4> QED BY <4>1, <4>2
    <3> QED BY <2>6, <3>1, <3>2 DEF Present
  <2> QED BY <2>1, <2>2, <2>5, <2>6, <2>7 DEF TypeInv, TypeOK, Present, ChapterRows
<1>2. CASE Unindex(t)
  <2>1. ThreadsTyped'
    BY <1>0, <1>2, StepTyped DEF Unindex, Places
  <2> QED BY <1>2, <2>1, RowsKept DEF Unindex, Step, TypeInv, TypeOK, history
<1>3. CASE Touch(t)
  <2>1. ThreadsTyped'
    BY <1>0, <1>3, FinishTyped DEF Touch, Leave
  <2>2. UNCHANGED <<mangas, lastRow, fts, booting, behind>>
    BY <1>3 DEF Touch, Leave
  <2>3. CASE UNCHANGED chapters
    BY <2>1, <2>2, <2>3, RowsKept DEF TypeInv, TypeOK
  <2>4. CASE ~UNCHANGED chapters
    <3>1. PICK c \in chapters : \E d \in Touched(job[t].op, c) : chapters' = (chapters \ {c}) \cup {d}
      BY <1>3, <2>4 DEF Touch
    <3>2. PICK d \in Touched(job[t].op, c) : chapters' = (chapters \ {c}) \cup {d}
      BY <3>1
    <3>3. c \in ChapterRows
      BY DEF TypeInv, TypeOK
    <3>4. d \in ChapterRows /\ d.manga = c.manga /\ d.id = c.id
      BY <1>0, <1>3, <3>2, <3>3, TouchedRows DEF ThreadsTyped, Touch, Leave
    <3>5. chapters' \subseteq ChapterRows
      BY <3>2, <3>4 DEF TypeInv, TypeOK
    <3> QED BY <2>1, <2>2, <3>2, <3>4, <3>5, SameKeys, ChaptersMayChange
  <2> QED BY <2>3, <2>4
<1> QED BY <1>1, <1>2, <1>3

LEMMA MaintainTyped ==
  ASSUME TypeInv, NEW t \in Threads,
         Purge(t) \/ Drop(t) \/ Sweep(t) \/ Check(t) \/ Wipe(t) \/ Rebuild(t)
  PROVE  TypeInv'
<1>0. ThreadsTyped
  BY DEF TypeInv
<1>1. CASE Purge(t)
  <2>1. ThreadsTyped'
    BY <1>0, <1>1, StepTyped DEF Purge, Places
  <2>2. chapters' \subseteq chapters
    BY <1>1 DEF Purge
  <2> QED BY <1>1, <2>1, <2>2, ChaptersMayChange DEF Purge, Step, TypeInv, TypeOK, history
<1>2. CASE Drop(t)
  <2>1. ThreadsTyped'
    BY <1>0, <1>2, StepTyped DEF Drop, Places
  <2>2. /\ mangas' = [r \in Rows |-> IF ~mangas[r].lib /\ ChaptersOf(r) = {} THEN NoRow ELSE mangas[r]]
        /\ UNCHANGED <<lastRow, chapters, fts, booting, behind>>
    BY <1>2 DEF Drop, Step, history
  <2>3. \A r \in Rows : mangas'[r] \in {NoRow, mangas[r]}
    BY <2>2
  <2>4. mangas' \in [Rows -> [src : Sources \cup {Nothing}, lib : BOOLEAN]]
    BY <2>2 DEF NoRow, TypeInv, TypeOK
  <2>5. \A r \in Rows : ChaptersOf(r) # {} => mangas'[r] = mangas[r]
    BY <2>2
  <2>6. \A c \in chapters : Present(c.manga)'
    BY <2>5 DEF ChaptersOf, Present, TypeInv, TypeOK
  <2>7. \A r, q \in Rows : Present(r)' /\ mangas'[r].src = mangas'[q].src => r = q
    BY <2>3 DEF Present, NoRow, TypeInv, TypeOK
  <2>8. Fresh'
    BY <2>2, <2>3 DEF Fresh, TypeInv, Present, NoRow
  <2> QED BY <2>1, <2>2, <2>4, <2>6, <2>7, <2>8 DEF TypeInv, TypeOK, ChapterRows
<1>3. CASE Sweep(t)
  <2>1. ThreadsTyped'
    BY <1>0, <1>3, StepTyped DEF Sweep, Places
  <2> QED BY <1>3, <2>1, RowsKept DEF Sweep, Step, TypeInv, TypeOK, history
<1>4. CASE Check(t)
  <2>1. ThreadsTyped'
    <3>1. CASE PassEnd(t)
      BY <1>0, <3>1, FinishTyped DEF PassEnd
    <3>2. CASE Goto(t, "wipe") /\ UNCHANGED job
      BY <1>0, <3>2 DEF Goto, ThreadsTyped, Places
    <3> QED BY <1>4, <3>1, <3>2 DEF Check
  <2> QED BY <1>4, <2>1, RowsKept DEF Check, PassEnd, tables, TypeInv, TypeOK
<1>5. CASE Wipe(t)
  <2>1. ThreadsTyped'
    BY <1>0, <1>5, StepTyped DEF Wipe, Places
  <2> QED BY <1>5, <2>1, RowsKept DEF Wipe, Step, TypeInv, TypeOK, history
<1>6. CASE Rebuild(t)
  <2>1. ThreadsTyped'
    BY <1>0, <1>6, FinishTyped DEF Rebuild, PassEnd
  <2>2. Documents(mangas) \subseteq Rows \X Sources
    BY DEF Documents
  <2>3. fts' \subseteq Rows \X Sources /\ behind' \in BOOLEAN /\ booting' \in BOOLEAN
    BY <1>6, <2>2 DEF Rebuild, PassEnd, TypeInv, TypeOK
  <2> QED BY <1>6, <2>1, <2>3, RowsKept DEF Rebuild
<1> QED BY <1>1, <1>2, <1>3, <1>4, <1>5, <1>6

LEMMA FaultTyped ==
  ASSUME TypeInv, (\E t \in Threads : Fails(t)) \/ Crash
  PROVE  TypeInv'
<1>0. ThreadsTyped
  BY DEF TypeInv
<1>1. ASSUME NEW t \in Threads, Fails(t) PROVE TypeInv'
  <2>1. ThreadsTyped' /\ booting' \in BOOLEAN
    <3>1. CASE \E k, l \in {"purge", "drop", "sweep", "check"} : Step(t, k, l)
      BY <1>0, <3>1, StepTyped DEF Step, Places, TypeInv, TypeOK
    <3>2. CASE Finish(t) /\ (booting' = FALSE \/ UNCHANGED booting)
      BY <1>0, <3>2, FinishTyped DEF TypeInv, TypeOK
    <3> QED BY <1>1, <3>1, <3>2 DEF Fails, PassEnd
  <2>2. behind' \in BOOLEAN
    BY <1>1 DEF Fails, TypeInv, TypeOK
  <2> QED BY <1>1, <2>1, <2>2, RowsKept DEF Fails, tables, TypeInv, TypeOK
<1>2. CASE Crash
  <2>1. ThreadsTyped'
    BY <1>2, NoJobTyped DEF Crash, ThreadsTyped, Places
  <2>2. behind' \in BOOLEAN /\ booting' \in BOOLEAN
    BY <1>2 DEF Crash, TypeInv, TypeOK
  <2> QED BY <1>2, <2>1, <2>2, RowsKept DEF Crash, tables, TypeInv, TypeOK
<1> QED BY <1>1, <1>2

LEMMA StepsTyped == TypeInv /\ [Next]_vars => TypeInv'
<1> SUFFICES ASSUME TypeInv, [Next]_vars PROVE TypeInv'
  OBVIOUS
<1>1. CASE UNCHANGED vars
  BY <1>1 DEF vars, tables, history, TypeInv, TypeOK, ThreadsTyped, Fresh, Present, ChapterRows
<1>2. CASE Next
  <2>1. ASSUME NEW t \in Threads, Sync(t) \/ Refetch(t) \/ Migrate(t) PROVE TypeInv'
    BY <2>1, BeginTyped, SyncTyped, CommitTyped DEF Sync, Migrate
  <2>2. ASSUME NEW t \in Threads, Reader(t) \/ Maintain(t) PROVE TypeInv'
    BY <2>2, BeginTyped, ReaderTyped, MaintainTyped DEF Reader, Maintain
  <2> QED BY <1>2, <2>1, <2>2, FaultTyped DEF Next
<1> QED BY <1>1, <1>2

LEMMA Typed == Spec => []TypeInv
BY InitTyped, StepsTyped, PTL DEF Spec

\* However syncs, migrations, refetches, clicks, maintenance passes, failures and
\* crashes cross, the tables keep their types and keys: a source has one row, a
\* chapter of an entry one row, and no chapter outlives its entry (schema.go).
THEOREM TablesConsistent == Spec => []TypeOK
<1>1. TypeInv => TypeOK
  BY DEF TypeInv
<1> QED BY Typed, <1>1, PTL

-----------------------------------------------------------------------------
(* Membership of the library *)

LEMMA InitMembership == Init => LibraryIsTheReaders
<1> SUFFICES ASSUME Init PROVE LibraryIsTheReaders
  OBVIOUS
<1>1. PICK s \in Sources :
        mangas = [r \in Rows |-> IF r = 1 THEN [NoRow EXCEPT !.src = s, !.lib = TRUE] ELSE NoRow]
  BY DEF Init
<1>2. 1 \in Rows
  BY LibraryAssumption, RowsAre
<1>3. \A r \in Rows : mangas[r].lib <=> r = 1
  BY <1>1 DEF NoRow
<1> QED BY <1>2, <1>3 DEF Init, LibraryIsTheReaders

\* The steps that write neither the mangas table nor the histories of it.
LEMMA MembershipKept ==
  ASSUME LibraryIsTheReaders, UNCHANGED <<mangas, chosen, revived>>
  PROVE  LibraryIsTheReaders'
BY DEF LibraryIsTheReaders

LEMMA UpsertMembership ==
  ASSUME TypeInv, LibraryIsTheReaders, NEW t \in Threads, Upsert(t)
  PROVE  LibraryIsTheReaders'
<1>1. CASE RowOf(job[t].src) # 0
  BY <1>1, MembershipKept DEF Upsert
<1>2. CASE RowOf(job[t].src) = 0
  <2>1. /\ lastRow' = lastRow + 1 /\ lastRow < MaxRow
        /\ mangas' = [mangas EXCEPT ![lastRow'] = [src |-> job[t].src, lib |-> job[t].lib]]
        /\ revived' = IF job[t].lib THEN revived \cup {lastRow'} ELSE revived
        /\ UNCHANGED chosen
    BY <1>2 DEF Upsert
  <2>2. lastRow' \in Rows /\ ~mangas[lastRow'].lib
    BY <2>1, RowsAre, LibraryAssumption DEF TypeInv, TypeOK, Fresh
  <2>3. \A r \in Rows : mangas'[r].lib <=> (mangas[r].lib \/ (r = lastRow' /\ job[t].lib))
    BY <2>1, <2>2 DEF TypeInv, TypeOK
  <2>4. CASE job[t].lib
    <3>1. \A r \in Rows : mangas'[r].lib <=> (mangas[r].lib \/ r = lastRow')
      BY <2>3, <2>4
    <3> QED BY <2>1, <2>2, <2>4, <3>1 DEF LibraryIsTheReaders
  <2>5. CASE ~job[t].lib
    <3>1. \A r \in Rows : mangas'[r].lib <=> mangas[r].lib
      BY <2>3, <2>5
    <3> QED BY <2>1, <2>5, <3>1 DEF LibraryIsTheReaders
  <2> QED BY <2>4, <2>5
<1> QED BY <1>1, <1>2

LEMMA ToggleMembership ==
  ASSUME TypeInv, LibraryIsTheReaders, NEW t \in Threads, ToggleLibrary(t)
  PROVE  LibraryIsTheReaders'
<1> DEFINE r == job[t].row
<1>1. r \in Rows
  BY DEF ToggleLibrary, Step, TypeInv, ThreadsTyped
<1>2. \A q \in Rows : q # r => mangas'[q] = mangas[q]
  BY DEF ToggleLibrary, TypeInv, TypeOK
<1>3. \A q \in Rows : q # r => (mangas'[q].lib <=> q \in chosen \cup revived)
  BY <1>2 DEF LibraryIsTheReaders
<1>4. IF mangas'[r].lib THEN chosen' = chosen \cup {r} /\ revived' = revived
      ELSE chosen' = chosen \ {r} /\ revived' = revived \ {r}
  BY DEF ToggleLibrary
<1>5. chosen \cup revived \subseteq Rows
  BY DEF LibraryIsTheReaders
<1> HIDE DEF r
<1>6. \A q \in Rows : mangas'[q].lib <=> q \in chosen' \cup revived'
  BY <1>3, <1>4
<1>7. chosen' \cup revived' \subseteq Rows
  BY <1>1, <1>4, <1>5
<1> QED BY <1>6, <1>7 DEF LibraryIsTheReaders

LEMMA StepsMembership == TypeInv /\ LibraryIsTheReaders /\ [Next]_vars => LibraryIsTheReaders'
<1> SUFFICES ASSUME TypeInv, LibraryIsTheReaders, [Next]_vars PROVE LibraryIsTheReaders'
  OBVIOUS
<1>1. CASE UNCHANGED vars
  BY <1>1, MembershipKept DEF vars, tables, history
<1>2. ASSUME NEW t \in Threads, Sync(t) \/ Refetch(t) PROVE LibraryIsTheReaders'
  <2>1. CASE SyncBegin(t) \/ DetailsBegin(t) \/ Refetch(t)
    BY <2>1, MembershipKept DEF SyncBegin, DetailsBegin, Refetch, Start, tables, history
  <2>2. CASE Upsert(t)
    BY <2>2, UpsertMembership
  <2>3. CASE SelectId(t) \/ Index(t) \/ Member(t) \/ UpsertChapter(t)
    BY <2>3, MembershipKept DEF SelectId, Index, Member, UpsertChapter, tables, history
  <2>4. CASE PruneSelect(t) \/ PruneDelete(t)
    BY <2>4, MembershipKept DEF PruneSelect, PruneDelete, tables, history
  <2> QED BY <1>2, <2>1, <2>2, <2>3, <2>4 DEF Sync
<1>3. ASSUME NEW t \in Threads, Migrate(t) PROVE LibraryIsTheReaders'
  <2>1. CASE MigrateBegin(t) \/ ReadSourceIDs(t)
    BY <2>1, MembershipKept DEF MigrateBegin, ReadSourceIDs, Start, tables, history
  <2>2. CASE Commit(t)
    <3>1. UNCHANGED mangas \/ mangas' = [mangas EXCEPT ![job[t].row].src = job[t].src]
      BY <2>2 DEF Commit, tables
    <3>2. \A r \in Rows : mangas'[r].lib = mangas[r].lib
      BY <3>1 DEF TypeInv, TypeOK
    <3>3. UNCHANGED <<chosen, revived>>
      BY <2>2 DEF Commit
    <3> QED BY <3>2, <3>3 DEF LibraryIsTheReaders
  <2> QED BY <1>3, <2>1, <2>2 DEF Migrate
<1>4. ASSUME NEW t \in Threads, Reader(t) PROVE LibraryIsTheReaders'
  <2>1. CASE ToggleBegin(t) \/ ReadBegin(t)
    BY <2>1, MembershipKept DEF ToggleBegin, ReadBegin, Start, tables, history
  <2>2. CASE ToggleLibrary(t)
    BY <2>2, ToggleMembership
  <2>3. CASE Unindex(t) \/ Touch(t)
    BY <2>3, MembershipKept DEF Unindex, Touch, history
  <2> QED BY <1>4, <2>1, <2>2, <2>3 DEF Reader
<1>5. ASSUME NEW t \in Threads, Maintain(t) PROVE LibraryIsTheReaders'
  <2>1. CASE Drop(t)
    <3>1. \A r \in Rows : mangas'[r].lib <=> mangas[r].lib
      BY <2>1 DEF Drop, NoRow
    <3>2. UNCHANGED <<chosen, revived>>
      BY <2>1 DEF Drop, history
    <3> QED BY <3>1, <3>2 DEF LibraryIsTheReaders
  <2>2. CASE PassBegin(t) \/ Purge(t) \/ Sweep(t)
    BY <2>2, MembershipKept DEF PassBegin, Purge, Sweep, Start, tables, history
  <2>3. CASE Check(t) \/ Wipe(t) \/ Rebuild(t)
    BY <2>3, MembershipKept DEF Check, Wipe, Rebuild, tables, history
  <2> QED BY <1>5, <2>1, <2>2, <2>3 DEF Maintain
<1>6. ASSUME NEW t \in Threads, Fails(t) PROVE LibraryIsTheReaders'
  BY <1>6, MembershipKept DEF Fails, tables
<1>7. CASE Crash
  BY <1>7, MembershipKept DEF Crash, tables
<1> QED BY <1>1, <1>2, <1>3, <1>4, <1>5, <1>6, <1>7 DEF Next

\* The library is what the reader has put there: whatever syncs, migrations,
\* prunes, failures and crashes run beside the clicks, none adds an entry or
\* loses one, except the cover refetch that writes its copy back (progress.go).
THEOREM MembershipIsTheReaders == Spec => []LibraryIsTheReaders
BY InitMembership, Typed, StepsMembership, PTL DEF Spec

-----------------------------------------------------------------------------
(* The chapter lists *)

\* What a thread goes to insert, the plugin of its source has listed.
Offers ==
  \A t \in Threads :
    /\ \A i \in job[t].want : job[t].src \in Sources /\ i \in UNION Lists[job[t].src]
    /\ pc[t] = "chapters" => job[t].left \subseteq job[t].want

LEMMA OffersStart ==
  ASSUME TypeInv, Offers, NEW t \in Threads, NEW l, NEW j \in JobRecords, Start(t, l, j), l # "chapters",
         \A i \in j.want : j.src \in Sources /\ i \in UNION Lists[j.src]
  PROVE  Offers'
BY DEF Start, Goto, Offers, TypeInv, ThreadsTyped

LEMMA OffersFinish ==
  ASSUME TypeInv, Offers, NEW t \in Threads, Finish(t)
  PROVE  Offers'
BY DEF Finish, Goto, NoJob, Offers, TypeInv, ThreadsTyped

LEMMA OffersRelabel ==
  ASSUME TypeInv, Offers, NEW t \in Threads, NEW j \in JobRecords, j.src = job[t].src, j.want = job[t].want,
         NEW l, pc' = [pc EXCEPT ![t] = l], job' = [job EXCEPT ![t] = j],
         l = "chapters" => j.left \subseteq j.want
  PROVE  Offers'
BY DEF Offers, TypeInv, ThreadsTyped

LEMMA OffersStep ==
  ASSUME TypeInv, Offers, NEW t \in Threads, NEW k, NEW l, l # "chapters", Step(t, k, l)
  PROVE  Offers'
BY DEF Step, Goto, Offers, TypeInv, ThreadsTyped

LEMMA BeginOffers ==
  ASSUME TypeInv, Offers, NEW t \in Threads,
         SyncBegin(t) \/ DetailsBegin(t) \/ Refetch(t) \/ MigrateBegin(t) \/ ToggleBegin(t)
           \/ ReadBegin(t) \/ PassBegin(t)
  PROVE  Offers'
<1> USE DEF NoJob, JobRecords, Operations
<1>1. CASE SyncBegin(t) \/ DetailsBegin(t)
  <2>1. PICK s \in Sources : \E l \in Lists[s] \cup {{}} :
          Start(t, "upsert", [NoJob EXCEPT !.op = "sync", !.src = s, !.want = l])
    BY <1>1 DEF SyncBegin, DetailsBegin
  <2>2. PICK l \in Lists[s] \cup {{}} :
          Start(t, "upsert", [NoJob EXCEPT !.op = "sync", !.src = s, !.want = l])
    BY <2>1
  <2>3. l \subseteq UNION Lists[s] /\ l \subseteq Ids
    BY OfferedIds
  <2>4. [NoJob EXCEPT !.op = "sync", !.src = s, !.want = l] \in JobRecords
    BY <2>3
  <2> QED BY <2>2, <2>3, <2>4, OffersStart
<1>2. CASE MigrateBegin(t)
  <2>1. PICK s \in Sources : \E u \in Sources \ {s} : \E l \in Lists[u] :
          Start(t, "collect", [NoJob EXCEPT !.op = "migrate", !.row = RowOf(s), !.src = u, !.want = l])
    BY <1>2 DEF MigrateBegin
  <2>2. PICK u \in Sources : \E l \in Lists[u] :
          Start(t, "collect", [NoJob EXCEPT !.op = "migrate", !.row = RowOf(s), !.src = u, !.want = l])
    BY <2>1
  <2>3. PICK l \in Lists[u] :
          Start(t, "collect", [NoJob EXCEPT !.op = "migrate", !.row = RowOf(s), !.src = u, !.want = l])
    BY <2>2
  <2>4. l \subseteq UNION Lists[u] /\ l \subseteq Ids /\ RowOf(s) \in Rows \cup {0}
    BY OfferedIds, RowOfFinds
  <2>5. [NoJob EXCEPT !.op = "migrate", !.row = RowOf(s), !.src = u, !.want = l] \in JobRecords
    BY <2>4
  <2> QED BY <2>3, <2>4, <2>5, OffersStart
<1>3. CASE Refetch(t)
  <2>1. PICK s \in Sources :
          Start(t, "upsert", [NoJob EXCEPT !.op = "refetch", !.src = s, !.lib = InLibrary(RowOf(s))])
    BY <1>3 DEF Refetch
  <2>2. InLibrary(RowOf(s)) \in BOOLEAN
    BY DEF InLibrary, TypeInv, TypeOK
  <2>3. [NoJob EXCEPT !.op = "refetch", !.src = s, !.lib = InLibrary(RowOf(s))] \in JobRecords
    BY <2>2
  <2> QED BY <2>1, <2>3, OffersStart
<1>4. CASE ToggleBegin(t)
  <2>1. PICK s \in Sources : Start(t, "flip", [NoJob EXCEPT !.op = "toggle", !.row = RowOf(s)])
    BY <1>4 DEF ToggleBegin
  <2>2. [NoJob EXCEPT !.op = "toggle", !.row = RowOf(s)] \in JobRecords
    BY RowOfFinds
  <2> QED BY <2>1, <2>2, OffersStart
<1>5. CASE ReadBegin(t)
  <2>1. PICK o \in {"progress", "toggleRead", "reset"} : \E c \in chapters :
          Start(t, "touch", [NoJob EXCEPT !.op = o, !.hit = {c}])
    BY <1>5 DEF ReadBegin
  <2>2. PICK c \in chapters : Start(t, "touch", [NoJob EXCEPT !.op = o, !.hit = {c}])
    BY <2>1
  <2>3. [NoJob EXCEPT !.op = o, !.hit = {c}] \in JobRecords
    BY DEF TypeInv, TypeOK
  <2> QED BY <2>2, <2>3, OffersStart
<1>6. CASE PassBegin(t)
  <2>1. PICK l \in {"purge", "check"} : Start(t, l, [NoJob EXCEPT !.op = "pass"])
    BY <1>6 DEF PassBegin
  <2> QED BY <2>1, OffersStart
<1> QED BY <1>1, <1>2, <1>3, <1>4, <1>5, <1>6

LEMMA StepsOffers == TypeInv /\ Offers /\ [Next]_vars => Offers'
<1> SUFFICES ASSUME TypeInv, Offers, [Next]_vars PROVE Offers'
  OBVIOUS
<1>0. \A t \in Threads : job[t] \in JobRecords
  BY DEF TypeInv, ThreadsTyped
<1>1. CASE UNCHANGED vars
  BY <1>1 DEF vars, Offers
<1>2. ASSUME NEW t \in Threads, Sync(t) \/ Refetch(t) PROVE Offers'
  <2>1. CASE SyncBegin(t) \/ DetailsBegin(t) \/ Refetch(t)
    BY <2>1, BeginOffers
  <2>2. CASE Upsert(t)
    BY <2>2, OffersStep DEF Upsert
  <2>3. CASE SelectId(t)
    <3>1. CASE Finish(t)
      BY <3>1, OffersFinish
    <3>2. CASE Goto(t, "index") /\ job' = [job EXCEPT ![t].row = RowOf(job[t].src)]
      BY <3>2 DEF Goto, Offers, TypeInv, ThreadsTyped, JobRecords
    <3> QED BY <2>3, <3>1, <3>2 DEF SelectId
  <2>4. CASE Index(t)
    <3>1. CASE Goto(t, "member") /\ UNCHANGED job
      BY <3>1 DEF Goto, Offers, TypeInv, ThreadsTyped
    <3> QED BY <2>4, <3>1, OffersFinish DEF Index
  <2>5. CASE Member(t)
    <3>1. CASE Goto(t, "chapters") /\ job' = [job EXCEPT ![t].left = job[t].want]
      BY <3>1 DEF Goto, Offers, TypeInv, ThreadsTyped, JobRecords
    <3> QED BY <2>5, <3>1, OffersFinish DEF Member
  <2>6. CASE UpsertChapter(t)
    <3>1. CASE \E i \in job[t].left : UNCHANGED pc /\ job' = [job EXCEPT ![t].left = @ \ {i}]
      BY <3>1 DEF Offers, TypeInv, ThreadsTyped, JobRecords
    <3> QED BY <2>6, <3>1, OffersFinish DEF UpsertChapter
  <2>7. CASE PruneSelect(t)
    <3>1. CASE Goto(t, "prune") /\ job' = [job EXCEPT ![t].hit = Superseded(t)]
      BY <3>1 DEF Goto, Offers, TypeInv, ThreadsTyped, JobRecords
    <3> QED BY <2>7, <3>1, OffersFinish DEF PruneSelect
  <2>8. CASE PruneDelete(t)
    BY <2>8, OffersFinish DEF PruneDelete, Leave
  <2> QED BY <1>2, <2>1, <2>2, <2>3, <2>4, <2>5, <2>6, <2>7, <2>8 DEF Sync
<1>3. ASSUME NEW t \in Threads, Migrate(t) \/ Reader(t) PROVE Offers'
  <2>1. CASE MigrateBegin(t) \/ ToggleBegin(t) \/ ReadBegin(t)
    BY <2>1, BeginOffers
  <2>2. CASE ReadSourceIDs(t)
    <3> DEFINE gathered == {c.id : c \in {d \in ChaptersOf(job[t].row) : Progress(d)}}
    <3>1. Goto(t, "commit") /\ job' = [job EXCEPT ![t].left = gathered]
      BY <2>2 DEF ReadSourceIDs
    <3> HIDE DEF gathered
    <3> QED BY <3>1 DEF Goto, Offers, TypeInv, ThreadsTyped, JobRecords
  <2>3. CASE Commit(t) \/ Touch(t)
    BY <2>3, OffersFinish DEF Commit, Touch, Leave
  <2>4. CASE ToggleLibrary(t) \/ Unindex(t)
    BY <2>4, OffersStep DEF ToggleLibrary, Unindex
  <2> QED BY <1>3, <2>1, <2>2, <2>3, <2>4 DEF Migrate, Reader
<1>4. ASSUME NEW t \in Threads, Maintain(t) PROVE Offers'
  <2>1. CASE PassBegin(t)
    BY <2>1, BeginOffers
  <2>2. CASE Purge(t) \/ Drop(t) \/ Sweep(t) \/ Wipe(t)
    BY <2>2, OffersStep DEF Purge, Drop, Sweep, Wipe
  <2>3. CASE Check(t)
    <3>1. CASE Goto(t, "wipe") /\ UNCHANGED job
      BY <3>1 DEF Goto, Offers, TypeInv, ThreadsTyped
    <3> QED BY <2>3, <3>1, OffersFinish DEF Check, PassEnd
  <2>4. CASE Rebuild(t)
    BY <2>4, OffersFinish DEF Rebuild, PassEnd
  <2> QED BY <1>4, <2>1, <2>2, <2>3, <2>4 DEF Maintain
<1>5. ASSUME NEW t \in Threads, Fails(t) PROVE Offers'
  <2>1. CASE \E k, l \in {"purge", "drop", "sweep", "check"} : Step(t, k, l)
    BY <2>1, OffersStep
  <2> QED BY <1>5, <2>1, OffersFinish DEF Fails, PassEnd
<1>6. CASE Crash
  BY <1>6 DEF Crash, NoJob, Offers
<1> QED BY <1>1, <1>2, <1>3, <1>4, <1>5, <1>6 DEF Next

LEMMA InitOwn == Init => OwnChapters /\ Offers
<1> SUFFICES ASSUME Init PROVE OwnChapters /\ Offers
  OBVIOUS
<1>a. PICK s \in Sources : \E l \in Lists[s], read \in SUBSET Ids :
        /\ mangas = [r \in Rows |-> IF r = 1 THEN [NoRow EXCEPT !.src = s, !.lib = TRUE] ELSE NoRow]
        /\ chapters = {[c EXCEPT !.reading = IF c.id \in read THEN "read" ELSE @] : c \in Inserted(1, l, FALSE)}
  BY DEF Init
<1>1. PICK l \in Lists[s], read \in SUBSET Ids :
        /\ mangas = [r \in Rows |-> IF r = 1 THEN [NoRow EXCEPT !.src = s, !.lib = TRUE] ELSE NoRow]
        /\ chapters = {[c EXCEPT !.reading = IF c.id \in read THEN "read" ELSE @] : c \in Inserted(1, l, FALSE)}
  BY <1>a
<1>2. 1 \in Rows /\ l \in SUBSET Ids
  BY LibraryAssumption, RowsAre, OfferedIds
<1>3. mangas[1].src = s
  BY <1>1, <1>2 DEF NoRow
<1>4. \A c \in Inserted(1, l, FALSE) : c \in ChapterRows /\ c.manga = 1 /\ c.id \in l
  BY <1>2, InsertedNotStray
<1>5. \A c \in chapters : c.manga = 1 /\ c.id \in l
  <2> SUFFICES ASSUME NEW c \in Inserted(1, l, FALSE)
               PROVE  LET d == [c EXCEPT !.reading = IF c.id \in read THEN "read" ELSE @]
                      IN  d.manga = 1 /\ d.id \in l
    BY <1>1
  <2> QED BY <1>4 DEF ChapterRows
<1>6. OwnChapters
  BY <1>3, <1>5 DEF OwnChapters
<1>7. Offers
  BY DEF Init, Offers, NoJob
<1> QED BY <1>6, <1>7

\* Where no row changes its source, the chapters that stay are still its own.
LEMMA OwnKept ==
  ASSUME OwnChapters,
         \A d \in chapters' : \E c \in chapters : c.manga = d.manga /\ c.id = d.id /\ c.stray = d.stray,
         \A c \in chapters : mangas'[c.manga].src = mangas[c.manga].src
  PROVE  OwnChapters'
BY DEF OwnChapters

LEMMA TablesKept ==
  ASSUME OwnChapters, UNCHANGED <<mangas, chapters>>
  PROVE  OwnChapters'
BY DEF OwnChapters

LEMMA SyncOwn ==
  ASSUME TypeInv, Offers, OwnChapters, NEW t \in Threads, Sync(t) \/ Refetch(t)
  PROVE  OwnChapters'
<1>1. CASE SyncBegin(t) \/ DetailsBegin(t) \/ Refetch(t)
  BY <1>1, TablesKept DEF SyncBegin, DetailsBegin, Refetch, Start, tables
<1>2. CASE Upsert(t)
  <2>1. CASE RowOf(job[t].src) # 0
    BY <1>2, <2>1, TablesKept DEF Upsert
  <2>2. CASE RowOf(job[t].src) = 0
    <3>1. /\ lastRow' = lastRow + 1 /\ lastRow < MaxRow
          /\ mangas' = [mangas EXCEPT ![lastRow'] = [src |-> job[t].src, lib |-> job[t].lib]]
          /\ UNCHANGED chapters
      BY <1>2, <2>2 DEF Upsert
    <3>2. lastRow' \in Rows /\ ~Present(lastRow')
      BY <3>1, RowsAre, LibraryAssumption DEF TypeInv, TypeOK, Fresh
    <3>3. \A c \in chapters : c.manga # lastRow'
      BY <3>2 DEF TypeInv, TypeOK
    <3>4. \A c \in chapters : mangas'[c.manga].src = mangas[c.manga].src
      BY <3>1, <3>3 DEF TypeInv, TypeOK, ChapterRows
    <3> QED BY <3>1, <3>4, OwnKept
  <2> QED BY <2>1, <2>2
<1>3. CASE SelectId(t) \/ Index(t) \/ Member(t) \/ PruneSelect(t)
  BY <1>3, TablesKept DEF SelectId, Index, Member, PruneSelect, tables
<1>4. CASE UpsertChapter(t)
  <2>1. CASE UNCHANGED chapters
    BY <1>4, <2>1, TablesKept DEF UpsertChapter
  <2>2. CASE ~UNCHANGED chapters
    <3> DEFINE r == job[t].row
               moved == mangas[r].src # job[t].src
    <3>1. PICK i \in job[t].left : chapters' = chapters \cup Inserted(r, {i}, moved)
      BY <1>4, <2>2 DEF UpsertChapter
    <3>2. i \in UNION Lists[job[t].src]
      BY <1>4, <3>1 DEF UpsertChapter, Offers
    <3>3. moved \/ i \in UNION Lists[mangas[r].src]
      BY <3>2
    <3> HIDE DEF moved, r
    <3>4. \A c \in Inserted(r, {i}, moved) : c.manga = r /\ c.id = i /\ c.stray = moved
      BY DEF Inserted
    <3>5. \A c \in Inserted(r, {i}, moved) : c.stray \/ c.id \in UNION Lists[mangas[c.manga].src]
      BY <3>3, <3>4
    <3>6. UNCHANGED mangas
      BY <1>4 DEF UpsertChapter
    <3> QED BY <3>1, <3>5, <3>6 DEF OwnChapters
  <2> QED BY <2>1, <2>2
<1>5. CASE PruneDelete(t)
  BY <1>5, OwnKept DEF PruneDelete
<1> QED BY <1>1, <1>2, <1>3, <1>4, <1>5 DEF Sync

LEMMA MigrateOwn ==
  ASSUME TypeInv, Offers, OwnChapters, NEW t \in Threads, Migrate(t)
  PROVE  OwnChapters'
<1>1. CASE MigrateBegin(t) \/ ReadSourceIDs(t)
  BY <1>1, TablesKept DEF MigrateBegin, ReadSourceIDs, Start, tables
<1>2. CASE Commit(t)
  <2> DEFINE r == job[t].row
             carried == CarriedRead(t, Merged(t))
  <2>1. CASE UNCHANGED tables
    BY <2>1, TablesKept DEF tables
  <2>2. CASE ~UNCHANGED tables
    <3>1. /\ Present(r)
          /\ mangas' = [mangas EXCEPT ![r].src = job[t].src]
          /\ chapters' = (chapters \ ChaptersOf(r)) \cup {c \in carried : c.id \in job[t].want}
      BY <1>2, <2>2, CommitWrites
    <3>2. r \in Rows /\ mangas'[r].src = job[t].src
      BY <3>1 DEF Present, TypeInv, TypeOK
    <3>3. \A c \in carried : c.manga = r
      BY <1>2, <2>2, CommitWrites
    <3> HIDE DEF carried
    <3>4. \A c \in carried : c.id \in job[t].want => c.id \in UNION Lists[mangas'[c.manga].src]
      BY <3>2, <3>3 DEF Offers
    <3>5. \A c \in chapters \ ChaptersOf(r) : mangas'[c.manga].src = mangas[c.manga].src
      BY <3>1 DEF ChaptersOf, TypeInv, TypeOK, ChapterRows
    <3> HIDE DEF r
    <3> QED BY <3>1, <3>4, <3>5 DEF OwnChapters
  <2> QED BY <2>1, <2>2
<1> QED BY <1>1, <1>2 DEF Migrate

LEMMA ReaderOwn ==
  ASSUME TypeInv, OwnChapters, NEW t \in Threads, Reader(t)
  PROVE  OwnChapters'
<1>1. CASE ToggleBegin(t) \/ ReadBegin(t) \/ Unindex(t)
  BY <1>1, TablesKept DEF ToggleBegin, ReadBegin, Unindex, Start, tables
<1>2. CASE ToggleLibrary(t)
  <2>1. \A r \in Rows : mangas'[r].src = mangas[r].src
    BY <1>2 DEF ToggleLibrary, TypeInv, TypeOK
  <2>2. \A c \in chapters : c.manga \in Rows
    BY DEF TypeInv, TypeOK, ChapterRows
  <2> QED BY <1>2, <2>1, <2>2, OwnKept DEF ToggleLibrary
<1>3. CASE Touch(t)
  <2>1. CASE UNCHANGED chapters
    BY <1>3, <2>1, TablesKept DEF Touch
  <2>2. CASE ~UNCHANGED chapters
    <3>1. PICK c \in chapters : \E d \in Touched(job[t].op, c) : chapters' = (chapters \ {c}) \cup {d}
      BY <1>3, <2>2 DEF Touch
    <3>2. PICK d \in Touched(job[t].op, c) : chapters' = (chapters \ {c}) \cup {d}
      BY <3>1
    <3>3. c \in ChapterRows /\ job[t].op \in Clicks
      BY <1>3 DEF TypeInv, TypeOK, ThreadsTyped, Touch, Leave
    <3>4. d.manga = c.manga /\ d.id = c.id /\ d.stray = c.stray
      BY <3>2, <3>3, TouchedRows
    <3>5. UNCHANGED mangas
      BY <1>3 DEF Touch
    <3> QED BY <3>2, <3>4, <3>5, OwnKept
  <2> QED BY <2>1, <2>2
<1> QED BY <1>1, <1>2, <1>3 DEF Reader

LEMMA MaintainOwn ==
  ASSUME TypeInv, OwnChapters, NEW t \in Threads, Maintain(t)
  PROVE  OwnChapters'
<1>1. CASE PassBegin(t) \/ Sweep(t) \/ Check(t) \/ Wipe(t) \/ Rebuild(t)
  BY <1>1, TablesKept DEF PassBegin, Sweep, Check, Wipe, Rebuild, Start, tables
<1>2. CASE Purge(t)
  BY <1>2, OwnKept DEF Purge
<1>3. CASE Drop(t)
  <2>1. \A r \in Rows : ChaptersOf(r) # {} => mangas'[r] = mangas[r]
    BY <1>3 DEF Drop
  <2>2. \A c \in chapters : mangas'[c.manga] = mangas[c.manga]
    BY <2>1 DEF ChaptersOf, TypeInv, TypeOK, ChapterRows
  <2> QED BY <1>3, <2>2, OwnKept DEF Drop
<1> QED BY <1>1, <1>2, <1>3 DEF Maintain

LEMMA StepsOwn == TypeInv /\ Offers /\ OwnChapters /\ [Next]_vars => OwnChapters'
<1> SUFFICES ASSUME TypeInv, Offers, OwnChapters, [Next]_vars PROVE OwnChapters'
  OBVIOUS
<1>1. CASE UNCHANGED vars \/ Crash
  BY <1>1, TablesKept DEF vars, Crash, tables
<1>2. ASSUME NEW t \in Threads, Fails(t) PROVE OwnChapters'
  BY <1>2, TablesKept DEF Fails, tables
<1> QED BY <1>1, <1>2, SyncOwn, MigrateOwn, ReaderOwn, MaintainOwn DEF Next

\* A library entry lists chapters of its own source: through every crossing of
\* syncs and migrations the old source's chapters are gone, except those that a
\* sync inserts which had found its row before the migration (migrate.go).
THEOREM ChaptersAreOwn == Spec => []OwnChapters
BY InitOwn, Typed, StepsOffers, StepsOwn, PTL DEF Spec

-----------------------------------------------------------------------------
(* The reader's progress *)

\* Between its look at the table and its write, a prune has found no chapter with
\* progress and a migration has found every one, but for those read since.
Seen(t, c) ==
  \/ <<c.manga, c.id>> \in late
  \/ /\ pc[t] = "prune" => ~Hit(t, c)
     /\ pc[t] = "commit" /\ c.manga = job[t].row => c.id \in job[t].left

WindowInv == \A t \in Threads, c \in chapters : Progress(c) => Seen(t, c)

\* A thread that stays where it is has seen what it had.
LEMMA SeenKept ==
  ASSUME NEW t, NEW c, Seen(t, c), UNCHANGED <<pc[t], job[t]>>, <<c.manga, c.id>> \in late => <<c.manga, c.id>> \in late'
  PROVE  Seen(t, c)'
BY DEF Seen, Hit, Keys

LEMMA SeenOutside ==
  ASSUME NEW t, NEW c, pc'[t] \notin Window
  PROVE  Seen(t, c)'
BY DEF Seen, Window

\* A step of t that leaves no chapter read and the late ones as they are.
LEMMA WindowQuiet ==
  ASSUME TypeInv, WindowInv, NEW t \in Threads,
         \A c \in chapters' : Progress(c) => c \in chapters,
         \A u \in Threads \ {t} : UNCHANGED <<pc[u], job[u]>>,
         UNCHANGED late,
         pc'[t] \notin Window
  PROVE  WindowInv'
<1> SUFFICES ASSUME NEW u \in Threads, NEW c \in chapters', Progress(c) PROVE Seen(u, c)'
  BY DEF WindowInv, Progress
<1>1. CASE u = t
  BY <1>1, SeenOutside
<1>2. CASE u # t
  <2>1. Seen(u, c)
    BY DEF WindowInv
  <2>2. UNCHANGED <<pc[u], job[u]>>
    BY <1>2
  <2> QED BY <2>1, <2>2, SeenKept
<1> QED BY <1>1, <1>2

\* A write of t that leaves some rows read, and Settles them.
LEMMA WindowSettled ==
  ASSUME TypeInv, WindowInv, NEW t \in Threads, NEW gained, Settle(t, gained),
         \A c \in chapters' : Progress(c) => c \in chapters \/ <<c.manga, c.id>> \in Keys(gained),
         \A u \in Threads \ {t} : UNCHANGED <<pc[u], job[u]>>,
         pc'[t] \notin Window
  PROVE  WindowInv'
<1> SUFFICES ASSUME NEW u \in Threads, NEW c \in chapters', Progress(c) PROVE Seen(u, c)'
  BY DEF WindowInv, Progress
<1>1. CASE u = t \/ pc[u] \notin Window
  BY <1>1, SeenOutside
<1>2. CASE u # t /\ pc[u] \in Window
  <2>1. late' = late \cup Keys(gained)
    BY <1>2 DEF Settle
  <2>2. CASE c \in chapters
    <3>1. Seen(u, c) /\ UNCHANGED <<pc[u], job[u]>>
      BY <1>2, <2>2 DEF WindowInv
    <3> QED BY <2>1, <3>1, SeenKept
  <2>3. CASE <<c.manga, c.id>> \in Keys(gained)
    BY <2>1, <2>3 DEF Seen
  <2> QED BY <2>2, <2>3
<1> QED BY <1>1, <1>2

LEMMA FinishAlone ==
  ASSUME TypeInv, NEW t \in Threads, Finish(t)
  PROVE  pc'[t] \notin Window /\ \A u \in Threads \ {t} : UNCHANGED <<pc[u], job[u]>>
BY DEF Finish, Goto, Window, TypeInv, ThreadsTyped

LEMMA StepAlone ==
  ASSUME TypeInv, NEW t \in Threads, NEW k, NEW l, Step(t, k, l), l \notin Window
  PROVE  pc'[t] \notin Window /\ \A u \in Threads \ {t} : UNCHANGED <<pc[u], job[u]>>
BY DEF Step, Goto, Window, TypeInv, ThreadsTyped

LEMMA StartAlone ==
  ASSUME TypeInv, NEW t \in Threads, NEW l, NEW j, Start(t, l, j), l \notin Window
  PROVE  /\ pc'[t] \notin Window /\ \A u \in Threads \ {t} : UNCHANGED <<pc[u], job[u]>>
         /\ UNCHANGED <<mangas, chapters, late>>
BY DEF Start, Goto, Window, tables, history, TypeInv, ThreadsTyped

LEMMA BeginWindow ==
  ASSUME TypeInv, WindowInv, NEW t \in Threads,
         SyncBegin(t) \/ DetailsBegin(t) \/ Refetch(t) \/ MigrateBegin(t) \/ ToggleBegin(t)
           \/ ReadBegin(t) \/ PassBegin(t)
  PROVE  WindowInv'
<1>1. \E l \in Places \ Window : \E j : Start(t, l, j)
  BY DEF SyncBegin, DetailsBegin, Refetch, MigrateBegin, ToggleBegin, ReadBegin, PassBegin, Places, Window
<1>2. PICK l \in Places \ Window : \E j : Start(t, l, j)
  BY <1>1
<1>3. PICK j : Start(t, l, j)
  BY <1>2
<1> QED BY <1>3, StartAlone, WindowQuiet

LEMMA SyncWindow ==
  ASSUME TypeInv, WindowInv, NEW t \in Threads, Sync(t) \/ Refetch(t)
  PROVE  WindowInv'
<1>1. CASE SyncBegin(t) \/ DetailsBegin(t) \/ Refetch(t)
  BY <1>1, BeginWindow
<1>2. CASE Upsert(t)
  BY <1>2, StepAlone, WindowQuiet DEF Upsert, Window
<1>3. CASE SelectId(t) \/ Index(t) \/ Member(t)
  <2>1. UNCHANGED <<chapters, late>>
    BY <1>3 DEF SelectId, Index, Member, tables, history
  <2>2. pc'[t] \notin Window /\ \A u \in Threads \ {t} : UNCHANGED <<pc[u], job[u]>>
    <3>1. CASE Finish(t)
      BY <3>1, FinishAlone
    <3>2. CASE ~Finish(t)
      BY <1>3, <3>2 DEF SelectId, Index, Member, Goto, Window, TypeInv, ThreadsTyped
    <3> QED BY <3>1, <3>2
  <2> QED BY <2>1, <2>2, WindowQuiet
<1>4. CASE UpsertChapter(t)
  <2>1. \A c \in chapters' : Progress(c) => c \in chapters
    BY <1>4 DEF UpsertChapter, Inserted, Progress
  <2>2. pc'[t] \notin Window /\ \A u \in Threads \ {t} : UNCHANGED <<pc[u], job[u]>>
    <3>1. CASE Finish(t)
      BY <3>1, FinishAlone
    <3>2. CASE ~Finish(t)
      BY <1>4, <3>2 DEF UpsertChapter, Window, TypeInv, ThreadsTyped
    <3> QED BY <3>1, <3>2
  <2>3. UNCHANGED late
    BY <1>4 DEF UpsertChapter, history
  <2> QED BY <2>1, <2>2, <2>3, WindowQuiet
<1>5. CASE PruneSelect(t)
  <2>1. UNCHANGED <<chapters, late>>
    BY <1>5 DEF PruneSelect, tables, history
  <2>2. CASE Finish(t)
    BY <2>1, <2>2, FinishAlone, WindowQuiet
  <2>3. CASE ~Finish(t)
    <3>1. pc' = [pc EXCEPT ![t] = "prune"] /\ job' = [job EXCEPT ![t].hit = Superseded(t)]
      BY <1>5, <2>3 DEF PruneSelect, Goto
    <3> SUFFICES ASSUME NEW u \in Threads, NEW c \in chapters, Progress(c) PROVE Seen(u, c)'
      BY <2>1 DEF WindowInv, Progress
    <3>2. CASE u = t
      <4>1. pc'[t] = "prune" /\ job'[t].hit = Superseded(t)
        BY <3>1 DEF TypeInv, ThreadsTyped, JobRecords
      <4>2. \A d \in Superseded(t) : d \in chapters /\ ~Progress(d)
        BY DEF Superseded, ChaptersOf
      <4>3. \A d \in Superseded(t) : ~(d.manga = c.manga /\ d.id = c.id)
        BY <4>2 DEF TypeInv, TypeOK
      <4>4. ~Hit(t, c)'
        BY <4>1, <4>3 DEF Hit, Keys
      <4> QED BY <3>2, <4>1, <4>4 DEF Seen
    <3>3. CASE u # t
      <4>1. UNCHANGED <<pc[u], job[u]>>
        BY <3>1, <3>3 DEF TypeInv, ThreadsTyped
      <4> QED BY <2>1, <4>1, SeenKept DEF WindowInv
    <3> QED BY <3>2, <3>3
  <2> QED BY <2>2, <2>3
<1>6. CASE PruneDelete(t)
  BY <1>6, FinishAlone, WindowSettled DEF PruneDelete, Leave
<1> QED BY <1>1, <1>2, <1>3, <1>4, <1>5, <1>6 DEF Sync

LEMMA MigrateWindow ==
  ASSUME TypeInv, WindowInv, NEW t \in Threads, Migrate(t)
  PROVE  WindowInv'
<1>1. CASE MigrateBegin(t)
  BY <1>1, BeginWindow
<1>2. CASE ReadSourceIDs(t)
  <2> DEFINE gathered == {c.id : c \in {d \in ChaptersOf(job[t].row) : Progress(d)}}
  <2>1. UNCHANGED <<chapters, late>>
    BY <1>2 DEF ReadSourceIDs, tables, history
  <2>2. pc' = [pc EXCEPT ![t] = "commit"] /\ job' = [job EXCEPT ![t].left = gathered]
    BY <1>2 DEF ReadSourceIDs, Goto
  <2> SUFFICES ASSUME NEW u \in Threads, NEW c \in chapters, Progress(c) PROVE Seen(u, c)'
    BY <2>1 DEF WindowInv, Progress
  <2>3. CASE u = t
    <3>1. c.manga = job[t].row => c.id \in gathered
      BY DEF ChaptersOf
    <3> HIDE DEF gathered
    <3>2. pc'[t] = "commit" /\ job'[t].left = gathered /\ job'[t].row = job[t].row
      BY <2>2 DEF TypeInv, ThreadsTyped, JobRecords
    <3> QED BY <2>3, <3>1, <3>2 DEF Seen
  <2>4. CASE u # t
    <3>1. UNCHANGED <<pc[u], job[u]>>
      BY <2>2, <2>4 DEF TypeInv, ThreadsTyped
    <3> QED BY <2>1, <3>1, SeenKept DEF WindowInv
  <2> QED BY <2>3, <2>4
<1>3. CASE Commit(t)
  <2> DEFINE gained == {c \in chapters' : c.manga = job[t].row /\ c \notin chapters /\ Progress(c)}
  <2>1. Finish(t) /\ Settle(t, gained)
    BY <1>3 DEF Commit, Leave
  <2>2. \A c \in chapters' : Progress(c) => c \in chapters \/ <<c.manga, c.id>> \in Keys(gained)
    <3>1. CASE UNCHANGED tables
      BY <3>1 DEF tables
    <3>2. CASE ~UNCHANGED tables
      <4>1. \A c \in chapters' : c \in chapters \/ c.manga = job[t].row
        BY <1>3, <3>2, CommitWrites
      <4> QED BY <4>1 DEF Keys
    <3> QED BY <3>1, <3>2
  <2> HIDE DEF gained
  <2> QED BY <2>1, <2>2, FinishAlone, WindowSettled
<1> QED BY <1>1, <1>2, <1>3 DEF Migrate

LEMMA ReaderWindow ==
  ASSUME TypeInv, WindowInv, NEW t \in Threads, Reader(t)
  PROVE  WindowInv'
<1>1. CASE ToggleBegin(t) \/ ReadBegin(t)
  BY <1>1, BeginWindow
<1>2. CASE ToggleLibrary(t)
  BY <1>2, StepAlone, WindowQuiet DEF ToggleLibrary, Window
<1>3. CASE Unindex(t)
  BY <1>3, StepAlone, WindowQuiet DEF Unindex, Window, history
<1>4. CASE Touch(t)
  <2>1. Finish(t) /\ Settle(t, job[t].hit)
    BY <1>4 DEF Touch, Leave
  <2>2. \A c \in chapters' : c \in chapters \/ <<c.manga, c.id>> \in Keys(job[t].hit)
    <3>1. CASE UNCHANGED chapters
      BY <3>1
    <3>2. CASE ~UNCHANGED chapters
      <4>1. PICK c \in chapters : \E d \in Touched(job[t].op, c) :
              Hit(t, c) /\ chapters' = (chapters \ {c}) \cup {d}
        BY <1>4, <3>2 DEF Touch
      <4>2. PICK d \in Touched(job[t].op, c) : Hit(t, c) /\ chapters' = (chapters \ {c}) \cup {d}
        BY <4>1
      <4>3. c \in ChapterRows /\ job[t].op \in Clicks
        BY <1>4 DEF TypeInv, TypeOK, ThreadsTyped, Touch, Leave
      <4>4. d.manga = c.manga /\ d.id = c.id
        BY <4>2, <4>3, TouchedRows
      <4> QED BY <4>2, <4>4 DEF Hit
    <3> QED BY <3>1, <3>2
  <2> QED BY <2>1, <2>2, FinishAlone, WindowSettled
<1> QED BY <1>1, <1>2, <1>3, <1>4 DEF Reader

LEMMA MaintainWindow ==
  ASSUME TypeInv, WindowInv, NEW t \in Threads, Maintain(t)
  PROVE  WindowInv'
<1>1. CASE PassBegin(t)
  BY <1>1, BeginWindow
<1>2. CASE Purge(t) \/ Drop(t) \/ Sweep(t) \/ Wipe(t)
  <2>1. \E k : \E l \in Places \ Window : Step(t, k, l)
    BY <1>2 DEF Purge, Drop, Sweep, Wipe, Places, Window
  <2>2. chapters' \subseteq chapters /\ UNCHANGED late
    BY <1>2 DEF Purge, Drop, Sweep, Wipe, history
  <2>3. pc'[t] \notin Window /\ \A u \in Threads \ {t} : UNCHANGED <<pc[u], job[u]>>
    BY <2>1, StepAlone
  <2> QED BY <2>2, <2>3, WindowQuiet
<1>3. CASE Check(t) \/ Rebuild(t)
  <2>1. UNCHANGED <<chapters, late>>
    BY <1>3 DEF Check, Rebuild, tables
  <2>2. pc'[t] \notin Window /\ \A u \in Threads \ {t} : UNCHANGED <<pc[u], job[u]>>
    <3>1. CASE Finish(t)
      BY <3>1, FinishAlone
    <3>2. CASE ~Finish(t)
      BY <1>3, <3>2 DEF Check, Rebuild, PassEnd, Goto, Window, TypeInv, ThreadsTyped
    <3> QED BY <3>1, <3>2
  <2> QED BY <2>1, <2>2, WindowQuiet
<1> QED BY <1>1, <1>2, <1>3 DEF Maintain

LEMMA FailsWindow ==
  ASSUME TypeInv, WindowInv, NEW t \in Threads, Fails(t)
  PROVE  WindowInv'
<1>1. UNCHANGED chapters
  BY DEF Fails, tables
<1>2. pc'[t] \notin Window /\ \A u \in Threads \ {t} : UNCHANGED <<pc[u], job[u]>>
  <2>1. CASE Finish(t)
    BY <2>1, FinishAlone
  <2>2. CASE ~Finish(t)
    <3>1. \E k : \E l \in {"drop", "sweep", "check"} : Step(t, k, l)
      BY <2>2 DEF Fails, PassEnd
    <3> QED BY <3>1, StepAlone DEF Window
  <2> QED BY <2>1, <2>2
<1>3. CASE Settle(t, {})
  BY <1>1, <1>2, <1>3, WindowSettled
<1>4. CASE UNCHANGED late
  BY <1>1, <1>2, <1>4, WindowQuiet
<1> QED BY <1>3, <1>4 DEF Fails

LEMMA StepsWindow == TypeInv /\ WindowInv /\ [Next]_vars => WindowInv'
<1> SUFFICES ASSUME TypeInv, WindowInv, [Next]_vars PROVE WindowInv'
  OBVIOUS
<1>1. CASE UNCHANGED vars
  BY <1>1 DEF vars, tables, history, WindowInv, Progress, Seen, Hit, Keys
<1>2. CASE Crash
  BY <1>2 DEF Crash, WindowInv, Seen
<1> QED BY <1>1, <1>2, SyncWindow, MigrateWindow, ReaderWindow, MaintainWindow, FailsWindow DEF Next

-----------------------------------------------------------------------------
LEMMA CarriedBelow ==
  ASSUME NEW t, NEW rows \in SUBSET ChapterRows, NEW c \in rows, c.id \in job[t].left,
         NEW d \in CarriedRead(t, rows), Num[d.id] <= Num[c.id]
  PROVE  d.reading = "read"
<1> DEFINE bounds == {Num[x.id] : x \in {y \in rows : y.id \in job[t].left}}
<1>1. PICK x \in rows : d = [x EXCEPT !.reading = IF \E b \in bounds : Num[x.id] < b + Whole THEN "read" ELSE @]
  BY DEF CarriedRead
<1>2. d.id = x.id
  BY <1>1 DEF ChapterRows
<1>3. Num[c.id] \in bounds
  OBVIOUS
<1>4. Num[x.id] < Num[c.id] + Whole
  BY <1>2, LibraryAssumption DEF ChapterRows
<1> HIDE DEF bounds
<1> QED BY <1>1, <1>3, <1>4 DEF ChapterRows

\* What ProgressKept says of one chapter.
Kept(c) ==
  \/ \E d \in chapters' : d.manga = c.manga /\ d.id = c.id /\ Progress(d)
  \/ \E t \in Threads : pc[t] = "touch" /\ Hit(t, c) /\ pc'[t] = "idle"
  \/ <<c.manga, c.id>> \in late
  \/ mangas'[c.manga].src # mangas[c.manga].src
       /\ \A d \in chapters' : d.manga = c.manga /\ Num[d.id] <= Num[c.id] => d.reading = "read"

LEMMA StaysKept ==
  ASSUME NEW c \in chapters', Progress(c)
  PROVE  Kept(c)
BY DEF Kept

LEMMA CommitKeeps ==
  ASSUME TypeInv, WindowInv, NEW t \in Threads, Commit(t), NEW c \in chapters, Progress(c)
  PROVE  Kept(c)
<1>1. CASE c \in chapters'
  BY <1>1, StaysKept
<1>2. CASE c \notin chapters'
  <2>1. ~UNCHANGED tables
    BY <1>2 DEF tables
  <2>2. /\ RowOf(job[t].src) = 0 /\ job[t].row \in Rows
        /\ mangas' = [mangas EXCEPT ![job[t].row].src = job[t].src]
        /\ chapters' = (chapters \ ChaptersOf(job[t].row))
                         \cup {d \in CarriedRead(t, Merged(t)) : d.id \in job[t].want}
        /\ \A d \in CarriedRead(t, Merged(t)) : d.manga = job[t].row
    BY <2>1, CommitWrites
  <2>3. c.manga = job[t].row /\ c \in Merged(t)
    BY <1>2, <2>2 DEF ChaptersOf, Merged
  <2>4. pc[t] = "commit"
    BY DEF Commit, Leave
  <2>5. <<c.manga, c.id>> \in late \/ c.id \in job[t].left
    BY <2>3, <2>4 DEF WindowInv, Seen
  <2>6. CASE c.id \in job[t].left
    <3>1. mangas'[c.manga].src # mangas[c.manga].src
      BY <2>2, <2>3, RowOfFinds DEF TypeInv, TypeOK
    <3>2. Merged(t) \in SUBSET ChapterRows
      BY <2>2, MergedRows
    <3>3. \A d \in CarriedRead(t, Merged(t)) : Num[d.id] <= Num[c.id] => d.reading = "read"
      BY <2>3, <2>6, <3>2, CarriedBelow
    <3>4. \A d \in chapters' : d.manga = c.manga => d \in CarriedRead(t, Merged(t))
      BY <2>2, <2>3 DEF ChaptersOf
    <3> QED BY <3>1, <3>3, <3>4 DEF Kept
  <2> QED BY <2>5, <2>6 DEF Kept
<1> QED BY <1>1, <1>2

LEMMA NextKeeps ==
  ASSUME TypeInv, WindowInv, Next, NEW c \in chapters, Progress(c), InLibrary(c.manga)
  PROVE  Kept(c)
<1>1. CASE c \in chapters'
  BY <1>1, StaysKept
<1>2. CASE c \notin chapters'
  <2>1. ASSUME NEW t \in Threads, Sync(t) \/ Refetch(t) PROVE Kept(c)
    <3>1. PruneDelete(t)
      <4>1. ~SyncBegin(t) /\ ~DetailsBegin(t) /\ ~Refetch(t)
        BY <1>2 DEF SyncBegin, DetailsBegin, Refetch, Start, tables
      <4>2. ~Upsert(t) /\ ~SelectId(t) /\ ~Index(t) /\ ~Member(t) /\ ~UpsertChapter(t) /\ ~PruneSelect(t)
        BY <1>2 DEF Upsert, SelectId, Index, Member, UpsertChapter, PruneSelect, tables
      <4> QED BY <2>1, <4>1, <4>2 DEF Sync
    <3>2. pc[t] = "prune" /\ Hit(t, c)
      BY <1>2, <3>1 DEF PruneDelete, Leave
    <3>3. <<c.manga, c.id>> \in late
      BY <3>2 DEF WindowInv, Seen
    <3> QED BY <3>3 DEF Kept
  <2>2. ASSUME NEW t \in Threads, Migrate(t) PROVE Kept(c)
    <3>1. Commit(t)
      BY <1>2, <2>2 DEF Migrate, MigrateBegin, ReadSourceIDs, Start, tables
    <3> QED BY <3>1, CommitKeeps
  <2>3. ASSUME NEW t \in Threads, Reader(t) PROVE Kept(c)
    <3>1. Touch(t)
      BY <1>2, <2>3 DEF Reader, ToggleBegin, ToggleLibrary, Unindex, ReadBegin, Start, tables
    <3>2. pc[t] = "touch" /\ Hit(t, c)
      BY <1>2, <3>1 DEF Touch, Leave
    <3>3. pc'[t] = "idle"
      BY <3>1 DEF Touch, Leave, Finish, Goto, TypeInv, ThreadsTyped
    <3> QED BY <3>2, <3>3 DEF Kept
  <2>4. ASSUME NEW t \in Threads, Maintain(t) PROVE Kept(c)
    <3>1. Purge(t)
      BY <1>2, <2>4 DEF Maintain, PassBegin, Drop, Sweep, Check, Wipe, Rebuild, Start, tables
    <3> QED BY <1>2, <3>1 DEF Purge
  <2>5. ~(\E t \in Threads : Fails(t)) /\ ~Crash
    BY <1>2 DEF Fails, Crash, tables
  <2> QED BY <2>1, <2>2, <2>3, <2>4, <2>5 DEF Next
<1> QED BY <1>1, <1>2

\* Progress on a chapter of the library is lost to the reader's own click only:
\* a migration turns it into read chapters up to that number and a prune spares
\* it, except for what is read between their look and their write (migrate.go).
THEOREM ProgressIsKept == Spec => ProgressKept
<1>1. Init => WindowInv
  BY DEF Init, WindowInv, Seen
<1>2. TypeInv /\ WindowInv /\ [Next]_vars =>
        [\A c \in chapters : Progress(c) /\ InLibrary(c.manga) =>
           \/ \E d \in chapters' : d.manga = c.manga /\ d.id = c.id /\ Progress(d)
           \/ \E t \in Threads : pc[t] = "touch" /\ Hit(t, c) /\ pc'[t] = "idle"
           \/ <<c.manga, c.id>> \in late
           \/ mangas'[c.manga].src # mangas[c.manga].src
                /\ \A d \in chapters' : d.manga = c.manga /\ Num[d.id] <= Num[c.id] => d.reading = "read"]_vars
  BY NextKeeps DEF Kept
<1> QED BY Typed, <1>1, StepsWindow, <1>2, PTL DEF Spec, ProgressKept

-----------------------------------------------------------------------------
(* The search index *)

\* Who is about to delete a document that should not be there, and to insert one
\* that should.
OwesStale(t, d) == pc[t] = "unindex" /\ job[t].row = d[1]

OwesMissing(t, d) ==
  \/ pc[t] \in {"unindex", "index"} /\ job[t].row = d[1]
  \/ pc[t] = "select" /\ job[t].src = d[2]
  \/ pc[t] = "rebuild"

IndexInv ==
  ~behind => /\ \A d \in fts : d \in Documents(mangas) \/ \E t \in Threads : OwesStale(t, d)
             /\ \A d \in Documents(mangas) : d \in fts \/ \E t \in Threads : OwesMissing(t, d)

LEMMA DocumentIs ==
  ASSUME NEW table, NEW d
  PROVE  d \in Documents(table) <=> d \in Rows \X Sources /\ table[d[1]].lib /\ table[d[1]].src = d[2]
BY DEF Documents

\* A step of t that leaves the other threads alone, and settles or owes the
\* documents that it leaves wrong.
Alone(t) == \A u \in Threads \ {t} : UNCHANGED <<pc[u], job[u]>>

StaleSettled(t) ==
  \A d \in fts' :
    \/ d \in Documents(mangas') \/ OwesStale(t, d)'
    \/ d \in fts /\ d \notin Documents(mangas) /\ ~OwesStale(t, d)

MissingSettled(t) ==
  \A d \in Documents(mangas') :
    \/ d \in fts' \/ OwesMissing(t, d)'
    \/ d \in Documents(mangas) /\ d \notin fts /\ ~OwesMissing(t, d)

LEMMA IndexStep ==
  ASSUME IndexInv, NEW t \in Threads, Alone(t), ~behind' => ~behind, StaleSettled(t), MissingSettled(t)
  PROVE  IndexInv'
<1> SUFFICES ASSUME ~behind'
             PROVE  /\ \A d \in fts' : d \in Documents(mangas') \/ \E u \in Threads : OwesStale(u, d)'
                    /\ \A d \in Documents(mangas') : d \in fts' \/ \E u \in Threads : OwesMissing(u, d)'
  BY DEF IndexInv, Documents
<1> USE DEF Alone, StaleSettled, MissingSettled
<1>1. ASSUME NEW d \in fts', d \notin Documents(mangas') PROVE \E u \in Threads : OwesStale(u, d)'
  <2>1. CASE OwesStale(t, d)'
    BY <2>1
  <2>2. CASE d \in fts /\ d \notin Documents(mangas) /\ ~OwesStale(t, d)
    <3>1. PICK u \in Threads \ {t} : OwesStale(u, d)
      BY <2>2 DEF IndexInv
    <3>2. UNCHANGED <<pc[u], job[u]>>
      BY <3>1
    <3>3. OwesStale(u, d)'
      BY <3>1, <3>2 DEF OwesStale
    <3> QED BY <3>3
  <2> QED BY <1>1, <2>1, <2>2
<1>2. ASSUME NEW d \in Documents(mangas'), d \notin fts' PROVE \E u \in Threads : OwesMissing(u, d)'
  <2>1. CASE OwesMissing(t, d)'
    BY <2>1
  <2>2. CASE d \in Documents(mangas) /\ d \notin fts /\ ~OwesMissing(t, d)
    <3>1. PICK u \in Threads \ {t} : OwesMissing(u, d)
      BY <2>2 DEF IndexInv
    <3>2. UNCHANGED <<pc[u], job[u]>>
      BY <3>1
    <3>3. OwesMissing(u, d)'
      BY <3>1, <3>2 DEF OwesMissing
    <3> QED BY <3>3
  <2> QED BY <1>2, <2>1, <2>2
<1> QED BY <1>1, <1>2

LEMMA IndexQuiet ==
  ASSUME IndexInv, NEW t \in Threads, Alone(t), ~behind' => ~behind, UNCHANGED fts,
         Documents(mangas') = Documents(mangas), pc[t] \notin Reindexing
  PROVE  IndexInv'
<1>1. \A d : ~OwesStale(t, d) /\ ~OwesMissing(t, d)
  BY DEF OwesStale, OwesMissing, Reindexing
<1>2. StaleSettled(t)
  BY <1>1 DEF StaleSettled
<1>3. MissingSettled(t)
  BY <1>1 DEF MissingSettled
<1> QED BY <1>2, <1>3, IndexStep

LEMMA FinishSolo ==
  ASSUME TypeInv, NEW t \in Threads, Finish(t)
  PROVE  Alone(t)
BY FinishAlone DEF Alone

LEMMA StepSolo ==
  ASSUME TypeInv, NEW t \in Threads, NEW k, NEW l, Step(t, k, l)
  PROVE  Alone(t) /\ pc[t] = k /\ pc'[t] = l /\ job'[t] = job[t]
BY DEF Step, Goto, Alone, TypeInv, ThreadsTyped

LEMMA BeginIndex ==
  ASSUME TypeInv, IndexInv, NEW t \in Threads,
         SyncBegin(t) \/ DetailsBegin(t) \/ Refetch(t) \/ MigrateBegin(t) \/ ToggleBegin(t)
           \/ ReadBegin(t) \/ PassBegin(t)
  PROVE  IndexInv'
<1>1. \E l : \E j : Start(t, l, j)
  BY DEF SyncBegin, DetailsBegin, Refetch, MigrateBegin, ToggleBegin, ReadBegin, PassBegin
<1>2. PICK l : \E j : Start(t, l, j)
  BY <1>1
<1>3. PICK j : Start(t, l, j)
  BY <1>2
<1>4. pc[t] = "idle" /\ UNCHANGED <<mangas, fts, behind>>
  BY <1>3 DEF Start, tables, history
<1>5. Alone(t)
  BY <1>3 DEF Alone, Start, Goto, TypeInv, ThreadsTyped
<1> QED BY <1>4, <1>5, IndexQuiet DEF Reindexing

LEMMA UpsertIndex ==
  ASSUME TypeInv, IndexInv, NEW t \in Threads, Upsert(t)
  PROVE  IndexInv'
<1>1. Alone(t) /\ pc[t] = "upsert" /\ pc'[t] = "select" /\ job'[t] = job[t] /\ UNCHANGED <<fts, behind>>
  BY StepSolo DEF Upsert
<1>2. CASE RowOf(job[t].src) # 0
  BY <1>1, <1>2, IndexQuiet DEF Upsert, Reindexing
<1>3. CASE RowOf(job[t].src) = 0
  <2>1. /\ lastRow' = lastRow + 1 /\ lastRow < MaxRow
        /\ mangas' = [mangas EXCEPT ![lastRow'] = [src |-> job[t].src, lib |-> job[t].lib]]
    BY <1>3 DEF Upsert
  <2>2. lastRow' \in Rows /\ ~mangas[lastRow'].lib
    BY <2>1, RowsAre, LibraryAssumption DEF TypeInv, TypeOK, Fresh
  <2>3. \A r \in Rows : r # lastRow' => mangas'[r] = mangas[r]
    BY <2>1 DEF TypeInv, TypeOK
  <2>4. mangas'[lastRow'].src = job[t].src
    BY <2>1, <2>2 DEF TypeInv, TypeOK
  <2>5. \A d \in Documents(mangas) : d \in Documents(mangas')
    BY <2>2, <2>3, DocumentIs
  <2>6. \A d \in Documents(mangas') : d \in Documents(mangas) \/ d[2] = job[t].src
    BY <2>3, <2>4, DocumentIs
  <2>7. \A d : ~OwesStale(t, d) /\ ~OwesMissing(t, d)
    BY <1>1 DEF OwesStale, OwesMissing
  <2>8. \A d : d[2] = job[t].src => OwesMissing(t, d)'
    BY <1>1 DEF OwesMissing
  <2>9. StaleSettled(t)
    BY <1>1, <2>5, <2>7 DEF StaleSettled
  <2>10. MissingSettled(t)
    BY <1>1, <2>6, <2>7, <2>8 DEF MissingSettled
  <2> QED BY <1>1, <2>9, <2>10, IndexStep
<1> QED BY <1>2, <1>3

LEMMA SelectIndex ==
  ASSUME TypeInv, IndexInv, NEW t \in Threads, SelectId(t)
  PROVE  IndexInv'
<1> DEFINE r == RowOf(job[t].src)
<1>1. pc[t] = "select" /\ UNCHANGED <<mangas, behind>>
  BY DEF SelectId, history
<1>2. \A d : ~OwesStale(t, d)
  BY <1>1 DEF OwesStale
<1>3. \A d : OwesMissing(t, d) <=> job[t].src = d[2]
  BY <1>1 DEF OwesMissing
<1>4. CASE r = 0
  <2>1. Finish(t) /\ UNCHANGED fts
    BY <1>4 DEF SelectId
  <2>2. \A d \in Documents(mangas) : d[2] # job[t].src
    BY <1>4, RowOfFinds, DocumentIs
  <2>3. StaleSettled(t)
    BY <1>1, <1>2, <2>1 DEF StaleSettled
  <2>4. MissingSettled(t)
    BY <1>1, <1>3, <2>1, <2>2 DEF MissingSettled
  <2> QED BY <1>1, <2>1, <2>3, <2>4, FinishSolo, IndexStep
<1>5. CASE r # 0
  <2>1. /\ pc' = [pc EXCEPT ![t] = "index"] /\ job' = [job EXCEPT ![t].row = r]
        /\ fts' = fts \ DocumentsOf(r, fts)
    BY <1>5 DEF SelectId, Goto
  <2>2. Alone(t)
    BY <2>1 DEF Alone, TypeInv, ThreadsTyped
  <2>3. r \in Rows /\ mangas[r].src = job[t].src
    BY <1>5, RowOfFinds
  <2> HIDE DEF r
  <2>4. pc'[t] = "index" /\ job'[t].row = r
    BY <2>1 DEF TypeInv, ThreadsTyped, JobRecords
  <2>5. \A d : d[1] = r => OwesMissing(t, d)'
    BY <2>4 DEF OwesMissing
  <2>6. \A d \in Documents(mangas) : d \notin fts' => d \notin fts \/ d[1] = r
    BY <2>1 DEF DocumentsOf
  <2>7. \A d \in Documents(mangas) : d[2] = job[t].src => d[1] = r
    <3> SUFFICES ASSUME NEW d \in Documents(mangas), d[2] = job[t].src PROVE d[1] = r
      OBVIOUS
    <3>1. d[1] \in Rows /\ mangas[d[1]].src = d[2] /\ d[2] # Nothing
      BY DocumentIs, LibraryAssumption
    <3> QED BY <2>3, <3>1 DEF TypeInv, TypeOK, Present
  <2>8. StaleSettled(t)
    BY <1>1, <1>2, <2>1 DEF StaleSettled
  <2>9. MissingSettled(t)
    BY <1>1, <1>3, <2>5, <2>6, <2>7 DEF MissingSettled
  <2> QED BY <1>1, <2>2, <2>8, <2>9, IndexStep
<1> QED BY <1>4, <1>5

LEMMA InsertIndex ==
  ASSUME TypeInv, IndexInv, NEW t \in Threads, Index(t)
  PROVE  IndexInv'
<1>1. pc[t] = "index" /\ UNCHANGED <<mangas, behind>> /\ fts' = fts \cup DocumentsOf(job[t].row, Documents(mangas))
  BY DEF Index, history
<1>2. \A d : ~OwesStale(t, d) /\ (OwesMissing(t, d) <=> job[t].row = d[1])
  BY <1>1 DEF OwesStale, OwesMissing
<1>3. \A d \in fts' : d \in fts \/ d \in Documents(mangas)
  BY <1>1 DEF DocumentsOf
<1>4. \A d \in Documents(mangas) : d \in fts \/ d[1] = job[t].row => d \in fts'
  BY <1>1 DEF DocumentsOf
<1>5. StaleSettled(t)
  BY <1>1, <1>2, <1>3 DEF StaleSettled
<1>6. MissingSettled(t)
  BY <1>1, <1>2, <1>4 DEF MissingSettled
<1>7. Alone(t)
  <2>1. CASE Finish(t)
    BY <2>1, FinishSolo
  <2>2. CASE ~Finish(t)
    BY <2>2 DEF Index, Goto, Alone, TypeInv, ThreadsTyped
  <2> QED BY <2>1, <2>2
<1> QED BY <1>1, <1>5, <1>6, <1>7, IndexStep

LEMMA CommitIndex ==
  ASSUME TypeInv, IndexInv, NEW t \in Threads, Commit(t)
  PROVE  IndexInv'
<1>1. pc[t] = "commit" /\ Alone(t) /\ UNCHANGED behind
  BY FinishSolo DEF Commit, Leave
<1>2. CASE UNCHANGED tables
  BY <1>1, <1>2, IndexQuiet DEF tables, Reindexing
<1>3. CASE ~UNCHANGED tables
  <2> DEFINE r == job[t].row
  <2>1. /\ mangas' = [mangas EXCEPT ![r].src = job[t].src]
        /\ fts' = (fts \ DocumentsOf(r, fts)) \cup DocumentsOf(r, Documents(mangas'))
    BY <1>3, CommitWrites
  <2>2. \A q \in Rows : q # r => mangas'[q] = mangas[q]
    BY <2>1 DEF TypeInv, TypeOK
  <2> HIDE DEF r
  <2>3. \A d : d[1] # r => (d \in Documents(mangas') <=> d \in Documents(mangas))
    BY <2>2, DocumentIs
  <2>4. \A d \in fts' : d \in Documents(mangas') \/ (d \in fts /\ d[1] # r)
    BY <2>1 DEF DocumentsOf
  <2>5. \A d \in Documents(mangas') : d \in fts' \/ (d[1] # r /\ d \notin fts)
    BY <2>1 DEF DocumentsOf
  <2>6. \A d : ~OwesStale(t, d) /\ ~OwesMissing(t, d)
    BY <1>1 DEF OwesStale, OwesMissing
  <2>7. StaleSettled(t)
    BY <2>3, <2>4, <2>6 DEF StaleSettled
  <2>8. MissingSettled(t)
    BY <2>3, <2>5, <2>6 DEF MissingSettled
  <2> QED BY <1>1, <2>7, <2>8, IndexStep
<1> QED BY <1>2, <1>3

LEMMA ToggleIndex ==
  ASSUME TypeInv, IndexInv, NEW t \in Threads, ToggleLibrary(t)
  PROVE  IndexInv'
<1> DEFINE r == job[t].row
<1>1. Alone(t) /\ pc[t] = "flip" /\ pc'[t] = "unindex" /\ job'[t] = job[t] /\ UNCHANGED <<fts, behind>>
  BY StepSolo DEF ToggleLibrary
<1>2. \A q \in Rows : q # r => mangas'[q] = mangas[q]
  BY DEF ToggleLibrary, TypeInv, TypeOK
<1>3. \A d : d[1] # r => (d \in Documents(mangas') <=> d \in Documents(mangas))
  BY <1>2, DocumentIs
<1>4. \A d : ~OwesStale(t, d) /\ ~OwesMissing(t, d)
  BY <1>1 DEF OwesStale, OwesMissing
<1>5. \A d : d[1] = r => OwesStale(t, d)' /\ OwesMissing(t, d)'
  BY <1>1 DEF OwesStale, OwesMissing
<1> HIDE DEF r
<1>6. StaleSettled(t)
  BY <1>1, <1>3, <1>4, <1>5 DEF StaleSettled
<1>7. MissingSettled(t)
  BY <1>1, <1>3, <1>4, <1>5 DEF MissingSettled
<1> QED BY <1>1, <1>6, <1>7, IndexStep

LEMMA UnindexIndex ==
  ASSUME TypeInv, IndexInv, NEW t \in Threads, Unindex(t)
  PROVE  IndexInv'
<1>1. /\ Alone(t) /\ pc[t] = "unindex" /\ pc'[t] = "index" /\ job'[t] = job[t]
      /\ UNCHANGED <<mangas, behind>> /\ fts' = fts \ DocumentsOf(job[t].row, fts)
  BY StepSolo DEF Unindex, history
<1>2. \A d \in fts' : d \in fts /\ ~OwesStale(t, d)
  BY <1>1 DEF DocumentsOf, OwesStale
<1>3. \A d : OwesMissing(t, d)' <=> job[t].row = d[1]
  BY <1>1 DEF OwesMissing
<1>4. \A d : OwesMissing(t, d) <=> job[t].row = d[1]
  BY <1>1 DEF OwesMissing
<1>5. \A d \in fts : d \in fts' \/ d[1] = job[t].row
  BY <1>1 DEF DocumentsOf
<1>6. StaleSettled(t)
  BY <1>1, <1>2 DEF StaleSettled
<1>7. MissingSettled(t)
  BY <1>1, <1>3, <1>4, <1>5 DEF MissingSettled
<1> QED BY <1>1, <1>6, <1>7, IndexStep

LEMMA MaintainIndex ==
  ASSUME TypeInv, IndexInv, NEW t \in Threads, Maintain(t)
  PROVE  IndexInv'
<1>1. CASE PassBegin(t)
  BY <1>1, BeginIndex
<1>2. CASE Purge(t)
  BY <1>2, StepSolo, IndexQuiet DEF Purge, history, Reindexing
<1>3. CASE Drop(t)
  <2>1. \A r \in Rows : mangas'[r].lib <=> mangas[r].lib
    BY <1>3 DEF Drop, NoRow
  <2>2. \A r \in Rows : mangas[r].lib => mangas'[r].src = mangas[r].src
    BY <1>3 DEF Drop
  <2>3. \A d : d \in Documents(mangas') <=> d \in Documents(mangas)
    BY <2>1, <2>2, DocumentIs
  <2>4. Documents(mangas') = Documents(mangas)
    BY <2>3
  <2>5. Alone(t) /\ pc[t] = "drop" /\ UNCHANGED <<fts, behind>>
    BY <1>3, StepSolo DEF Drop, history
  <2> QED BY <2>4, <2>5, IndexQuiet DEF Reindexing
<1>4. CASE Sweep(t)
  <2>1. /\ Alone(t) /\ pc[t] = "sweep" /\ UNCHANGED <<mangas, behind>>
        /\ fts' = {d \in fts : Present(d[1])}
    BY <1>4, StepSolo DEF Sweep, history
  <2>2. \A d : ~OwesStale(t, d) /\ ~OwesMissing(t, d)
    BY <2>1 DEF OwesStale, OwesMissing
  <2>3. \A d \in Documents(mangas) : Present(d[1])
    <3> SUFFICES ASSUME NEW d \in Documents(mangas) PROVE Present(d[1])
      OBVIOUS
    <3> QED BY DocumentIs, LibraryAssumption DEF Present
  <2>4. StaleSettled(t)
    BY <2>1, <2>2 DEF StaleSettled
  <2>5. MissingSettled(t)
    BY <2>1, <2>2, <2>3 DEF MissingSettled
  <2> QED BY <2>1, <2>4, <2>5, IndexStep
<1>5. CASE Check(t)
  <2>1. CASE fts = Documents(mangas)
    BY <1>5, <2>1 DEF Check, tables, IndexInv
  <2>2. CASE Goto(t, "wipe") /\ UNCHANGED <<job, behind>>
    <3>1. Alone(t)
      BY <2>2 DEF Goto, Alone, TypeInv, ThreadsTyped
    <3> QED BY <1>5, <2>2, <3>1, IndexQuiet DEF Check, tables, Reindexing
  <2> QED BY <1>5, <2>1, <2>2 DEF Check
<1>6. CASE Wipe(t)
  <2>1. /\ Alone(t) /\ pc[t] = "wipe" /\ pc'[t] = "rebuild" /\ UNCHANGED <<mangas, behind>> /\ fts' = {}
    BY <1>6, StepSolo DEF Wipe, history
  <2>2. \A d : OwesMissing(t, d)'
    BY <2>1 DEF OwesMissing
  <2>3. StaleSettled(t)
    BY <2>1 DEF StaleSettled
  <2>4. MissingSettled(t)
    BY <2>2 DEF MissingSettled
  <2> QED BY <2>1, <2>3, <2>4, IndexStep
<1>7. CASE Rebuild(t)
  <2>1. /\ Finish(t) /\ pc[t] = "rebuild" /\ UNCHANGED mangas
        /\ fts' = fts \cup Documents(mangas)
        /\ behind' = (behind /\ fts' # Documents(mangas))
    BY <1>7 DEF Rebuild, PassEnd
  <2>2. CASE fts' = Documents(mangas)
    BY <2>1, <2>2 DEF IndexInv
  <2>3. CASE fts' # Documents(mangas)
    <3>1. ~behind' => ~behind
      BY <2>1, <2>3
    <3>2. \A d : ~OwesStale(t, d)
      BY <2>1 DEF OwesStale
    <3>3. StaleSettled(t)
      BY <2>1, <3>2 DEF StaleSettled
    <3>4. MissingSettled(t)
      BY <2>1 DEF MissingSettled
    <3> QED BY <2>1, <3>1, <3>3, <3>4, FinishSolo, IndexStep
  <2> QED BY <2>2, <2>3
<1> QED BY <1>1, <1>2, <1>3, <1>4, <1>5, <1>6, <1>7 DEF Maintain

LEMMA FaultIndex ==
  ASSUME TypeInv, IndexInv, (\E t \in Threads : Fails(t)) \/ Crash
  PROVE  IndexInv'
<1>1. ASSUME NEW t \in Threads, Fails(t) PROVE IndexInv'
  <2>1. UNCHANGED <<mangas, fts>> /\ behind' = (behind \/ pc[t] \in Reindexing)
    BY <1>1 DEF Fails, tables
  <2>2. CASE pc[t] \in Reindexing
    BY <2>1, <2>2 DEF IndexInv
  <2>3. CASE pc[t] \notin Reindexing
    <3>1. Alone(t)
      <4>1. CASE Finish(t)
        BY <4>1, FinishSolo
      <4>2. CASE ~Finish(t)
        <5>1. \E k, l : Step(t, k, l)
          BY <1>1, <4>2 DEF Fails, PassEnd
        <5> QED BY <5>1, StepSolo
      <4> QED BY <4>1, <4>2
    <3>2. ~behind' => ~behind
      BY <2>1
    <3> QED BY <2>1, <2>3, <3>1, <3>2, IndexQuiet
  <2> QED BY <2>2, <2>3
<1>2. CASE Crash
  <2>1. UNCHANGED <<mangas, fts>> /\ behind' = (behind \/ \E t \in Threads : pc[t] \in Reindexing)
    BY <1>2 DEF Crash, tables
  <2>2. \A t \in Threads : \A d : OwesStale(t, d) \/ OwesMissing(t, d) => pc[t] \in Reindexing
    BY DEF OwesStale, OwesMissing, Reindexing
  <2>3. ~behind' => fts = Documents(mangas)
    BY <2>1, <2>2 DEF IndexInv
  <2> QED BY <2>1, <2>3 DEF IndexInv
<1> QED BY <1>1, <1>2

LEMMA StepsIndex == TypeInv /\ IndexInv /\ [Next]_vars => IndexInv'
<1> SUFFICES ASSUME TypeInv, IndexInv, [Next]_vars PROVE IndexInv'
  OBVIOUS
<1>1. CASE UNCHANGED vars
  BY <1>1 DEF vars, tables, history, IndexInv, OwesStale, OwesMissing
<1>2. ASSUME NEW t \in Threads, Sync(t) \/ Refetch(t) PROVE IndexInv'
  <2>1. CASE SyncBegin(t) \/ DetailsBegin(t) \/ Refetch(t)
    BY <2>1, BeginIndex
  <2>2. CASE Upsert(t) \/ SelectId(t) \/ Index(t)
    BY <2>2, UpsertIndex, SelectIndex, InsertIndex
  <2>3. CASE Member(t) \/ UpsertChapter(t) \/ PruneSelect(t) \/ PruneDelete(t)
    <3>1. UNCHANGED <<mangas, fts, behind>> /\ pc[t] \in {"member", "chapters", "prune"}
      BY <2>3 DEF Member, UpsertChapter, PruneSelect, PruneDelete, Leave, tables, history
    <3>2. Alone(t)
      <4>1. CASE Finish(t)
        BY <4>1, FinishSolo
      <4>2. CASE ~Finish(t)
        BY <2>3, <4>2
           DEF Member, UpsertChapter, PruneSelect, PruneDelete, Leave, Goto, Alone, TypeInv, ThreadsTyped
      <4> QED BY <4>1, <4>2
    <3> QED BY <3>1, <3>2, IndexQuiet DEF Reindexing
  <2> QED BY <1>2, <2>1, <2>2, <2>3 DEF Sync
<1>3. ASSUME NEW t \in Threads, Migrate(t) PROVE IndexInv'
  <2>1. CASE ReadSourceIDs(t)
    <3>1. Alone(t)
      BY <2>1 DEF ReadSourceIDs, Goto, Alone, TypeInv, ThreadsTyped
    <3> QED BY <2>1, <3>1, IndexQuiet DEF ReadSourceIDs, Reindexing, tables, history
  <2> QED BY <1>3, <2>1, BeginIndex, CommitIndex DEF Migrate
<1>4. ASSUME NEW t \in Threads, Reader(t) PROVE IndexInv'
  <2>1. CASE Touch(t)
    BY <2>1, FinishSolo, IndexQuiet DEF Touch, Leave, Reindexing
  <2> QED BY <1>4, <2>1, BeginIndex, ToggleIndex, UnindexIndex DEF Reader
<1> QED BY <1>1, <1>2, <1>3, <1>4, MaintainIndex, FaultIndex DEF Next

\* While nobody is between a write and its re-index and none was cut off since
\* the last pass that looked, library_fts holds the entries of the library under
\* their present source, and nothing else (fts.go).
THEOREM IndexFollowsLibrary == Spec => []IndexAgrees
<1>1. Init => IndexInv
  BY DEF Init, IndexInv
<1>2. IndexInv => IndexAgrees
  <2> SUFFICES ASSUME IndexInv, ~behind, \A t \in Threads : pc[t] \notin Reindexing
               PROVE  fts = Documents(mangas)
    BY DEF IndexAgrees
  <2>1. \A t \in Threads : \A d : ~OwesStale(t, d) /\ ~OwesMissing(t, d)
    BY DEF OwesStale, OwesMissing, Reindexing
  <2> QED BY <2>1 DEF IndexInv
<1> QED BY Typed, <1>1, StepsIndex, <1>2, PTL DEF Spec
=============================================================================
