----------------------------- MODULE SpotDatasets -----------------------------
(***************************************************************************)
(* scripts/spotfsm/datasets.py as replay.py uses it: runs of the program   *)
(* that share one directory each look for a price archive, download it if  *)
(* it is not there, and read it through a zstd child with two pipes.  The  *)
(* download is written in place, a chunk at a time, by a handle with a     *)
(* position of its own; what is found on disk is taken for the archive.    *)
(*                                                                         *)
(* A chunk holds one row.  zstd notices that a file ends inside a frame or *)
(* has a hole; an end between two frames it cannot tell from the last.     *)
(***************************************************************************)
EXTENDS Integers, SequencesExt

CONSTANTS
  Runs,             \* of the program
  Archives,         \* the rows of what is published, and where a frame ends
  Jobs,             \* what each run wants: the series of a key, or the top_n series
  StdoutCapacity, StderrCapacity,   \* of the two pipes, in lines
  Nothing

ASSUME ArchivesAssumption ==
  \A a \in Archives :
    /\ Len(a.rows) \in Nat
    /\ a.frame_ends \subseteq 1 .. Len(a.rows)
    /\ Len(a.rows) \in a.frame_ends

ASSUME PipesAssumption == {StdoutCapacity, StderrCapacity} \subseteq Nat \ {0}

VARIABLES
  archive, job,
  exists, file,    \* the file: whether each chunk holds what was published
  phase,           \* of a run
  written,         \* position of the handle it downloads with
  child,           \* its zstd: none, running, blocked on stderr, ok or failed
  sent, taken,     \* rows put into and taken from the stdout pipe
  stderr,          \* lines in the stderr pipe
  answer

input    == <<archive, job>>
disk     == <<exists, file>>
pipes    == <<child, sent, taken, stderr>>
datasetsVars     == <<input, disk, phase, written, pipes, answer>>

size == Len(archive.rows)

-----------------------------------------------------------------------------
(* What a run makes of the rows it has read.  A row with too few fields is *)
(* skipped; one whose price or time cannot be read ends the run.           *)

Records(rows) == SelectSeq(rows, LAMBDA row : row.fields = 5)

Series(rows, key) == SelectSeq(Records(rows), LAMBDA row : row.key = key)

Lesser(a, b) == IF a < b THEN a ELSE b
Greater(a, b) == IF a > b THEN a ELSE b

Counted(stats, row) ==
  IF row.key \in DOMAIN stats
  THEN [stats EXCEPT ![row.key] = [@ EXCEPT !.sample_count = @ + 1,
                                            !.min_price = Lesser(@, row.price),
                                            !.max_price = Greater(@, row.price)]]
  ELSE (row.key :> [key |-> row.key, place |-> Cardinality(DOMAIN stats), sample_count |-> 1,
                    min_price |-> row.price, max_price |-> row.price]) @@ stats

Stats(rows, product) ==
  FoldLeft(Counted, << >>, SelectSeq(Records(rows), LAMBDA row : row.product = product))

(* relative_range, sample_count and max_price, the larger first; the sort  *)
(* leaves equals in the order of the dictionary.                           *)
Ahead(a, b) ==
  LET wide == (a.max_price - a.min_price) * b.min_price
      other == (b.max_price - b.min_price) * a.min_price
  IN \/ wide > other
     \/ wide = other /\ a.sample_count > b.sample_count
     \/ wide = other /\ a.sample_count = b.sample_count /\ a.max_price > b.max_price
     \/ wide = other /\ a.sample_count = b.sample_count /\ a.max_price = b.max_price
        /\ a.place < b.place

TopSeries(rows, want) ==
  LET stats == Stats(rows, want.product)
      candidates == {c \in {stats[key] : key \in DOMAIN stats} :
                       c.sample_count >= want.min_points /\ c.min_price > 0}
      sorted == SetToSortSeq(candidates, Ahead)
  IN SubSeq(sorted, 1, Lesser(want.top_n, Len(sorted)))

(* A series without rows is an error.                                      *)
Answer(want, rows) ==
  IF want.kind = "top" THEN TopSeries(rows, want)
  ELSE IF Series(rows, want.key) = << >> THEN Nothing ELSE Series(rows, want.key)

-----------------------------------------------------------------------------
(* download_zenodo_file                                                    *)

GoTo(p, there) == phase' = [phase EXCEPT ![p] = there]

StartReading(p) ==
  /\ GoTo(p, "reading")
  /\ child' = [child EXCEPT ![p] = "running"]
  /\ UNCHANGED <<input, written, sent, taken, stderr, answer>>

FindFile(p) == phase[p] = "start" /\ exists /\ StartReading(p) /\ UNCHANGED disk

(* Mutated form: overwrite is the default.                                 *)
MissFile_Overwrite(p) ==
  /\ phase[p] = "start"
  /\ GoTo(p, "request")
  /\ UNCHANGED <<input, disk, written, pipes, answer>>

MissFile(p) ==
  /\ phase[p] = "start"
  /\ ~exists
  /\ GoTo(p, "request")
  /\ UNCHANGED <<input, disk, written, pipes, answer>>

RequestFails(p) ==
  /\ phase[p] = "request"
  /\ GoTo(p, "failed")
  /\ UNCHANGED <<input, disk, written, pipes, answer>>

(* open("wb") leaves nothing of what another run has written meanwhile.    *)
OpenFile(p) ==
  /\ phase[p] = "request"
  /\ exists' = TRUE
  /\ file' = << >>
  /\ GoTo(p, "writing")
  /\ UNCHANGED <<input, written, pipes, answer>>

(* Behind the end of the file the handle leaves a hole.                    *)
WriteChunk(p) ==
  LET here == written[p] + 1
  IN /\ phase[p] = "writing"
     /\ here <= size
     /\ file' = [i \in 1 .. Greater(Len(file), here) |-> i = here \/ (i <= Len(file) /\ file[i])]
     /\ written' = [written EXCEPT ![p] = here]
     /\ UNCHANGED <<input, exists, phase, pipes, answer>>

(* The end of the body, which may come early without an error.             *)
EndBody(p) == phase[p] = "writing" /\ StartReading(p) /\ UNCHANGED disk

BodyBreaks(p) ==
  /\ phase[p] = "writing"
  /\ written[p] < size
  /\ GoTo(p, "failed")
  /\ UNCHANGED <<input, disk, written, pipes, answer>>

-----------------------------------------------------------------------------
(* zstd -dc                                                                *)

AtChunk(p) == child[p] = "running" /\ sent[p] < Len(file) /\ file[sent[p] + 1]

Exits(p, code) == child' = [child EXCEPT ![p] = code]

SendRow(p) ==
  /\ phase[p] = "reading"
  /\ AtChunk(p)
  /\ sent[p] - taken[p] < StdoutCapacity
  /\ sent' = [sent EXCEPT ![p] = @ + 1]
  /\ UNCHANGED <<input, disk, phase, written, child, taken, stderr, answer>>

(* The parent has closed stdout.                                           *)
PipeBreaks(p) ==
  /\ phase[p] = "raising"
  /\ AtChunk(p)
  /\ Exits(p, "failed")
  /\ UNCHANGED <<input, disk, phase, written, sent, taken, stderr, answer>>

(* A progress line, between two rows.                                      *)
Report(p) ==
  /\ phase[p] = "reading"
  /\ AtChunk(p)
  /\ stderr[p] < StderrCapacity
  /\ stderr' = [stderr EXCEPT ![p] = @ + 1]
  /\ UNCHANGED <<input, disk, phase, written, child, sent, taken, answer>>

ReportBlocks(p) ==
  /\ phase[p] = "reading"
  /\ child[p] = "running"
  /\ stderr[p] = StderrCapacity
  /\ Exits(p, "blocked")
  /\ UNCHANGED <<input, disk, phase, written, sent, taken, stderr, answer>>

EndOfFrames(p) ==
  /\ phase[p] \in {"reading", "raising"}
  /\ child[p] = "running"
  /\ sent[p] >= Len(file)
  /\ sent[p] \in archive.frame_ends
  /\ Exits(p, "ok")
  /\ UNCHANGED <<input, disk, phase, written, sent, taken, stderr, answer>>

(* The file ends inside a frame, or zeros follow; zstd says so and exits.  *)
Damage(p) ==
  /\ phase[p] \in {"reading", "raising"}
  /\ child[p] = "running"
  /\ ~AtChunk(p)
  /\ sent[p] >= Len(file) => sent[p] \notin archive.frame_ends
  /\ stderr[p] < StderrCapacity
  /\ stderr' = [stderr EXCEPT ![p] = @ + 1]
  /\ Exits(p, "failed")
  /\ UNCHANGED <<input, disk, phase, written, sent, taken, answer>>

-----------------------------------------------------------------------------
(* _iter_zenodo_rows                                                       *)

Unreadable(row) == row.fields = 5 /\ ~row.readable

(* Mutated form: wait for the child before reading from it.                *)
TakeRow_AfterExit(p) ==
  /\ phase[p] = "reading"
  /\ child[p] \in {"ok", "failed"}
  /\ taken[p] < sent[p]
  /\ taken' = [taken EXCEPT ![p] = @ + 1]
  /\ GoTo(p, IF Unreadable(archive.rows[taken'[p]]) THEN "raising" ELSE "reading")
  /\ UNCHANGED <<input, disk, written, child, sent, stderr, answer>>

TakeRow(p) ==
  /\ phase[p] = "reading"
  /\ taken[p] < sent[p]
  /\ taken' = [taken EXCEPT ![p] = @ + 1]
  /\ GoTo(p, IF Unreadable(archive.rows[taken'[p]]) THEN "raising" ELSE "reading")
  /\ UNCHANGED <<input, disk, written, child, sent, stderr, answer>>

EndOfRows(p) ==
  /\ phase[p] = "reading"
  /\ taken[p] = sent[p]
  /\ child[p] \in {"ok", "failed"}
  /\ GoTo(p, "closing")
  /\ UNCHANGED <<input, disk, written, pipes, answer>>

ReadStderr(p) ==
  /\ phase[p] \in {"closing", "raising"}
  /\ stderr[p] > 0
  /\ stderr' = [stderr EXCEPT ![p] = 0]
  /\ child' = [child EXCEPT ![p] = IF @ = "blocked" THEN "running" ELSE @]
  /\ UNCHANGED <<input, disk, phase, written, sent, taken, answer>>

(* Mutated form: the return code of zstd is not looked at.                 *)
Succeeds_AnyCode(p) == phase[p] = "closing"

Succeeds(p) == phase[p] = "closing" /\ child[p] = "ok"

(* stderr is at its end and the child has been waited for.                 *)
Conclude(p) ==
  LET found == Answer(job[p], SubSeq(archive.rows, 1, taken[p]))
  IN /\ phase[p] \in {"closing", "raising"}
     /\ stderr[p] = 0
     /\ child[p] \in {"ok", "failed"}
     /\ answer' = [answer EXCEPT ![p] = IF Succeeds(p) THEN found ELSE Nothing]
     /\ GoTo(p, IF answer'[p] = Nothing THEN "failed" ELSE "answered")
     /\ UNCHANGED <<input, disk, written, pipes>>

Crash(p) ==
  /\ phase[p] \notin {"answered", "failed"}
  /\ GoTo(p, "failed")
  /\ UNCHANGED <<input, disk, written, pipes, answer>>

-----------------------------------------------------------------------------
DatasetsInit ==
  /\ archive \in Archives
  /\ job \in Jobs
  /\ exists = FALSE
  /\ file = << >>
  /\ phase = [p \in Runs |-> "start"]
  /\ child = [p \in Runs |-> "none"]
  /\ written = [p \in Runs |-> 0]
  /\ sent = [p \in Runs |-> 0]
  /\ taken = [p \in Runs |-> 0]
  /\ stderr = [p \in Runs |-> 0]
  /\ answer = [p \in Runs |-> Nothing]

Download(p) ==
  \/ FindFile(p) \/ MissFile(p) \/ RequestFails(p) \/ OpenFile(p)
  \/ WriteChunk(p) \/ EndBody(p) \/ BodyBreaks(p)

Zstd(p) == SendRow(p) \/ PipeBreaks(p) \/ ReportBlocks(p) \/ EndOfFrames(p) \/ Damage(p)

Reader(p) == TakeRow(p) \/ EndOfRows(p) \/ ReadStderr(p) \/ Conclude(p)

DatasetsNext == \E p \in Runs : Download(p) \/ Zstd(p) \/ Report(p) \/ Reader(p) \/ Crash(p)

DatasetsSpec == DatasetsInit /\ [][DatasetsNext]_datasetsVars

(* Both processes of a load keep running; nothing forces zstd to report.   *)
Fairness == \A p \in Runs : WF_datasetsVars(Zstd(p)) /\ WF_datasetsVars(Reader(p))

FairDatasetsSpec == DatasetsSpec /\ Fairness

-----------------------------------------------------------------------------
(* Whatever other runs do to the file meanwhile, a run that answers has    *)
(* read the archive up to the end of a frame, which of an archive of one   *)
(* frame is all of it: what is missing or overwritten makes zstd fail, and *)
(* then the rows that did come are dropped.                                *)
AnswersAreWhole ==
  \A p \in Runs :
    phase[p] = "answered" =>
      \E n \in archive.frame_ends : answer[p] = Answer(job[p], SubSeq(archive.rows, 1, n))

Whole == file = [i \in 1 .. size |-> TRUE]

(* Once the archive is there as a whole, and nobody is about to download   *)
(* it on the strength of a look taken before, it stays so for ever: neither*)
(* later runs nor a download that still goes on, at whatever position, nor *)
(* the crash of one, damages it.                                           *)
Settled == Whole /\ \A p \in Runs : phase[p] # "request"

ArchiveSurvives == [][Settled => Settled']_datasetsVars

(* A load ends, with an answer or an error, unless zstd hangs on a stderr  *)
(* pipe that is full, which its parent only reads when it has exited.      *)
LoadsEnd ==
  \A p \in Runs :
    phase[p] = "reading" ~>
      \/ phase[p] \in {"answered", "failed"}
      \/ child[p] = "blocked" /\ stderr[p] = StderrCapacity
=============================================================================
