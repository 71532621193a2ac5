----------------------------- MODULE FileManager -----------------------------
(***************************************************************************)
(* src/src/src/file_manager.cpp on Windows, driven by the C bridge         *)
(* (src/cbridge/speckit_logger.cpp): processes with the same base name     *)
(* share a directory and a named mutex; each creates a logger, logs lines, *)
(* rotates its file when it is full, destroys the logger, or crashes, and  *)
(* may start again.  One action is one call to the operating system with   *)
(* the process-local code around it.                                       *)
(*                                                                         *)
(* External, from how the code uses them: a named mutex lives while some   *)
(* process has a handle to it; _wfopen_s(.., "a") shares the file with     *)
(* nobody, so opening or renaming a file another process has open fails;   *)
(* rename replaces an existing target; a process that dies leaves neither  *)
(* file nor mutex handles, and stdio had written any prefix of its buffer. *)
(***************************************************************************)
EXTENDS Integers, Sequences, FiniteSets, SequencesExt

CONSTANTS Processes,        \* the process ids
          Lengths,          \* the lengths of the lines logged
          MaxSize,          \* max_size_
          FlushSize,        \* the 1MB of ShouldFlushToFile
          RetentionCount,   \* retention_count_
          MaxLines          \* bound: how many lines are logged in all

ASSUME FileProcessAssumption == IsFiniteSet(Processes)
ASSUME FileLengthAssumption == Lengths \subseteq Nat \ {0}
ASSUME FileSizeAssumption ==
    {MaxSize, FlushSize, RetentionCount, MaxLines} \subseteq Nat \ {0}

VARIABLES
  pc,           \* where each process is in the life of its FileManager
  mutex,        \* the processes that have a handle to the named mutex
  name,         \* current_file_name_
  open,         \* file_handle_ # nullptr (it is then name's)
  size,         \* current_file_size_
  buffered,     \* the lines in the FILE's buffer, not yet the system's
  disk,         \* the files that exist, with their lines
  reading,      \* the files somebody who is no logger has open to read
  accepted,     \* history: the lines Write returned true for
  lost,         \* history: the lines that were in a buffer at a crash
  discarded,    \* history: the lines of files that were replaced or deleted
  sinceFlush,   \* history: bytes each process wrote since its last flush
  strayed       \* history: a rotation has renamed a base_PID.log

fileVars == <<name, open, size, buffered>>
history == <<accepted, lost, discarded, sinceFlush, strayed>>
vars == <<pc, mutex, fileVars, disk, reading, history>>

\* Paths.  A directory listing compared by file name loses the directory.
Path(kind, id) == [dir |-> "logs", kind |-> kind, id |-> id]
Filename(path) == [path EXCEPT !.dir = ""]
Base == Path("base", 0)
Own(p) == Path("own", p)
History(k) == Path("history", k)
FileNames ==
    {Base} \cup {Own(p) : p \in Processes} \cup {History(k) : k \in 1 .. MaxLines}

LinesOf(d) == UNION {Range(d[f]) : f \in DOMAIN d}
Bytes(lines) == SumFunction([i \in DOMAIN lines |-> lines[i].length])

Init ==
    /\ pc = [p \in Processes |-> "off"]
    /\ mutex = {}
    /\ name = [p \in Processes |-> Base]
    /\ open = [p \in Processes |-> FALSE]
    /\ size = [p \in Processes |-> 0]
    /\ buffered = [p \in Processes |-> <<>>]
    /\ disk = [f \in {} |-> <<>>] /\ reading = {}
    /\ accepted = <<>> /\ lost = {} /\ discarded = {}
    /\ sinceFlush = [p \in Processes |-> 0] /\ strayed = FALSE

Goto(p, here, there) ==
    /\ pc[p] = here
    /\ pc' = [pc EXCEPT ![p] = there]

-------------------------------------------------------------------------------
(* Helpers of the class.                                                   *)

\* Mutant: the process id is left out of the name.
GenerateFileNameShared(p, first_process) ==
    IF first_process THEN Base ELSE Path("own", 0)

GenerateFileName(p, first_process) == IF first_process THEN Base ELSE Own(p)

\* _wfopen_s(current_file_name_, "a").
CanOpen(p, f) ==
    f \notin reading /\ \A q \in Processes \ {p} : ~(open[q] /\ name[q] = f)

\* OpenLogFile, appending to or creating f; on failure the handle is null.
OpenLogFile(p, f) ==
    /\ name' = [name EXCEPT ![p] = f]
    /\ open' = [open EXCEPT ![p] = CanOpen(p, f)]
    /\ disk' = IF CanOpen(p, f) /\ f \notin DOMAIN disk
                 THEN [g \in DOMAIN disk \cup {f} |-> IF g = f THEN <<>> ELSE disk[g]]
                 ELSE disk

\* fflush and fclose hand the buffer to the system.
WriteOut(p, lines) ==
    disk' = IF open[p] THEN [disk EXCEPT ![name[p]] = @ \o lines] ELSE disk

\* Mutant: file_handle_ is not set to null.
CloseCurrentFileDangling(p) ==
    /\ WriteOut(p, buffered[p])
    /\ buffered' = [buffered EXCEPT ![p] = <<>>]
    /\ sinceFlush' = [sinceFlush EXCEPT ![p] = 0]
    /\ UNCHANGED open

CloseCurrentFile(p) ==
    /\ WriteOut(p, buffered[p])
    /\ open' = [open EXCEPT ![p] = FALSE]
    /\ buffered' = [buffered EXCEPT ![p] = <<>>]
    /\ sinceFlush' = [sinceFlush EXCEPT ![p] = 0]

\* The listing's bare file names are matched against base_name_, which
\* Initialize has made absolute.
IsHistoricalLogFile(filename) ==
    filename.dir = Base.dir /\ filename.kind = "history"

GetHistoricalFiles(files) == {f \in files : IsHistoricalLogFile(Filename(f))}

CalculateNextSequenceNumber(files) ==
    1 + Max({0} \cup {f.id : f \in GetHistoricalFiles(files)})

\* All but the RetentionCount newest historical files go.
DeleteOldestFiles(d) ==
    LET Newer(f) == {g \in GetHistoricalFiles(DOMAIN d) : g.id > f.id}
        Oldest == {f \in GetHistoricalFiles(DOMAIN d) :
                     Cardinality(Newer(f)) >= RetentionCount}
    IN  [f \in DOMAIN d \ Oldest |-> d[f]]

\* Mutant: an existing target stays and the renamed file is dropped.
RenamedBehind(d, old, new) ==
    [f \in (DOMAIN d \cup {new}) \ {old} |-> IF f = new /\ new \notin DOMAIN d THEN d[old] ELSE d[f]]

Renamed(d, old, new) ==
    [f \in (DOMAIN d \cup {new}) \ {old} |-> IF f = new THEN d[old] ELSE d[f]]

-------------------------------------------------------------------------------
(* speckit_logger_create: FileManager(base), Initialize(pid).              *)

\* CreateMutexW makes the mutex: this is the first process.
InitializeFirst(p) ==
    /\ mutex = {}
    /\ Goto(p, "off", "open")
    /\ mutex' = {p}
    /\ name' = [name EXCEPT ![p] = GenerateFileName(p, TRUE)]
    /\ UNCHANGED <<open, size, buffered, disk, history>>

\* ERROR_ALREADY_EXISTS, with a handle that CloseHandle has yet to close.
InitializeProbe(p) ==
    /\ mutex # {}
    /\ Goto(p, "off", "probe")
    /\ mutex' = mutex \cup {p}
    /\ name' = [name EXCEPT ![p] = GenerateFileName(p, FALSE)]
    /\ UNCHANGED <<open, size, buffered, disk, history>>

InitializeCloseProbe(p) ==
    /\ Goto(p, "probe", "open")
    /\ mutex' = mutex \ {p}
    /\ UNCHANGED <<fileVars, disk, history>>

\* Mutant: the size of a file that exists already is not read.
InitializeOpenUnsized(p) ==
    /\ Goto(p, "open", "ready")
    /\ OpenLogFile(p, name[p])
    /\ size' = [size EXCEPT ![p] = 0]
    /\ UNCHANGED <<mutex, buffered, history>>

\* UpdateCurrentFileSize reads a file this process alone has open.  The bridge
\* ignores Initialize's result.
InitializeOpen(p) ==
    /\ Goto(p, "open", "ready")
    /\ OpenLogFile(p, name[p])
    /\ size' = [size EXCEPT ![p] = IF open'[p] THEN Bytes(disk'[name[p]]) ELSE 0]
    /\ UNCHANGED <<mutex, buffered, history>>

-------------------------------------------------------------------------------
(* speckit_logger_log: Write, and Rotate when NeedsRotation.               *)

\* Mutant: the file is rotated when it has grown past max_size_.
NeedsRotationLate(p) == size'[p] > MaxSize

NeedsRotation(p) == size'[p] >= MaxSize

\* Once the handle is null, Write returns false and nothing changes.
Write(p, line) ==
    LET lines == Append(buffered[p], line)
        flush == (size[p] + line.length) % FlushSize = 0
    IN  /\ open[p]
        /\ size' = [size EXCEPT ![p] = @ + line.length]
        /\ WriteOut(p, IF flush THEN lines ELSE <<>>)
        /\ buffered' = [buffered EXCEPT ![p] = IF flush THEN <<>> ELSE lines]
        /\ sinceFlush' = [sinceFlush EXCEPT
             ![p] = IF flush THEN 0 ELSE @ + line.length]
        /\ accepted' = Append(accepted, line)

Log(p, length) ==
    /\ Len(accepted) < MaxLines
    /\ pc[p] = "ready"
    /\ Write(p, [by |-> p, n |-> Len(accepted) + 1, length |-> length])
    /\ pc' = [pc EXCEPT ![p] = IF NeedsRotation(p) THEN "rotate" ELSE "ready"]
    /\ UNCHANGED <<mutex, name, open, lost, discarded, strayed>>

\* Flush(), which emergencyFlush calls.
Flush(p) ==
    /\ pc[p] = "ready" /\ buffered[p] # <<>>
    /\ WriteOut(p, buffered[p])
    /\ buffered' = [buffered EXCEPT ![p] = <<>>]
    /\ sinceFlush' = [sinceFlush EXCEPT ![p] = 0]
    /\ UNCHANGED <<pc, mutex, name, open, size, accepted, lost, discarded, strayed>>

\* Mutant: the handle is dropped with its buffer.
RotateCloseUnwritten(p) ==
    /\ Goto(p, "rotate", "rename")
    /\ open' = [open EXCEPT ![p] = FALSE]
    /\ buffered' = [buffered EXCEPT ![p] = <<>>]
    /\ sinceFlush' = [sinceFlush EXCEPT ![p] = 0]
    /\ UNCHANGED <<mutex, name, size, disk, accepted, lost, discarded, strayed>>

RotateClose(p) ==
    /\ Goto(p, "rotate", "rename")
    /\ CloseCurrentFile(p)
    /\ UNCHANGED <<mutex, name, size, accepted, lost, discarded, strayed>>

Target == History(CalculateNextSequenceNumber(DOMAIN disk))
CanRename(p) ==
    name[p] \in DOMAIN disk /\ CanOpen(p, name[p]) /\ CanOpen(p, Target)

\* The listings are empty whatever the directory holds, so it does not matter
\* that the code takes them in calls of their own.
RotateRename(p) ==
    /\ CanRename(p)
    /\ Goto(p, "rename", "reopen")
    /\ disk' = DeleteOldestFiles(Renamed(disk, name[p], Target))
    /\ discarded' = discarded \cup (LinesOf(disk) \ LinesOf(disk'))
    /\ strayed' = (strayed \/ name[p] # Base)
    /\ UNCHANGED <<mutex, fileVars, accepted, lost, sinceFlush>>

RotateRenameFails(p) ==
    /\ ~CanRename(p)
    /\ Goto(p, "rename", "ready")
    /\ UNCHANGED <<mutex, fileVars, disk, history>>

RotateReopen(p) ==
    /\ Goto(p, "reopen", "ready")
    /\ OpenLogFile(p, GenerateFileName(p, TRUE))
    /\ size' = [size EXCEPT ![p] = IF open'[p] THEN 0 ELSE @]
    /\ UNCHANGED <<mutex, buffered, history>>

-------------------------------------------------------------------------------
(* speckit_logger_destroy: ~FileManager; and the death of a process.       *)

\* Mutant: CleanupMutex comes first.
DestroyMutexFirst(p) ==
    /\ Goto(p, "ready", "cleanup")
    /\ mutex' = mutex \ {p}
    /\ UNCHANGED <<fileVars, disk, history>>

DestroyClose(p) ==
    /\ Goto(p, "ready", "cleanup")
    /\ CloseCurrentFile(p)
    /\ UNCHANGED <<mutex, name, size, accepted, lost, discarded, strayed>>

DestroyMutex(p) ==
    /\ Goto(p, "cleanup", "off")
    /\ mutex' = mutex \ {p}
    /\ name' = [name EXCEPT ![p] = Base]
    /\ open' = [open EXCEPT ![p] = FALSE]
    /\ size' = [size EXCEPT ![p] = 0]
    /\ buffered' = [buffered EXCEPT ![p] = <<>>]
    /\ UNCHANGED <<disk, history>>

Crash(p) ==
    /\ pc[p] # "off"
    /\ pc' = [pc EXCEPT ![p] = "off"]
    /\ mutex' = mutex \ {p}
    /\ \E k \in 0 .. Len(buffered[p]) :
         /\ WriteOut(p, SubSeq(buffered[p], 1, k))
         /\ lost' = lost \cup {buffered[p][i] : i \in k + 1 .. Len(buffered[p])}
    /\ name' = [name EXCEPT ![p] = Base]
    /\ open' = [open EXCEPT ![p] = FALSE]
    /\ size' = [size EXCEPT ![p] = 0]
    /\ buffered' = [buffered EXCEPT ![p] = <<>>]
    /\ sinceFlush' = [sinceFlush EXCEPT ![p] = 0]
    /\ UNCHANGED <<accepted, discarded, strayed>>

-------------------------------------------------------------------------------

Life(p) ==
    \/ InitializeFirst(p) \/ InitializeProbe(p)
    \/ InitializeCloseProbe(p) \/ InitializeOpen(p)
    \/ RotateClose(p) \/ RotateRename(p) \/ RotateRenameFails(p) \/ RotateReopen(p)
    \/ DestroyClose(p) \/ DestroyMutex(p) \/ Flush(p)
    \/ \E length \in Lengths : Log(p, length)

Next == (\E p \in Processes : Life(p) \/ Crash(p)) /\ UNCHANGED reading

Spec == Init /\ [][Next]_vars

-------------------------------------------------------------------------------
(* Properties.                                                             *)

Lines == [by : Processes, n : 1 .. MaxLines, length : Lengths]

\* Every variable has its type; a process without a FileManager holds nothing,
\* and a buffer belongs to an open file (the state between the calls above).
TypeOK ==
    /\ pc \in [Processes -> {"off", "probe", "open", "ready", "rotate", "rename",
                             "reopen", "cleanup"}]
    /\ mutex \subseteq Processes
    /\ name \in [Processes -> FileNames] /\ open \in [Processes -> BOOLEAN]
    /\ size \in [Processes -> Nat] /\ sinceFlush \in [Processes -> Nat]
    /\ DOMAIN disk \subseteq FileNames /\ disk \in [DOMAIN disk -> Seq(Lines)]
    /\ buffered \in [Processes -> Seq(Lines)] /\ accepted \in Seq(Lines)
    /\ lost \cup discarded \subseteq Lines
    /\ reading \subseteq FileNames /\ strayed \in BOOLEAN
    /\ \A p \in Processes :
         /\ open[p] => pc[p] \in {"ready", "rotate"} /\ name[p] \in DOMAIN disk
         /\ ~open[p] => buffered[p] = <<>>
         /\ pc[p] = "off" => p \notin mutex

\* Two loggers that live at the same time have different current files, so that
\* each process writes to its own file only (spec.md:38).  The mutex and the
\* process id in the name give each its file; a rotation of base_PID.log makes
\* base.log the current file of a process that is not the first.
OwnFile ==
    \A p, q \in Processes :
      p # q /\ pc[p] # "off" /\ pc[q] # "off" => name[p] # name[q]

\* As long as no base_PID.log has been rotated, OwnFile holds through concurrent
\* starts, closes, crashes and rotations of base.log.
OwnFileUntilStrayed == strayed \/ OwnFile

\* As long as no base_PID.log has been rotated, a logger has its file open between
\* two calls: neither Initialize nor Rotate leaves it with a null handle and
\* every later Write refused.  The file is closed before the mutex is released.
KeepsFile == \A p \in Processes : pc[p] = "ready" => strayed \/ open[p]

\* current_file_size_ is what the file and the buffer in front of it hold,
\* through restarts and rotations, as long as no base_PID.log has been rotated.
SizeIsExact ==
    \A p \in Processes :
      open[p] => strayed \/ size[p] = Bytes(disk[name[p]]) + Bytes(buffered[p])

\* Every accepted line is in one place and once: in a file, in the buffer of a
\* process, lost with a process that crashed, or in a file that rotation
\* replaced or deleted.  Closing, renaming and reopening neither drop nor
\* duplicate a line, whichever processes rotate at the same time.
AcceptedInOnePlace ==
    LET At(seq, line) == {i \in DOMAIN seq : seq[i] = line}
        Places(line) ==
            (UNION {{<<"disk", f, i>> : i \in At(disk[f], line)} : f \in DOMAIN disk})
            \cup (UNION {{<<"buffer", p, i>> : i \in At(buffered[p], line)} : p \in Processes})
            \cup {<<"lost">> : gone \in lost \cap {line}}
            \cup {<<"discarded">> : gone \in discarded \cap {line}}
    IN  \A line \in Range(accepted) : Cardinality(Places(line)) = 1

\* What rotation discards is older than every line in the historical files that
\* remain, whichever processes wrote and rotated base.log one after the other, as
\* long as no base_PID.log has been renamed (spec.md:149, FR-020: the oldest go).
HistoryIsNewest ==
    \/ strayed
    \/ \A gone \in discarded, f \in DOMAIN disk :
         f.kind = "history" => \A line \in Range(disk[f]) : line.n > gone.n

\* A rotated file leaves the disk only when RetentionCount newer ones are kept
\* (file_manager.h:60).  The code's listing is always empty, every rotation
\* renames to base.1.log, and the previous one is replaced.
HistoryIsRetained ==
    [][discarded' # discarded =>
         Cardinality({f \in DOMAIN disk' : f.kind = "history"}) >= RetentionCount]_vars

\* What a crash can lose, the buffer in front of a file, stays below max_size_ and
\* the line that crosses it: the flush in Write may never happen (ShouldFlushToFile
\* waits for an exact multiple of 1MB), but rotation closes the file.
LossIsBounded ==
    \A p \in Processes : \A length \in Lengths :
      (\A other \in Lengths : other <= length) => Bytes(buffered[p]) < MaxSize + length

\* The bytes a process has written since its last flush stay below the 1MB at
\* which the code flushes "to prevent data loss" (file_manager.cpp:317) and the
\* line that crosses it.  The test is size % 1MB == 0.
FlushedPeriodically ==
    \A p \in Processes : \A length \in Lengths :
      (\A other \in Lengths : other <= length) => sinceFlush[p] < FlushSize + length
===============================================================================
