------------------------------- MODULE Archive -------------------------------
(***************************************************************************)
(* src/src/src/archive.cpp beside the loggers of module FileManager: a     *)
(* thread of some process calls createArchive (speckit_logger_archive in   *)
(* the C bridge) while the loggers of all processes start, write, rotate,  *)
(* close and crash.  One action is one call to the file system or libzip.  *)
(*                                                                         *)
(* External: zip_file_add only notes the file's name; zip_close opens,     *)
(* copies and closes the files one after the other, fails when one of them *)
(* is gone or open for appending, and puts the archive in place at the end *)
(* only.  While it copies a file nobody can open it for appending, rename  *)
(* it or replace it.                                                       *)
(***************************************************************************)
EXTENDS FileManager

CONSTANT Archivers      \* the processes that archive

ASSUME ArchiversAssumption == Archivers \subseteq Processes

VARIABLES
  at,           \* where each archiver is in createArchive
  candidates,   \* the listed files it has yet to look at
  members,      \* the files added to the archive, in order
  content,      \* the lines copied from the first of them
  listed,       \* history: the lines on disk when it listed the directory
  whole,        \* history: the listing was not cut short by an error, and no
                \* listed line has left its file since
  shut          \* history: the processes whose logger could not open or rename
                \* a file because an archive was copying it

archiveVars == <<at, candidates, members, content, listed, whole>>
allVars == <<vars, archiveVars, shut>>

ArchiveInit ==
    /\ Init
    /\ at = [a \in Archivers |-> "idle"]
    /\ candidates = [a \in Archivers |-> {}]
    /\ members = [a \in Archivers |-> <<>>]
    /\ content = [a \in Archivers |-> <<>>]
    /\ listed = [a \in Archivers |-> {}]
    /\ whole = [a \in Archivers |-> TRUE]
    /\ shut = {}

ArchiveGoto(a, here, there) ==
    /\ at[a] = here
    /\ at' = [at EXCEPT ![a] = there]

\* createArchive has returned, with true or with false.
Outside == {"idle", "made", "nothing", "failed"}

-------------------------------------------------------------------------------
(* createArchive, in program order.                                        *)

\* Every name that starts with the base name: all of them.
CollectLogFiles(d) == DOMAIN d

\* Mutant: what the last archive copied is not forgotten.
ArchiveCollectAgain(a) ==
    /\ at[a] \in Outside
    /\ candidates' = [candidates EXCEPT ![a] = CollectLogFiles(disk)]
    /\ whole' = [whole EXCEPT ![a] = TRUE]
    /\ at' = [at EXCEPT ![a] = "add"]
    /\ members' = [members EXCEPT ![a] = <<>>]
    /\ listed' = [listed EXCEPT ![a] = LinesOf(disk)]
    /\ UNCHANGED <<vars, content, shut>>

\* An error in the middle of the listing is swallowed.
ArchiveCollect(a) ==
    /\ at[a] \in Outside
    /\ \E found \in SUBSET CollectLogFiles(disk) :
         /\ candidates' = [candidates EXCEPT ![a] = found]
         /\ whole' = [whole EXCEPT ![a] = found = CollectLogFiles(disk)]
         /\ at' = [at EXCEPT ![a] = IF found = {} THEN "nothing" ELSE "add"]
    /\ members' = [members EXCEPT ![a] = <<>>]
    /\ content' = [content EXCEPT ![a] = <<>>]
    /\ listed' = [listed EXCEPT ![a] = LinesOf(disk)]
    /\ UNCHANGED <<vars, shut>>

\* file_size fails or finds nothing.
ArchiveSkip(a) ==
    /\ at[a] = "add"
    /\ \E f \in candidates[a] :
         /\ f \in DOMAIN disk => disk[f] = <<>>
         /\ candidates' = [candidates EXCEPT ![a] = @ \ {f}]
    /\ UNCHANGED <<vars, at, members, content, listed, whole, shut>>

\* Mutant: a file somebody has open is left out.
ArchiveAddClosed(a) ==
    /\ at[a] = "add"
    /\ \E f \in candidates[a] \cap DOMAIN disk :
         /\ disk[f] # <<>>
         /\ candidates' = [candidates EXCEPT ![a] = @ \ {f}]
         /\ members' = [members EXCEPT ![a] = IF CanOpen(a, f) THEN Append(@, f) ELSE @]
    /\ UNCHANGED <<vars, at, content, listed, whole, shut>>

ArchiveAdd(a) ==
    /\ at[a] = "add"
    /\ \E f \in candidates[a] \cap DOMAIN disk :
         /\ disk[f] # <<>>
         /\ candidates' = [candidates EXCEPT ![a] = @ \ {f}]
         /\ members' = [members EXCEPT ![a] = Append(@, f)]
    /\ UNCHANGED <<vars, at, content, listed, whole, shut>>

ArchiveAdded(a) ==
    /\ candidates[a] = {}
    /\ ArchiveGoto(a, "add", IF members[a] = <<>> THEN "nothing" ELSE "open")
    /\ UNCHANGED <<vars, candidates, members, content, listed, whole, shut>>

\* zip_close: the next member.
NextMember(a) == members[a][Len(content[a]) + 1]

Readable(f) ==
    f \in DOMAIN disk /\ \A p \in Processes : ~(open[p] /\ name[p] = f)

ArchiveOpenMember(a) ==
    /\ Len(content[a]) < Len(members[a]) /\ Readable(NextMember(a))
    /\ ArchiveGoto(a, "open", "copy")
    /\ reading' = reading \cup {NextMember(a)}
    /\ UNCHANGED <<pc, mutex, fileVars, disk, history, candidates, members, content,
                   listed, whole, shut>>

\* Mutant: an archive that ends leaves its member open.
ReleasedNothing(a) == reading

\* What the others are copying.
Released(a) == {NextMember(b) : b \in {c \in Archivers \ {a} : at[c] = "copy"}}

ArchiveCopyMember(a) ==
    /\ ArchiveGoto(a, "copy", "open")
    /\ content' = [content EXCEPT ![a] = Append(@, disk[NextMember(a)])]
    /\ reading' = Released(a)
    /\ UNCHANGED <<pc, mutex, fileVars, disk, history, candidates, members, listed,
                   whole, shut>>

ArchiveClose(a) ==
    /\ Len(content[a]) = Len(members[a])
    /\ ArchiveGoto(a, "open", "made")
    /\ UNCHANGED <<vars, candidates, members, content, listed, whole, shut>>

\* zip_open, zip_source_file, zip_file_add or zip_close fails: on a member that is
\* gone or in use zip_close has to, for another reason each of them may.
ArchiveFails(a) ==
    /\ at[a] \in {"add", "open", "copy"}
    /\ at' = [at EXCEPT ![a] = "failed"]
    /\ reading' = Released(a)
    /\ UNCHANGED <<pc, mutex, fileVars, disk, history, candidates, members, content,
                   listed, whole, shut>>

ArchiveStep(a) ==
    \/ ArchiveSkip(a) \/ ArchiveAdd(a) \/ ArchiveAdded(a) \/ ArchiveOpenMember(a)
    \/ ArchiveCopyMember(a) \/ ArchiveClose(a) \/ ArchiveFails(a)

-------------------------------------------------------------------------------
(* The loggers beside it.                                                  *)

Undisturbed == \A f \in DOMAIN disk : f \in DOMAIN disk' /\ IsPrefix(disk[f], disk'[f])

\* An archive is copying a file that p's logger is about to open, rename or replace.
InTheWay(p) ==
    \E a \in Archivers : at[a] = "copy" /\ NextMember(a) \in {name[p], name'[p], Target}

Witness(p) ==
    /\ whole' = [a \in Archivers |-> whole[a] /\ (at[a] \in Outside \/ Undisturbed)]
    /\ shut' = IF pc'[p] = "off" THEN shut \ {p}
               ELSE IF pc'[p] = "ready" /\ ~open'[p] /\ InTheWay(p) THEN shut \cup {p}
               ELSE shut

LoggerStep(p) ==
    /\ Life(p)
    /\ Witness(p)
    /\ UNCHANGED <<reading, at, candidates, members, content, listed>>

\* A process dies with the archive it was making.
ProcessDies(p) ==
    /\ Crash(p)
    /\ Witness(p)
    /\ at' = [a \in Archivers |-> IF a = p THEN "idle" ELSE at[a]]
    /\ reading' = IF p \in Archivers THEN Released(p) ELSE reading
    /\ UNCHANGED <<candidates, members, content, listed>>

ArchiveNext ==
    \/ \E p \in Processes : LoggerStep(p) \/ ProcessDies(p)
    \/ \E a \in Archivers : ArchiveCollect(a) \/ ArchiveStep(a)

ArchiveSpec == ArchiveInit /\ [][ArchiveNext]_allVars

-------------------------------------------------------------------------------
(* Properties.                                                             *)

\* Each archiver's variables have their types, and the files somebody has open to
\* read are those an archiver is copying; they exist.
ArchiveTypeOK ==
    /\ at \in [Archivers -> Outside \cup {"add", "open", "copy"}]
    /\ candidates \in [Archivers -> SUBSET FileNames]
    /\ members \in [Archivers -> Seq(FileNames)]
    /\ content \in [Archivers -> Seq(Seq(Lines))]
    /\ listed \in [Archivers -> SUBSET Lines]
    /\ whole \in [Archivers -> BOOLEAN] /\ shut \subseteq Processes
    /\ \A a \in Archivers :
         /\ Len(content[a]) <= Len(members[a])
         /\ at[a] = "copy" => Len(content[a]) < Len(members[a])
    /\ reading = {NextMember(a) : a \in {b \in Archivers : at[b] = "copy"}}
    /\ reading \subseteq DOMAIN disk

\* When createArchive returns true, every line that was on disk when it listed the
\* directory is in the archive, once, whatever the loggers do meanwhile; when it
\* finds nothing to archive there was none.  Unless a rotation has moved a line to
\* another file since, or an error cut the listing short.
ArchiveIsComplete ==
    \A a \in Archivers :
      at[a] \in {"made", "nothing"} /\ whole[a] =>
        \A line \in listed[a] :
          Cardinality({i \in DOMAIN content[a] : line \in Range(content[a][i])}) = 1

\* As long as no base_PID.log has been rotated, a logger is without a file only
\* when an archive was copying the file it wanted at that very moment: a member
\* does not stay open after the archive is made, given up, or lost in a crash.
KeepsFileBesideArchive ==
    \A p \in Processes : pc[p] = "ready" => strayed \/ open[p] \/ p \in shut

\* spec.md:150 (FR-021) says rotation loses no log: with an archive beside it a
\* logger has its file between two calls.
KeepsFileAnyway == KeepsFile

\* spec.md:153 (FR-022) says the current file of a process is archived with the
\* historical ones: its own open logger does not stand in the way of zip_close.
OwnLoggerDoesNotBlock ==
    \A a \in Archivers :
      at[a] = "open" /\ Len(content[a]) < Len(members[a]) =>
        ~(open[a] /\ name[a] = NextMember(a))
===============================================================================
