----------------------------- MODULE ArchiveProofs -----------------------------
(***************************************************************************)
(* Proofs about Archive, for any processes of which any make archives, at  *)
(* the same time or again and again: FileInv (module FileManagerProofs)    *)
(* holds with archives beside the loggers, and ArchiveInv with it, from    *)
(* which the properties of run `archive` follow.  Assumed: the assumptions *)
(* of FileManagerProofs and ArchiversAssumption.                           *)
(***************************************************************************)
EXTENDS Archive, FileManagerProofs

-------------------------------------------------------------------------------
(* The invariant.                                                          *)

\* createArchive is collecting, adding or copying.
Making == {"add", "open", "copy"}

\* No file is added twice, and none is left to be looked at when zip_close begins.
Tidy(a) ==
    /\ IsInjective(members[a])
    /\ \A f \in Range(members[a]) : f \notin candidates[a]
    /\ at[a] \in {"open", "copy"} => candidates[a] = {}

\* While no listed line has left its file, every one is in a file that is a member
\* or may become one, and what is copied of a file has the listed lines it has.
Faithful(a) ==
    at[a] \in Making /\ whole[a] =>
      /\ \A line \in listed[a] :
           \E f \in candidates[a] \cup Range(members[a]) : line \in HeldIn(f)
      /\ \A i \in 1 .. Len(content[a]) :
           /\ Range(content[a][i]) \subseteq HeldIn(members[a][i])
           /\ listed[a] \cap HeldIn(members[a][i]) \subseteq Range(content[a][i])

\* The archive that is made has each line once.
Copies(copied, line) == Cardinality({i \in DOMAIN copied : line \in Range(copied[i])})
Complete(a) ==
    at[a] \in {"made", "nothing"} /\ whole[a] =>
      \A line \in listed[a] : Copies(content[a], line) = 1

ArchiveInv ==
    /\ ArchiveTypeOK /\ KeepsFileBesideArchive
    /\ \A a \in Archivers : Tidy(a) /\ Faithful(a) /\ Complete(a)

-------------------------------------------------------------------------------
(* Steps of an archiver.                                                   *)

\* What is open to read is what the others copy and what a copies.
LEMMA ReadingOf ==
    ASSUME ArchiveTypeOK, NEW a \in Archivers
    PROVE  reading = Released(a) \cup (IF at[a] = "copy" THEN {NextMember(a)} ELSE {})
BY DEF ArchiveTypeOK, Released

\* What is left to show of them is the state of a's own archive.
LEMMA OneArchiver ==
    ASSUME FileInv, ArchiveInv, NEW a \in Archivers,
           UNCHANGED <<pc, mutex, fileVars, disk, history, shut>>,
           \A b \in Archivers \ {a} :
             /\ at'[b] = at[b] /\ candidates'[b] = candidates[b] /\ members'[b] = members[b]
             /\ content'[b] = content[b] /\ listed'[b] = listed[b] /\ whole'[b] = whole[b],
           at' \in [Archivers -> Outside \cup Making],
           candidates' \in [Archivers -> SUBSET FileNames],
           members' \in [Archivers -> Seq(FileNames)],
           content' \in [Archivers -> Seq(Seq(Lines))],
           listed' \in [Archivers -> SUBSET Lines], whole' \in [Archivers -> BOOLEAN],
           Len(content'[a]) <= Len(members'[a]),
           at'[a] = "copy" => /\ Len(content'[a]) < Len(members'[a])
                              /\ members'[a][Len(content'[a]) + 1] \in DOMAIN disk,
           reading' = Released(a) \cup (IF at'[a] = "copy"
                                        THEN {members'[a][Len(content'[a]) + 1]} ELSE {}),
           Tidy(a)', Faithful(a)', Complete(a)'
    PROVE  FileInv' /\ ArchiveInv'
<1> USE DEF ArchiveInv
<1>1. DOMAIN disk \subseteq FileNames /\ disk' = disk
  BY DEF FileInv, TypeOK
<1>2. \A b \in Archivers : b # a => NextMember(b)' = NextMember(b)
  BY DEF NextMember
<1>3. Released(a) \subseteq reading
  BY ReadingOf
<1>4. reading' \subseteq DOMAIN disk
  BY <1>3 DEF ArchiveTypeOK
<1>5. reading' = {NextMember(b)' : b \in {c \in Archivers : at'[c] = "copy"}}
  <2>1. Released(a) = {NextMember(b) : b \in {c \in Archivers \ {a} : at[c] = "copy"}}
    BY DEF Released
  <2>2. NextMember(a)' = members'[a][Len(content'[a]) + 1]
    BY DEF NextMember
  <2> DEFINE Others == {c \in Archivers \ {a} : at[c] = "copy"}
  <2>3. Released(a) = {NextMember(b)' : b \in Others}
    BY <1>2, <2>1
  <2>4. {c \in Archivers : at'[c] = "copy"} = Others \cup (IF at'[a] = "copy" THEN {a} ELSE {})
    OBVIOUS
  <2> HIDE DEF Others
  <2> QED
    BY <2>2, <2>3, <2>4
<1>6. FileInv'
  BY <1>1, <1>4, FileInvReading
<1>7. ArchiveTypeOK'
  <2>1. \A b \in Archivers : /\ Len(content'[b]) <= Len(members'[b])
                             /\ at'[b] = "copy" => Len(content'[b]) < Len(members'[b])
    BY DEF ArchiveTypeOK
  <2>2. shut' \subseteq Processes
    BY DEF ArchiveTypeOK
  <2> QED
    BY <1>1, <1>4, <1>5, <2>1, <2>2 DEF ArchiveTypeOK, Making
<1>8. KeepsFileBesideArchive'
  BY DEF KeepsFileBesideArchive, fileVars, history
<1>9. ASSUME NEW b \in Archivers, b # a PROVE Tidy(b)' /\ Faithful(b)' /\ Complete(b)'
  <2>1. /\ at'[b] = at[b] /\ candidates'[b] = candidates[b] /\ members'[b] = members[b]
        /\ content'[b] = content[b] /\ listed'[b] = listed[b] /\ whole'[b] = whole[b]
        /\ Tidy(b) /\ Faithful(b) /\ Complete(b)
    BY <1>9
  <2> HIDE DEF ArchiveInv
  <2>2. \A f : HeldIn(f)' = HeldIn(f)
    BY <1>1 DEF HeldIn
  <2>3. Tidy(b)'
    BY <2>1 DEF Tidy
  <2>4. Faithful(b)'
    BY <2>1, <2>2 DEF Faithful
  <2>5. Complete(b)'
    BY <2>1 DEF Complete
  <2> QED
    BY <2>3, <2>4, <2>5
<1> QED
  BY <1>6, <1>7, <1>8, <1>9

\* Facts about a's state.
LEMMA Archiver ==
    ASSUME ArchiveInv, NEW a \in Archivers
    PROVE  /\ at[a] \in Outside \cup Making /\ candidates[a] \in SUBSET FileNames
           /\ members[a] \in Seq(FileNames) /\ content[a] \in Seq(Seq(Lines))
           /\ listed[a] \in SUBSET Lines /\ whole[a] \in BOOLEAN
           /\ Len(members[a]) \in Nat /\ Len(content[a]) \in Nat
           /\ Len(content[a]) <= Len(members[a])
           /\ Tidy(a) /\ Faithful(a) /\ Complete(a)
BY DEF ArchiveInv, ArchiveTypeOK, Making

\* The listing: every line on disk is in a candidate, unless an error cut it short.
LEMMA ArchiveCollectInv ==
    ASSUME FileInv, ArchiveInv, NEW a \in Archivers, ArchiveCollect(a)
    PROVE  FileInv' /\ ArchiveInv'
<1> USE DEF ArchiveCollect
<1>1. PICK found \in SUBSET CollectLogFiles(disk) :
        /\ candidates' = [candidates EXCEPT ![a] = found]
        /\ whole' = [whole EXCEPT ![a] = found = CollectLogFiles(disk)]
        /\ at' = [at EXCEPT ![a] = IF found = {} THEN "nothing" ELSE "add"]
  OBVIOUS
<1>2. found \subseteq FileNames /\ DOMAIN disk = CollectLogFiles(disk)
      /\ \A f \in DOMAIN disk : disk[f] \in Seq(Lines)
  BY DEF CollectLogFiles, FileInv, TypeOK
<1>3. <<>> \in Seq(FileNames) /\ <<>> \in Seq(Seq(Lines)) /\ Range(<<>>) = {}
      /\ IsInjective(<<>>) /\ Len(<<>>) = 0
  BY DEF Range, IsInjective
<1>4. LinesOf(disk) \in SUBSET Lines
      /\ \A line : line \in LinesOf(disk) <=> \E f \in DOMAIN disk : line \in Range(disk[f])
  BY <1>2 DEF LinesOf, Range
<1> DEFINE there == IF found = {} THEN "nothing" ELSE "add"
<1> HIDE DEF ArchiveInv
<1>5. /\ at'[a] = there /\ candidates'[a] = found /\ members'[a] = <<>>
      /\ content'[a] = <<>> /\ listed'[a] = LinesOf(disk)
      /\ whole'[a] = (found = DOMAIN disk) /\ disk' = disk
      /\ at' \in [Archivers -> Outside \cup Making]
      /\ candidates' \in [Archivers -> SUBSET FileNames]
      /\ members' \in [Archivers -> Seq(FileNames)]
      /\ content' \in [Archivers -> Seq(Seq(Lines))]
      /\ listed' \in [Archivers -> SUBSET Lines] /\ whole' \in [Archivers -> BOOLEAN]
  BY <1>1, <1>2, <1>3, <1>4 DEF ArchiveInv, ArchiveTypeOK, Outside, Making, vars
<1>6. \A b \in Archivers \ {a} :
        /\ at'[b] = at[b] /\ candidates'[b] = candidates[b] /\ members'[b] = members[b]
        /\ content'[b] = content[b] /\ listed'[b] = listed[b] /\ whole'[b] = whole[b]
  BY <1>1 DEF ArchiveInv, ArchiveTypeOK
<1>7. Tidy(a)'
  BY <1>3, <1>5 DEF Tidy
<1>8. Faithful(a)'
  <2>1. \A line \in LinesOf(disk) : \E f \in DOMAIN disk : line \in Range(disk[f])
    BY <1>4
  <2>2. \A f \in DOMAIN disk : HeldIn(f)' = Range(disk[f])
    BY <1>5 DEF HeldIn
  <2>3. whole'[a] => \A line \in listed'[a] :
          \E f \in candidates'[a] \cup Range(members'[a]) : line \in HeldIn(f)'
    <3> SUFFICES ASSUME found = DOMAIN disk, NEW line \in LinesOf(disk)
                 PROVE  \E f \in found \cup Range(<<>>) : line \in HeldIn(f)'
      BY <1>5
    <3> QED
      BY <2>1, <2>2
  <2>4. 1 .. Len(content'[a]) = {}
    BY <1>3, <1>5
  <2> QED
    BY <2>3, <2>4 DEF Faithful
<1>9. Complete(a)'
  <2> SUFFICES ASSUME found = {}, found = DOMAIN disk PROVE LinesOf(disk) = {}
    BY <1>5 DEF Complete
  <2> QED
    BY <1>4
<1>10. at[a] # "copy" /\ reading' = reading /\ reading = Released(a)
  <2>1. at[a] # "copy" /\ reading' = reading
    BY DEF Outside, vars
  <2> HIDE DEF ArchiveCollect
  <2>2. reading = Released(a)
    BY <2>1, ReadingOf DEF ArchiveInv
  <2> QED
    BY <2>1, <2>2
<1> QED
  BY <1>3, <1>5, <1>6, <1>7, <1>8, <1>9, <1>10, OneArchiver DEF vars

\* A file without lines, or without a size, is left out.
LEMMA ArchiveSkipInv ==
    ASSUME FileInv, ArchiveInv, NEW a \in Archivers, ArchiveSkip(a)
    PROVE  FileInv' /\ ArchiveInv'
<1> USE DEF ArchiveSkip
<1>1. PICK f \in candidates[a] : /\ f \in DOMAIN disk => disk[f] = <<>>
                                 /\ candidates' = [candidates EXCEPT ![a] = @ \ {f}]
  OBVIOUS
<1>2. /\ at[a] = "add" /\ at' = at /\ members' = members /\ content' = content
      /\ listed' = listed /\ whole' = whole /\ disk' = disk /\ reading' = reading
  BY DEF vars
<1>3. /\ candidates'[a] = candidates[a] \ {f}
      /\ \A b \in Archivers \ {a} : candidates'[b] = candidates[b]
      /\ candidates' \in [Archivers -> SUBSET FileNames]
  BY <1>1 DEF ArchiveInv, ArchiveTypeOK
<1>4. HeldIn(f) = {}
  BY <1>1 DEF HeldIn, Range
<1>5. Tidy(a)'
  BY <1>2, <1>3, Archiver DEF Tidy
<1>6. Faithful(a)'
  <2>1. Faithful(a)
    BY Archiver
  <2> QED
    BY <1>2, <1>3, <1>4, <2>1 DEF Faithful, HeldIn
<1>7. Complete(a)'
  BY <1>2 DEF Complete
<1>8. reading = Released(a) /\ Len(content'[a]) <= Len(members'[a])
  BY <1>2, ReadingOf, Archiver DEF ArchiveInv
<1> QED
  BY <1>2, <1>3, <1>5, <1>6, <1>7, <1>8, OneArchiver
  DEF vars, ArchiveInv, ArchiveTypeOK, Making

\* A candidate with lines becomes a member.
LEMMA ArchiveAddInv ==
    ASSUME FileInv, ArchiveInv, NEW a \in Archivers, ArchiveAdd(a)
    PROVE  FileInv' /\ ArchiveInv'
<1> USE DEF ArchiveAdd
<1>1. PICK f \in candidates[a] \cap DOMAIN disk :
        /\ candidates' = [candidates EXCEPT ![a] = @ \ {f}]
        /\ members' = [members EXCEPT ![a] = Append(@, f)]
  OBVIOUS
<1>2. /\ at[a] = "add" /\ at' = at /\ content' = content
      /\ listed' = listed /\ whole' = whole /\ disk' = disk /\ reading' = reading
  BY DEF vars
<1> DEFINE m == members[a]
<1>3. /\ m \in Seq(FileNames) /\ f \in FileNames /\ Len(m) \in Nat /\ Len(content[a]) \in Nat
      /\ Len(content[a]) <= Len(m)
  BY Archiver
<1>4. /\ Append(m, f) \in Seq(FileNames) /\ Len(Append(m, f)) = Len(m) + 1
      /\ \A i \in 1 .. Len(m) : Append(m, f)[i] = m[i]
      /\ Append(m, f)[Len(m) + 1] = f
  BY <1>3, AppendProperties
<1>5. /\ candidates'[a] = candidates[a] \ {f} /\ members'[a] = Append(m, f)
      /\ \A b \in Archivers \ {a} : candidates'[b] = candidates[b] /\ members'[b] = members[b]
      /\ candidates' \in [Archivers -> SUBSET FileNames]
      /\ members' \in [Archivers -> Seq(FileNames)]
  BY <1>1, <1>4 DEF ArchiveInv, ArchiveTypeOK
<1>6. Tidy(a) /\ Faithful(a)
  BY Archiver
<1>7. Range(Append(m, f)) = Range(m) \cup {f}
  <2>1. DOMAIN m = 1 .. Len(m) /\ DOMAIN Append(m, f) = 1 .. (Len(m) + 1)
    BY <1>3, <1>4
  <2>2. /\ \A i \in 1 .. Len(m) : Append(m, f)[i] = m[i]
        /\ Append(m, f)[Len(m) + 1] = f /\ Len(m) \in Nat
    BY <1>3, <1>4
  <2> HIDE DEF m, ArchiveInv, ArchiveAdd
  <2>3. 1 .. (Len(m) + 1) = (1 .. Len(m)) \cup {Len(m) + 1}
    BY <2>2
  <2> QED
    BY <2>1, <2>2, <2>3 DEF Range
<1>8. IsInjective(Append(m, f))
  <2>1. \A i \in 1 .. Len(m) : m[i] # f
    BY <1>3, <1>6 DEF Tidy, Range
  <2>2. DOMAIN m = 1 .. Len(m) /\ DOMAIN Append(m, f) = 1 .. (Len(m) + 1) /\ IsInjective(m)
    BY <1>3, <1>4, <1>6 DEF Tidy
  <2> HIDE DEF m
  <2> SUFFICES ASSUME NEW i \in 1 .. (Len(m) + 1), NEW j \in 1 .. (Len(m) + 1),
                      Append(m, f)[i] = Append(m, f)[j]
               PROVE  i = j
    BY <2>2 DEF IsInjective
  <2>3. CASE i = Len(m) + 1 \/ j = Len(m) + 1
    BY <1>3, <1>4, <2>1, <2>3
  <2>4. CASE i # Len(m) + 1 /\ j # Len(m) + 1
    <3>1. i \in 1 .. Len(m) /\ j \in 1 .. Len(m)
      BY <1>3, <2>4
    <3>2. m[i] = m[j]
      BY <1>4, <3>1
    <3> QED
      BY <2>2, <3>1, <3>2 DEF IsInjective
  <2> QED
    BY <2>3, <2>4
<1>9. Tidy(a)'
  BY <1>2, <1>5, <1>6, <1>7, <1>8 DEF Tidy
<1>10. Faithful(a)'
  <2> SUFFICES ASSUME whole[a]
               PROVE  /\ \A line \in listed[a] :
                           \E g \in candidates'[a] \cup Range(members'[a]) : line \in HeldIn(g)
                      /\ \A i \in 1 .. Len(content[a]) :
                           /\ Range(content[a][i]) \subseteq HeldIn(members'[a][i])
                           /\ listed[a] \cap HeldIn(members'[a][i]) \subseteq Range(content[a][i])
    BY <1>2 DEF Faithful, HeldIn
  <2>1. candidates'[a] \cup Range(members'[a]) = candidates[a] \cup Range(members[a])
    BY <1>1, <1>5, <1>7
  <2>2. \A i \in 1 .. Len(content[a]) : members'[a][i] = members[a][i]
    BY <1>3, <1>4, <1>5
  <2> QED
    BY <1>2, <1>6, <2>1, <2>2 DEF Faithful, Making
<1>11. Complete(a)'
  BY <1>2 DEF Complete
<1>12. Len(content'[a]) <= Len(members'[a])
  BY <1>2, <1>3, <1>4, <1>5
<1>13. reading = Released(a)
  BY <1>2, ReadingOf DEF ArchiveInv
<1>14. /\ UNCHANGED <<pc, mutex, fileVars, disk, history, shut>>
       /\ at' \in [Archivers -> Outside \cup Making]
       /\ content' \in [Archivers -> Seq(Seq(Lines))]
       /\ listed' \in [Archivers -> SUBSET Lines] /\ whole' \in [Archivers -> BOOLEAN]
  BY <1>2 DEF vars, ArchiveInv, ArchiveTypeOK, Making
<1>15. at'[a] # "copy"
  BY <1>2
<1> HIDE DEF ArchiveAdd
<1> QED
  BY <1>2, <1>5, <1>9, <1>10, <1>11, <1>12, <1>13, <1>14, <1>15, OneArchiver

\* Every member's lines are in the archive once, when all of them are copied.
LEMMA EachOnce ==
    ASSUME FileInv, ArchiveInv, NEW a \in Archivers, at[a] \in Making, whole[a],
           candidates[a] = {}, Len(content[a]) = Len(members[a])
    PROVE  \A line \in listed[a] : Copies(content[a], line) = 1
<1> SUFFICES ASSUME NEW line \in listed[a] PROVE Copies(content[a], line) = 1
  OBVIOUS
<1> DEFINE m == members[a]
           c == content[a]
<1>1. /\ m \in Seq(FileNames) /\ c \in Seq(Seq(Lines)) /\ Len(m) \in Nat /\ Len(c) = Len(m)
      /\ DOMAIN m = 1 .. Len(m) /\ DOMAIN c = 1 .. Len(m) /\ IsInjective(m)
  BY Archiver DEF Tidy
<1>2. PICK f \in Range(m) : line \in HeldIn(f)
  BY Archiver DEF Faithful
<1>3. PICK i \in 1 .. Len(m) : m[i] = f
  BY <1>1, <1>2 DEF Range
<1>4. line \in Range(c[i])
  BY <1>1, <1>2, <1>3, Archiver DEF Faithful
<1>5. ASSUME NEW j \in 1 .. Len(m), line \in Range(c[j]) PROVE j = i
  <2>1. line \in HeldIn(m[j])
    BY <1>1, <1>5, Archiver DEF Faithful
  <2>2. m[j] = f
    BY <1>2, <2>1 DEF FileInv, PlaceInv, HeldIn
  <2> QED
    BY <1>1, <1>3, <2>2 DEF IsInjective
<1>6. {j \in DOMAIN c : line \in Range(c[j])} = {i}
  BY <1>1, <1>4, <1>5
<1> QED
  BY <1>6, FS_Singleton DEF Copies

\* All candidates are looked at: without a member no listed line was on disk.
LEMMA ArchiveAddedInv ==
    ASSUME FileInv, ArchiveInv, NEW a \in Archivers, ArchiveAdded(a)
    PROVE  FileInv' /\ ArchiveInv'
<1> USE DEF ArchiveAdded, ArchiveGoto
<1> DEFINE there == IF members[a] = <<>> THEN "nothing" ELSE "open"
<1>1. /\ at[a] = "add" /\ candidates[a] = {} /\ at' = [at EXCEPT ![a] = there]
      /\ candidates' = candidates /\ members' = members /\ content' = content
      /\ listed' = listed /\ whole' = whole /\ disk' = disk /\ reading' = reading
  BY DEF vars
<1>2. /\ at'[a] = there /\ \A b \in Archivers \ {a} : at'[b] = at[b]
      /\ at' \in [Archivers -> Outside \cup Making]
  BY <1>1 DEF ArchiveInv, ArchiveTypeOK, Outside, Making
<1>3. Tidy(a) /\ Faithful(a) /\ Len(content[a]) <= Len(members[a])
  BY Archiver
<1>4. Tidy(a)'
  BY <1>1, <1>3 DEF Tidy
<1>5. Faithful(a)'
  BY <1>1, <1>3 DEF Faithful, HeldIn, Making
<1>6. Complete(a)'
  <2> SUFFICES ASSUME members[a] = <<>>, whole[a]
               PROVE  \A line \in listed[a] : Copies(content[a], line) = 1
    BY <1>1, <1>2 DEF Complete
  <2>1. Len(content[a]) = Len(members[a])
    BY <1>3, Archiver
  <2> QED
    BY <1>1, <2>1, EachOnce DEF Making
<1>7. reading = Released(a) /\ at'[a] # "copy"
  BY <1>1, <1>2, ReadingOf DEF ArchiveInv
<1> QED
  BY <1>1, <1>2, <1>3, <1>4, <1>5, <1>6, <1>7, OneArchiver
  DEF vars, ArchiveInv, ArchiveTypeOK

\* zip_close is done: the archive is in place.
LEMMA ArchiveCloseInv ==
    ASSUME FileInv, ArchiveInv, NEW a \in Archivers, ArchiveClose(a)
    PROVE  FileInv' /\ ArchiveInv'
<1> USE DEF ArchiveClose, ArchiveGoto
<1>1. /\ at[a] = "open" /\ Len(content[a]) = Len(members[a]) /\ at' = [at EXCEPT ![a] = "made"]
      /\ candidates' = candidates /\ members' = members /\ content' = content
      /\ listed' = listed /\ whole' = whole /\ disk' = disk /\ reading' = reading
  BY DEF vars
<1>2. /\ at'[a] = "made" /\ \A b \in Archivers \ {a} : at'[b] = at[b]
      /\ at' \in [Archivers -> Outside \cup Making]
  BY <1>1 DEF ArchiveInv, ArchiveTypeOK, Outside, Making
<1>3. Tidy(a) /\ Len(content[a]) <= Len(members[a])
  BY Archiver
<1>4. Tidy(a)'
  BY <1>1, <1>2, <1>3 DEF Tidy
<1>5. Faithful(a)'
  BY <1>2 DEF Faithful, Making
<1>6. Complete(a)'
  <2> SUFFICES ASSUME whole[a] PROVE \A line \in listed[a] : Copies(content[a], line) = 1
    BY <1>1 DEF Complete
  <2>1. candidates[a] = {}
    BY <1>1, <1>3 DEF Tidy
  <2> QED
    BY <1>1, <2>1, EachOnce DEF Making
<1>7. reading = Released(a)
  BY <1>1, ReadingOf DEF ArchiveInv
<1> QED
  BY <1>1, <1>2, <1>3, <1>4, <1>5, <1>6, <1>7, OneArchiver
  DEF vars, ArchiveInv, ArchiveTypeOK

\* A member is opened to be copied.
LEMMA ArchiveOpenMemberInv ==
    ASSUME FileInv, ArchiveInv, NEW a \in Archivers, ArchiveOpenMember(a)
    PROVE  FileInv' /\ ArchiveInv'
<1> USE DEF ArchiveOpenMember, ArchiveGoto
<1>1. /\ at[a] = "open" /\ Len(content[a]) < Len(members[a]) /\ NextMember(a) \in DOMAIN disk
      /\ at' = [at EXCEPT ![a] = "copy"]
      /\ candidates' = candidates /\ members' = members /\ content' = content
      /\ listed' = listed /\ whole' = whole /\ disk' = disk
      /\ reading' = reading \cup {NextMember(a)}
  BY DEF Readable
<1>2. /\ at'[a] = "copy" /\ \A b \in Archivers \ {a} : at'[b] = at[b]
      /\ at' \in [Archivers -> Outside \cup Making]
  BY <1>1 DEF ArchiveInv, ArchiveTypeOK, Outside, Making
<1>3. Tidy(a) /\ Faithful(a) /\ Len(content[a]) <= Len(members[a])
  BY Archiver
<1>4. Tidy(a)'
  BY <1>1, <1>2, <1>3 DEF Tidy
<1>5. Faithful(a)'
  BY <1>1, <1>3 DEF Faithful, HeldIn, Making
<1>6. Complete(a)'
  BY <1>2 DEF Complete
<1>7. reading' = Released(a) \cup {members'[a][Len(content'[a]) + 1]}
      /\ members'[a][Len(content'[a]) + 1] \in DOMAIN disk
  <2>1. reading = Released(a)
    BY <1>1, ReadingOf DEF ArchiveInv
  <2> QED
    BY <1>1, <2>1 DEF NextMember
<1> QED
  BY <1>1, <1>2, <1>3, <1>4, <1>5, <1>6, <1>7, OneArchiver
  DEF vars, ArchiveInv, ArchiveTypeOK

\* A member is copied: its listed lines are those the file has at that moment.
LEMMA ArchiveCopyMemberInv ==
    ASSUME FileInv, ArchiveInv, NEW a \in Archivers, ArchiveCopyMember(a)
    PROVE  FileInv' /\ ArchiveInv'
<1> USE DEF ArchiveCopyMember, ArchiveGoto
<1> DEFINE c == content[a]
           m == members[a]
           f == NextMember(a)
<1>1. /\ at[a] = "copy" /\ at' = [at EXCEPT ![a] = "open"]
      /\ content' = [content EXCEPT ![a] = Append(c, disk[f])]
      /\ candidates' = candidates /\ members' = members
      /\ listed' = listed /\ whole' = whole /\ disk' = disk /\ reading' = Released(a)
  OBVIOUS
<1>2. f \in DOMAIN disk /\ disk[f] \in Seq(Lines) /\ Len(c) < Len(m)
  BY <1>1 DEF ArchiveInv, ArchiveTypeOK, FileInv, TypeOK
<1>3. /\ m \in Seq(FileNames) /\ c \in Seq(Seq(Lines)) /\ Len(m) \in Nat /\ Len(c) \in Nat
      /\ Tidy(a) /\ Faithful(a)
  BY Archiver
<1>4. /\ Append(c, disk[f]) \in Seq(Seq(Lines)) /\ Len(Append(c, disk[f])) = Len(c) + 1
      /\ \A i \in 1 .. Len(c) : Append(c, disk[f])[i] = c[i]
      /\ Append(c, disk[f])[Len(c) + 1] = disk[f]
  BY <1>2, <1>3, AppendProperties
<1>5. /\ content'[a] = Append(c, disk[f]) /\ at'[a] = "open"
      /\ \A b \in Archivers \ {a} : at'[b] = at[b] /\ content'[b] = content[b]
      /\ at' \in [Archivers -> Outside \cup Making]
      /\ content' \in [Archivers -> Seq(Seq(Lines))]
  BY <1>1, <1>4 DEF ArchiveInv, ArchiveTypeOK, Outside, Making
<1>6. f = m[Len(c) + 1] /\ HeldIn(f) = Range(disk[f])
  BY <1>2 DEF NextMember, HeldIn
<1>7. Tidy(a)'
  BY <1>1, <1>3, <1>5 DEF Tidy
<1>8. Faithful(a)'
  <2> SUFFICES ASSUME whole[a]
               PROVE  /\ \A line \in listed[a] :
                           \E g \in candidates[a] \cup Range(m) : line \in HeldIn(g)
                      /\ \A i \in 1 .. Len(content'[a]) :
                           /\ Range(content'[a][i]) \subseteq HeldIn(m[i])
                           /\ listed[a] \cap HeldIn(m[i]) \subseteq Range(content'[a][i])
    BY <1>1 DEF Faithful, HeldIn
  <2>1. /\ \A line \in listed[a] :
             \E g \in candidates[a] \cup Range(m) : line \in HeldIn(g)
        /\ \A i \in 1 .. Len(c) :
             /\ Range(c[i]) \subseteq HeldIn(m[i])
             /\ listed[a] \cap HeldIn(m[i]) \subseteq Range(c[i])
    BY <1>1, <1>3 DEF Faithful, Making
  <2> HIDE DEF c, m, f
  <2>2. ASSUME NEW i \in 1 .. Len(content'[a])
        PROVE  /\ Range(content'[a][i]) \subseteq HeldIn(m[i])
               /\ listed[a] \cap HeldIn(m[i]) \subseteq Range(content'[a][i])
    <3>1. i \in 1 .. Len(c) \/ i = Len(c) + 1
      BY <1>3, <1>4, <1>5
    <3>2. CASE i \in 1 .. Len(c)
      <4>1. content'[a][i] = c[i]
        BY <1>4, <1>5, <3>2
      <4> QED
        BY <2>1, <3>2, <4>1
    <3>3. CASE i = Len(c) + 1
      <4>1. content'[a][i] = disk[f] /\ m[i] = f
        BY <1>4, <1>5, <1>6, <3>3
      <4> QED
        BY <1>6, <4>1
    <3> QED
      BY <3>1, <3>2, <3>3
  <2> QED
    BY <2>1, <2>2
<1>9. Complete(a)'
  BY <1>5 DEF Complete
<1>10. Len(content'[a]) <= Len(members'[a])
  BY <1>1, <1>2, <1>3, <1>4, <1>5
<1> QED
  BY <1>1, <1>5, <1>7, <1>8, <1>9, <1>10, OneArchiver
  DEF vars, ArchiveInv, ArchiveTypeOK, Making

\* createArchive gives up: what it had open is closed.
LEMMA ArchiveFailsInv ==
    ASSUME FileInv, ArchiveInv, NEW a \in Archivers, ArchiveFails(a)
    PROVE  FileInv' /\ ArchiveInv'
<1> USE DEF ArchiveFails
<1>1. /\ at' = [at EXCEPT ![a] = "failed"]
      /\ candidates' = candidates /\ members' = members /\ content' = content
      /\ listed' = listed /\ whole' = whole /\ disk' = disk /\ reading' = Released(a)
  OBVIOUS
<1>2. /\ at'[a] = "failed" /\ \A b \in Archivers \ {a} : at'[b] = at[b]
      /\ at' \in [Archivers -> Outside \cup Making]
  BY <1>1 DEF ArchiveInv, ArchiveTypeOK, Outside, Making
<1>3. Tidy(a) /\ Len(content[a]) <= Len(members[a])
  BY Archiver
<1>4. Tidy(a)'
  BY <1>1, <1>2, <1>3 DEF Tidy
<1>5. Faithful(a)' /\ Complete(a)'
  BY <1>2 DEF Faithful, Complete, Making
<1> QED
  BY <1>1, <1>2, <1>3, <1>4, <1>5, OneArchiver
  DEF vars, ArchiveInv, ArchiveTypeOK

-------------------------------------------------------------------------------
(* Steps of a logger.                                                      *)

\* A file that is being read is neither renamed nor replaced nor deleted.
LEMMA ReadFilesRemain ==
    ASSUME FileInv, NEW p \in Processes, Life(p) \/ Crash(p), reading \subseteq DOMAIN disk
    PROVE  reading \subseteq DOMAIN disk'
<1> USE DEF fileVars, history
<1>1. ASSUME NEW lines, WriteOut(p, lines) PROVE DOMAIN disk' = DOMAIN disk
  BY <1>1 DEF WriteOut
<1>2. ASSUME NEW f, OpenLogFile(p, f) PROVE DOMAIN disk \subseteq DOMAIN disk'
  BY <1>2 DEF OpenLogFile
<1>3. CASE InitializeFirst(p) \/ InitializeProbe(p) \/ InitializeCloseProbe(p)
             \/ RotateRenameFails(p) \/ DestroyMutex(p)
  BY <1>3 DEF InitializeFirst, InitializeProbe, InitializeCloseProbe, RotateRenameFails,
              DestroyMutex
<1>4. CASE InitializeOpen(p) \/ RotateReopen(p)
  BY <1>2, <1>4 DEF InitializeOpen, RotateReopen
<1>5. CASE RotateClose(p) \/ DestroyClose(p) \/ Flush(p)
  BY <1>1, <1>5 DEF RotateClose, DestroyClose, CloseCurrentFile, Flush
<1>6. CASE \E length \in Lengths : Log(p, length)
  BY <1>1, <1>6 DEF Log, Write
<1>7. CASE Crash(p)
  BY <1>1, <1>7 DEF Crash
<1>8. CASE RotateRename(p)
  <2> DEFINE D == (DOMAIN disk \cup {Target}) \ {name[p]}
  <2>1. /\ disk' = DeleteOldestFiles(Renamed(disk, name[p], Target)) /\ name[p] \notin reading
        /\ name[p] \in DOMAIN disk /\ Target = History(1)
        /\ disk \in [DOMAIN disk -> Seq(Lines)] /\ DOMAIN disk \subseteq FileNames
    BY <1>8, TargetIsFirst DEF RotateRename, CanRename, CanOpen, FileInv, TypeOK
  <2>2. D \subseteq FileNames /\ Renamed(disk, name[p], Target) \in [D -> Seq(Lines)]
    BY <2>1, NamesDiffer DEF Renamed
  <2> HIDE DEF D
  <2>3. disk' = Renamed(disk, name[p], Target)
    BY <2>1, <2>2, NothingDeleted
  <2>4. DOMAIN disk' = D
    BY <2>2, <2>3
  <2> QED
    BY <2>1, <2>4 DEF D
<1> QED
  BY <1>3, <1>4, <1>5, <1>6, <1>7, <1>8 DEF Life

\* A logger that is left without a file wanted one that an archive was copying.
LEMMA ShutStep ==
    ASSUME FileInv, ArchiveInv, NEW p \in Processes, Life(p) \/ Crash(p), Witness(p)
    PROVE  KeepsFileBesideArchive'
<1> SUFFICES ASSUME ~strayed', NEW q \in Processes, pc'[q] = "ready", ~open'[q]
             PROVE  q \in shut'
  BY DEF KeepsFileBesideArchive
<1> USE DEF Goto, fileVars, history
<1>1. ~strayed
  BY DEF Life, InitializeFirst, InitializeProbe, InitializeCloseProbe, InitializeOpen,
         RotateClose, RotateRename, RotateRenameFails, RotateReopen, DestroyClose,
         DestroyMutex, Flush, Log, Crash
<1>2. /\ pc \in [Processes -> States] /\ open \in [Processes -> BOOLEAN]
      /\ name \in [Processes -> FileNames]
      /\ \A r \in Processes : open[r] => pc[r] # "off"
      /\ \A r \in Processes : ~open[r] => buffered[r] = <<>>
  BY DEF FileInv, TypeOK, States
<1>3. pc[q] = "ready" /\ ~open[q] => q \in shut
  BY <1>1 DEF ArchiveInv, KeepsFileBesideArchive
<1>4. q \in shut => q \in shut'
  BY DEF Witness
<1>5. q = p /\ InTheWay(p) => q \in shut'
  BY DEF Witness
<1>6. ASSUME NEW f \in {name[p], name'[p], Target}, f \in reading PROVE InTheWay(p)
  <2>1. PICK a \in Archivers : at[a] = "copy" /\ NextMember(a) = f
    BY <1>6 DEF ArchiveInv, ArchiveTypeOK
  <2> QED
    BY <2>1 DEF InTheWay
<1>7. pc[p] # "off" => \A r \in Processes \ {p} : ~(open[r] /\ name[r] = name[p])
  <2>1. OwnFile
    BY <1>1, OwnersDiffer DEF FileInv, OwnFileUntilStrayed
  <2> QED
    BY <1>2, <2>1 DEF OwnFile
<1>8. CASE InitializeFirst(p) \/ InitializeProbe(p) \/ InitializeCloseProbe(p)
  BY <1>2, <1>3, <1>4, <1>8 DEF InitializeFirst, InitializeProbe, InitializeCloseProbe
<1>9. CASE InitializeOpen(p)
  <2>1. /\ open' = [open EXCEPT ![p] = CanOpen(p, name[p])] /\ pc[p] = "open"
        /\ \A r \in Processes \ {p} : pc'[r] = pc[r]
    BY <1>2, <1>9 DEF InitializeOpen, OpenLogFile
  <2>2. CASE q = p
    <3>1. name[p] \in reading
      BY <1>2, <1>7, <2>1, <2>2 DEF CanOpen
    <3> QED
      BY <1>5, <1>6, <2>2, <3>1
  <2>3. CASE q # p
    BY <1>2, <1>3, <1>4, <2>1, <2>3
  <2> QED
    BY <2>2, <2>3
<1>10. CASE RotateClose(p) \/ RotateRename(p) \/ DestroyClose(p)
  BY <1>2, <1>3, <1>4, <1>10 DEF RotateClose, RotateRename, DestroyClose, CloseCurrentFile
<1>11. CASE RotateRenameFails(p)
  <2>1. pc[p] = "rename" /\ open' = open /\ \A r \in Processes \ {p} : pc'[r] = pc[r]
    BY <1>2, <1>11 DEF RotateRenameFails
  <2>2. CASE q = p
    <3>1. name[p] \in DOMAIN disk
      BY <1>1, <2>1 DEF FileInv, OwnerInv
    <3>2. \A r \in Processes : name[r] # Target
      BY <1>1, TargetIsFirst, NamesDiffer DEF FileInv, OwnerInv
    <3>3. name[p] \in reading \/ Target \in reading
      BY <1>7, <1>11, <2>1, <3>1, <3>2 DEF RotateRenameFails, CanRename, CanOpen
    <3> QED
      BY <1>5, <1>6, <2>2, <3>3
  <2>3. CASE q # p
    BY <1>3, <1>4, <2>1, <2>3
  <2> QED
    BY <2>2, <2>3
<1>12. CASE RotateReopen(p)
  <2>1. /\ open' = [open EXCEPT ![p] = CanOpen(p, Base)] /\ pc[p] = "reopen"
        /\ \A r \in Processes \ {p} : pc'[r] = pc[r]
    BY <1>2, <1>12 DEF RotateReopen, OpenLogFile, GenerateFileName
  <2>2. name[p] = Base
    BY <1>1, <2>1 DEF FileInv, OwnerInv
  <2>3. CASE q = p
    <3>1. name[p] \in reading
      BY <1>2, <1>7, <2>1, <2>2, <2>3 DEF CanOpen
    <3> QED
      BY <1>5, <1>6, <2>3, <3>1
  <2>4. CASE q # p
    BY <1>2, <1>3, <1>4, <2>1, <2>4
  <2> QED
    BY <2>3, <2>4
<1>13. CASE DestroyMutex(p) \/ Crash(p)
  BY <1>2, <1>3, <1>4, <1>13 DEF DestroyMutex, Crash
<1>14. CASE Flush(p)
  BY <1>2, <1>3, <1>4, <1>14 DEF Flush
<1>15. ASSUME NEW length \in Lengths, Log(p, length) PROVE q \in shut'
  <2>1. open' = open /\ open[p] /\ \A r \in Processes \ {p} : pc'[r] = pc[r]
    BY <1>2, <1>15 DEF Log, Write
  <2> QED
    BY <1>3, <1>4, <2>1
<1> QED
  BY <1>8, <1>9, <1>10, <1>11, <1>12, <1>13, <1>14, <1>15 DEF Life

\* Beside a logger that disturbs no file an archive keeps what it has.
LEMMA LoggerBeside ==
    ASSUME FileInv, ArchiveInv, NEW p \in Processes, Life(p) \/ Crash(p), Witness(p),
           reading' \subseteq reading,
           reading' = {NextMember(a) : a \in {b \in Archivers : at'[b] = "copy"}},
           at' \in [Archivers -> Outside \cup Making],
           \A a \in Archivers : at'[a] = at[a] \/ at'[a] = "idle",
           UNCHANGED <<candidates, members, content, listed>>
    PROVE  FileInv' /\ ArchiveInv'
<1> USE DEF ArchiveInv
<1>1. reading \subseteq DOMAIN disk /\ DOMAIN disk \subseteq FileNames
  BY DEF ArchiveTypeOK, FileInv, TypeOK
<1>2. FileInv'
  BY <1>1, FileInvStep
<1>3. reading' \subseteq DOMAIN disk'
  BY <1>1, ReadFilesRemain
<1>4. /\ whole' = [a \in Archivers |-> whole[a] /\ (at[a] \in Outside \/ Undisturbed)]
      /\ shut' \subseteq shut \cup {p}
  BY DEF Witness
<1>5. ArchiveTypeOK'
  <2>1. \A a \in Archivers : NextMember(a)' = NextMember(a)
    BY DEF NextMember
  <2>2. reading' = {NextMember(a)' : a \in {b \in Archivers : at'[b] = "copy"}}
    BY <2>1
  <2>3. \A a \in Archivers : /\ Len(content'[a]) <= Len(members'[a])
                             /\ at'[a] = "copy" => Len(content'[a]) < Len(members'[a])
    BY DEF ArchiveTypeOK
  <2>4. whole' \in [Archivers -> BOOLEAN] /\ shut' \subseteq Processes
    BY <1>4 DEF ArchiveTypeOK
  <2> QED
    BY <1>3, <2>2, <2>3, <2>4 DEF ArchiveTypeOK, Making
<1>6. KeepsFileBesideArchive'
  BY ShutStep
<1>7. ASSUME NEW a \in Archivers PROVE Tidy(a)' /\ Faithful(a)' /\ Complete(a)'
  <2>1. Tidy(a) /\ Faithful(a) /\ Complete(a) /\ (at'[a] = at[a] \/ at'[a] = "idle")
    BY Archiver
  <2>2. candidates' = candidates /\ members' = members /\ content' = content /\ listed' = listed
    OBVIOUS
  <2>3. Tidy(a)'
    BY <2>1, <2>2 DEF Tidy
  <2>4. Complete(a)'
    BY <1>4, <2>1, <2>2 DEF Complete
  <2>5. Faithful(a)'
    <3> SUFFICES ASSUME at'[a] \in Making, whole'[a]
                 PROVE  /\ \A line \in listed[a] :
                             \E f \in candidates[a] \cup Range(members[a]) : line \in HeldIn(f)'
                        /\ \A i \in 1 .. Len(content[a]) :
                             /\ Range(content[a][i]) \subseteq HeldIn(members[a][i])'
                             /\ listed[a] \cap HeldIn(members[a][i])' \subseteq Range(content[a][i])
      BY <2>2 DEF Faithful
    <3>1. at[a] \in Making /\ whole[a] /\ Undisturbed
      BY <1>4, <2>1 DEF Making, Outside
    <3>2. \A f : HeldIn(f) \subseteq HeldIn(f)'
      <4> SUFFICES ASSUME NEW f \in DOMAIN disk
                   PROVE  f \in DOMAIN disk' /\ Range(disk[f]) \subseteq Range(disk'[f])
        BY DEF HeldIn
      <4>1. f \in DOMAIN disk' /\ IsPrefix(disk[f], disk'[f])
        BY <3>1 DEF Undisturbed
      <4> DEFINE s == disk[f]
                 t == disk'[f]
      <4>2. s \in Seq(Lines) /\ t \in Seq(Lines)
        BY <1>2, <4>1 DEF FileInv, TypeOK
      <4>3. Len(s) <= Len(t) /\ SubSeq(s, 1, Len(s)) = SubSeq(t, 1, Len(s))
        BY <4>1 DEF IsPrefix
      <4> HIDE DEF s, t
      <4>4. \A i \in 1 .. Len(s) : s[i] = t[i] /\ i \in 1 .. Len(t)
        BY <4>2, <4>3
      <4>5. Range(s) \subseteq Range(t)
        BY <4>2, <4>4 DEF Range
      <4> QED
        BY <4>1, <4>5 DEF s, t
    <3>3. /\ \A line \in listed[a] :
               \E f \in candidates[a] \cup Range(members[a]) : line \in HeldIn(f)
          /\ \A i \in 1 .. Len(content[a]) :
               /\ Range(content[a][i]) \subseteq HeldIn(members[a][i])
               /\ listed[a] \cap HeldIn(members[a][i]) \subseteq Range(content[a][i])
      BY <2>1, <3>1 DEF Faithful
    <3>4. \A f, g, line : line \in HeldIn(f)' /\ line \in HeldIn(g)' => f = g
      BY <1>2 DEF FileInv, PlaceInv, HeldIn
    <3>5. \A f, line : line \in listed[a] /\ line \in HeldIn(f)' => line \in HeldIn(f)
      BY <3>2, <3>3, <3>4
    <3> QED
      BY <3>2, <3>3, <3>5
  <2> QED
    BY <2>3, <2>4, <2>5
<1> QED
  BY <1>2, <1>5, <1>6, <1>7

-------------------------------------------------------------------------------
(* The invariant holds.                                                    *)

\* Initially there are neither files nor archives.
LEMMA ArchiveInvInit == ArchiveInit => FileInv /\ ArchiveInv
<1> SUFFICES ASSUME ArchiveInit PROVE FileInv /\ ArchiveInv
  OBVIOUS
<1> USE DEF ArchiveInit
<1>1. FileInv
  BY FileInvInit
<1>2. <<>> \in Seq(FileNames) /\ <<>> \in Seq(Seq(Lines)) /\ Len(<<>>) = 0 /\ IsInjective(<<>>)
      /\ Range(<<>>) = {}
  BY DEF IsInjective, Range
<1>3. ArchiveTypeOK
  BY <1>2 DEF ArchiveTypeOK, Init, Outside
<1>4. KeepsFileBesideArchive
  BY DEF KeepsFileBesideArchive, Init
<1>5. \A a \in Archivers : Tidy(a) /\ Faithful(a) /\ Complete(a)
  BY <1>2 DEF Tidy, Faithful, Complete, Making
<1> QED
  BY <1>1, <1>3, <1>4, <1>5 DEF ArchiveInv

\* Every step of a logger and of an archiver keeps the invariant.
LEMMA ArchiveInvStep == FileInv /\ ArchiveInv /\ [ArchiveNext]_allVars => FileInv' /\ ArchiveInv'
<1> SUFFICES ASSUME FileInv, ArchiveInv, [ArchiveNext]_allVars PROVE FileInv' /\ ArchiveInv'
  OBVIOUS
<1>1. /\ at \in [Archivers -> Outside \cup Making]
      /\ reading = {NextMember(a) : a \in {b \in Archivers : at[b] = "copy"}}
  BY DEF ArchiveInv, ArchiveTypeOK, Making
<1>2. ASSUME NEW p \in Processes, LoggerStep(p) PROVE FileInv' /\ ArchiveInv'
  BY <1>1, <1>2, LoggerBeside DEF LoggerStep
<1>3. ASSUME NEW p \in Processes, ProcessDies(p) PROVE FileInv' /\ ArchiveInv'
  <2>1. /\ Crash(p) /\ Witness(p) /\ UNCHANGED <<candidates, members, content, listed>>
        /\ at' = [a \in Archivers |-> IF a = p THEN "idle" ELSE at[a]]
        /\ reading' = IF p \in Archivers THEN Released(p) ELSE reading
    BY <1>3 DEF ProcessDies
  <2>2. at' \in [Archivers -> Outside \cup Making]
        /\ \A a \in Archivers : at'[a] = at[a] \/ at'[a] = "idle"
    BY <1>1, <2>1 DEF Outside
  <2>3. {b \in Archivers : at'[b] = "copy"} = {b \in Archivers \ {p} : at[b] = "copy"}
    BY <2>1
  <2>4. reading' = {NextMember(a) : a \in {b \in Archivers : at'[b] = "copy"}}
    BY <1>1, <2>1, <2>3 DEF Released
  <2>5. reading' \subseteq reading
    BY <1>1, <2>1 DEF Released
  <2> QED
    BY <2>1, <2>2, <2>4, <2>5, LoggerBeside
<1>4. ASSUME NEW a \in Archivers, ArchiveCollect(a) \/ ArchiveStep(a)
      PROVE  FileInv' /\ ArchiveInv'
  BY <1>4, ArchiveCollectInv, ArchiveSkipInv, ArchiveAddInv, ArchiveAddedInv,
     ArchiveOpenMemberInv, ArchiveCopyMemberInv, ArchiveCloseInv, ArchiveFailsInv
  DEF ArchiveStep
<1>5. CASE UNCHANGED allVars
  <2>1. /\ reading' = reading /\ UNCHANGED <<pc, mutex, fileVars, disk, history>>
        /\ UNCHANGED <<at, candidates, members, content, listed, whole, shut>>
    BY <1>5 DEF allVars, vars, archiveVars
  <2>2. FileInv'
    BY <2>1, FileInvReading DEF FileInv, TypeOK
  <2>3. ArchiveTypeOK' /\ KeepsFileBesideArchive'
    BY <2>1 DEF ArchiveInv, ArchiveTypeOK, KeepsFileBesideArchive, NextMember, fileVars, history
  <2>4. \A a \in Archivers : Tidy(a)' /\ Faithful(a)' /\ Complete(a)'
    BY <2>1 DEF ArchiveInv, Tidy, Faithful, Complete, HeldIn
  <2> QED
    BY <2>2, <2>3, <2>4 DEF ArchiveInv
<1> QED
  BY <1>2, <1>3, <1>4, <1>5 DEF ArchiveNext

\* Every behaviour of loggers and archivers has the invariant.
THEOREM ArchiveInvariant == ArchiveSpec => [](FileInv /\ ArchiveInv)
<1> QED
  BY ArchiveInvInit, ArchiveInvStep, PTL DEF ArchiveSpec

-------------------------------------------------------------------------------
(* What follows from it.                                                   *)

\* The type invariant holds; nothing stays open to read but what an archiver copies.
THEOREM ArchiveTypeCorrect == ArchiveSpec => []ArchiveTypeOK
<1>1. ArchiveInv => ArchiveTypeOK
  BY DEF ArchiveInv
<1> QED
  BY <1>1, ArchiveInvariant, PTL

\* createArchive's archive has every line once that was listed and stayed in its file.
THEOREM ArchivesAreComplete == ArchiveSpec => []ArchiveIsComplete
<1>1. ArchiveInv => ArchiveIsComplete
  BY DEF ArchiveInv, Complete, Copies, ArchiveIsComplete
<1> QED
  BY <1>1, ArchiveInvariant, PTL

\* Only a copy that is going on costs a logger its file.
THEOREM OnlyCopyingShutsOut == ArchiveSpec => []KeepsFileBesideArchive
<1>1. ArchiveInv => KeepsFileBesideArchive
  BY DEF ArchiveInv
<1> QED
  BY <1>1, ArchiveInvariant, PTL

\* Beside archives, too, no line is dropped or duplicated by the loggers, and two live
\* loggers have different files until a base_PID.log is rotated.
THEOREM ArchivesDisturbNothing ==
    ArchiveSpec => [](AcceptedInOnePlace /\ OwnFileUntilStrayed /\ SizeIsExact /\ LossIsBounded)
<1>1. FileInv => AcceptedInOnePlace /\ OwnFileUntilStrayed /\ SizeIsExact /\ LossIsBounded
  BY OnePlace, OwnersDiffer DEF FileInv, SizeInv, SizeIsExact
<1> QED
  BY <1>1, ArchiveInvariant, PTL

================================================================================
