--------------------------- MODULE FileManagerProofs ---------------------------
(***************************************************************************)
(* Proofs about FileManager, for any finite set of processes, any lengths  *)
(* of lines and any limits.  FileInv is shown to hold initially and to be  *)
(* kept by every step of a logger whatever other programs read the files   *)
(* meanwhile, one lemma per step; the safety properties of run `files`     *)
(* follow from it and from the fact that without an archive nobody reads.  *)
(* Assumed: FileProcessAssumption, FileLengthAssumption,                   *)
(* FileSizeAssumption.                                                     *)
(***************************************************************************)
EXTENDS FileManager, SumLemmas, SequenceTheorems

-------------------------------------------------------------------------------
(* The invariant.                                                          *)

\* Files that two processes have open at the same time are different files.
OpenInv ==
    \A p, q \in Processes : open[p] /\ open[q] /\ name[p] = name[q] => p = q

\* Until a base_PID.log has been rotated the process with base.log is the one with
\* the mutex, and a file that is being rotated is still, or no longer, there.
OwnerInv ==
    \/ strayed
    \/ /\ \A p \in Processes :
            /\ name[p] \in {Base, Own(p)}
            /\ pc[p] = "probe" => name[p] = Own(p)
            /\ pc[p] # "off" /\ name[p] = Base => p \in mutex
            /\ pc[p] = "rename" => name[p] \in DOMAIN disk
            /\ pc[p] = "reopen" => name[p] = Base /\ Base \notin DOMAIN disk
       /\ \A p, q \in Processes :
            pc[p] # "off" /\ pc[q] # "off" /\ name[p] = Base /\ name[q] = Base => p = q

\* current_file_size_ counts the buffer and, until a base_PID.log has been rotated,
\* the file; a buffer is empty when the file was full before the last line.
SizeInv ==
    \A p \in Processes :
      /\ open[p] => /\ Bytes(buffered[p]) <= size[p]
                    /\ strayed \/ size[p] = Bytes(disk[name[p]]) + Bytes(buffered[p])
      /\ pc[p] = "rotate" => open[p]
      /\ pc[p] = "ready" /\ size[p] >= MaxSize => buffered[p] = <<>>

\* The lines of a file, if it exists.
HeldIn(f) == IF f \in DOMAIN disk THEN Range(disk[f]) ELSE {}

\* No line is twice in a file or in a buffer, or in two of the places that lines
\* are in; all lines there were accepted, and they are all that were.
PlaceInv ==
    /\ \A i \in 1 .. Len(accepted) : accepted[i].n = i
    /\ \A f \in DOMAIN disk : IsInjective(disk[f])
    /\ \A p \in Processes : IsInjective(buffered[p])
    /\ \A f, g \in DOMAIN disk : f # g => Range(disk[f]) \cap Range(disk[g]) = {}
    /\ \A p, q \in Processes : p # q => Range(buffered[p]) \cap Range(buffered[q]) = {}
    /\ \A f \in DOMAIN disk, p \in Processes : Range(disk[f]) \cap Range(buffered[p]) = {}
    /\ \A f \in DOMAIN disk : Range(disk[f]) \cap (lost \cup discarded) = {}
    /\ \A p \in Processes : Range(buffered[p]) \cap (lost \cup discarded) = {}
    /\ lost \cap discarded = {}
    /\ \A f \in DOMAIN disk : Range(disk[f]) \subseteq Range(accepted)
    /\ \A p \in Processes : Range(buffered[p]) \subseteq Range(accepted)
    /\ lost \cup discarded \subseteq Range(accepted)
    /\ \A line \in Range(accepted) :
         \/ \E f \in DOMAIN disk : line \in Range(disk[f])
         \/ \E p \in Processes : line \in Range(buffered[p])
         \/ line \in lost \cup discarded

Older(some, others) == \A a \in some, b \in others : a.n < b.n

\* Until a base_PID.log has been rotated the lines of discarded files, of
\* base.1.log, of base.log and of the buffer in front of it follow each other.
AgeInv ==
    \/ strayed
    \/ /\ \A f \in DOMAIN disk : f.kind = "history" => f = History(1)
       /\ Older(discarded, HeldIn(History(1)) \cup HeldIn(Base))
       /\ Older(HeldIn(History(1)), HeldIn(Base))
       /\ \A p \in Processes : open[p] /\ name[p] = Base =>
            Older(discarded \cup HeldIn(History(1)) \cup HeldIn(Base), Range(buffered[p]))

FileInv ==
    TypeOK /\ OpenInv /\ OwnerInv /\ SizeInv /\ LossIsBounded /\ PlaceInv /\ AgeInv

\* A logger between two calls has its file as long as nobody else reads it.
KeepsInv == reading = {} /\ KeepsFile

-------------------------------------------------------------------------------
(* Bytes.                                                                  *)

\* A line has a length.
LEMMA LineLength == \A line \in Lines : line.length \in Nat /\ line.n \in Nat
<1>1. MaxLines \in Nat
  BY FileSizeAssumption
<1>2. \A line \in Lines : line.length \in Lengths /\ line.n \in 1 .. MaxLines
  BY DEF Lines
<1>3. \A line \in Lines : line.length \in Nat
  BY <1>2, FileLengthAssumption
<1>4. \A line \in Lines : line.n \in Nat
  BY <1>1, <1>2
<1> QED
  BY <1>3, <1>4

\* No lines have no bytes.
LEMMA BytesEmpty == Bytes(<<>>) = 0
BY SumEmpty DEF Bytes, SumFunction

\* The indices of a sequence, of which the last is one.
LEMMA Indices ==
    ASSUME NEW s \in Seq(Lines), NEW line \in Lines
    PROVE  /\ Len(s) \in Nat /\ DOMAIN s = 1 .. Len(s) /\ IsFiniteSet(DOMAIN s)
           /\ DOMAIN Append(s, line) = 1 .. (Len(s) + 1)
           /\ \A i \in 1 .. Len(s) : s[i] \in Lines /\ Append(s, line)[i] = s[i]
           /\ Append(s, line)[Len(s) + 1] = line
           /\ (1 .. (Len(s) + 1)) \ {Len(s) + 1} = 1 .. Len(s)
<1>1. Len(s) \in Nat /\ DOMAIN s = 1 .. Len(s) /\ IsFiniteSet(DOMAIN s)
  BY FS_Interval
<1>2. /\ Append(s, line) \in Seq(Lines) /\ Len(Append(s, line)) = Len(s) + 1
      /\ \A i \in 1 .. Len(s) : s[i] \in Lines /\ Append(s, line)[i] = s[i]
      /\ Append(s, line)[Len(s) + 1] = line
  BY AppendProperties
<1> QED
  BY <1>1, <1>2

\* Lines have a number of bytes.
LEMMA BytesNat == ASSUME NEW s \in Seq(Lines) PROVE Bytes(s) \in Nat
<1> DEFINE f == [i \in DOMAIN s |-> s[i].length]
<1>1. IsFiniteSet(DOMAIN s) /\ \A i \in DOMAIN s : f[i] \in Nat
  BY LineLength, FS_Interval
<1>2. Bytes(s) = SumFunctionOnSet(f, DOMAIN s)
  BY DEF Bytes, SumFunction
<1> HIDE DEF f
<1> QED
  BY <1>1, <1>2, SumNat

\* A line more adds its length.
LEMMA BytesAppend ==
    ASSUME NEW s \in Seq(Lines), NEW line \in Lines
    PROVE  Bytes(Append(s, line)) = Bytes(s) + line.length
<1> DEFINE t == Append(s, line)
           f == [i \in DOMAIN t |-> t[i].length]
           h == [i \in DOMAIN s |-> s[i].length]
           D == 1 .. (Len(s) + 1)
<1>1. Bytes(t) = SumFunctionOnSet(f, DOMAIN t) /\ Bytes(s) = SumFunctionOnSet(h, DOMAIN s)
  BY DEF Bytes, SumFunction
<1>2. DOMAIN t = D /\ DOMAIN s = 1 .. Len(s) /\ D \ {Len(s) + 1} = 1 .. Len(s)
  BY Indices
<1>3. /\ \A i \in D : f[i] \in Nat
      /\ \A i \in D \ {Len(s) + 1} : h[i] = f[i]
      /\ f[Len(s) + 1] = line.length /\ Len(s) + 1 \in D
  BY Indices, LineLength
<1>4. IsFiniteSet(D)
  BY Indices, FS_Interval
<1>5. SumFunctionOnSet(h, DOMAIN s) \in Nat
  BY <1>1, BytesNat
<1> HIDE DEF t, f, h, D
<1>6. SumFunctionOnSet(f, D) = f[Len(s) + 1] + SumFunctionOnSet(h, D \ {Len(s) + 1})
  BY <1>3, <1>4, SumTake
<1>7. Bytes(t) = line.length + Bytes(s)
  BY <1>1, <1>2, <1>3, <1>6
<1> QED
  BY <1>1, <1>5, <1>7, LineLength DEF t

\* One after the other, two sequences of lines have the bytes of both.
LEMMA BytesConcat ==
    ASSUME NEW s \in Seq(Lines)
    PROVE  \A t \in Seq(Lines) : Bytes(s \o t) = Bytes(s) + Bytes(t)
<1> DEFINE P(n) == \A t \in Seq(Lines) : Len(t) = n => Bytes(s \o t) = Bytes(s) + Bytes(t)
           T == {n \in Nat : P(n)}
<1>1. P(0)
  <2> SUFFICES ASSUME NEW t \in Seq(Lines), Len(t) = 0
               PROVE  Bytes(s \o t) = Bytes(s) + Bytes(t)
    OBVIOUS
  <2>1. t = <<>> /\ s \o t = s
    OBVIOUS
  <2> QED
    BY <2>1, BytesEmpty, BytesNat
<1>2. ASSUME NEW n \in Nat, P(n) PROVE P(n + 1)
  <2> SUFFICES ASSUME NEW t \in Seq(Lines), Len(t) = n + 1
               PROVE  Bytes(s \o t) = Bytes(s) + Bytes(t)
    OBVIOUS
  <2> DEFINE u == SubSeq(t, 1, n)
             line == t[n + 1]
  <2>1. u \in Seq(Lines) /\ Len(u) = n /\ line \in Lines /\ t = Append(u, line)
    OBVIOUS
  <2>2. s \o t = Append(s \o u, line) /\ s \o u \in Seq(Lines)
    BY <2>1
  <2>3. Bytes(s \o u) = Bytes(s) + Bytes(u)
    BY <1>2, <2>1
  <2> HIDE DEF u, line, P
  <2>4. Bytes(Append(s \o u, line)) = Bytes(s \o u) + line.length
    BY <2>1, <2>2, BytesAppend
  <2>5. Bytes(t) = Bytes(u) + line.length
    BY <2>1, BytesAppend
  <2>6. Bytes(s) \in Nat /\ Bytes(u) \in Nat /\ line.length \in Nat
    BY <2>1, BytesNat, LineLength
  <2> QED
    BY <2>2, <2>3, <2>4, <2>5, <2>6
<1>3. \A n \in Nat : n \in T
  <2> HIDE DEF P
  <2>1. 0 \in T /\ \A n \in Nat : n \in T => n + 1 \in T
    BY <1>1, <1>2
  <2> HIDE DEF T
  <2> QED
    BY <2>1, NumberInduction
<1> QED
  BY <1>3

-------------------------------------------------------------------------------
(* Files.                                                                  *)

\* The names differ.
LEMMA NamesDiffer ==
    /\ \A p \in Processes : Own(p) \in FileNames /\ Own(p) # Base
    /\ \A p, q \in Processes : Own(p) = Own(q) => p = q
    /\ Base \in FileNames /\ History(1) \in FileNames /\ History(1) # Base
    /\ \A p \in Processes : Own(p) # History(1)
    /\ Base.kind = "base" /\ History(1).kind = "history"
    /\ \A p \in Processes : Own(p).kind = "own"
<1>1. 1 \in 1 .. MaxLines
  BY FileSizeAssumption
<1>2. /\ Base = [dir |-> "logs", kind |-> "base", id |-> 0]
      /\ \A p \in Processes : Own(p) = [dir |-> "logs", kind |-> "own", id |-> p]
      /\ \A k \in {1} : History(k) = [dir |-> "logs", kind |-> "history", id |-> k]
  BY DEF Base, Own, History, Path
<1>3. Base.kind # History(1).kind /\ \A p \in Processes :
        Own(p).kind # Base.kind /\ Own(p).kind # History(1).kind
  BY <1>2
<1> QED
  BY <1>1, <1>2, <1>3 DEF FileNames

\* A listing has no historical files.
LEMMA NothingListed ==
    ASSUME NEW files \in SUBSET FileNames
    PROVE  GetHistoricalFiles(files) = {}
<1>1. \A f \in FileNames : \E kind, id : f = Path(kind, id)
  BY DEF FileNames, Base, Own, History
<1>2. \A kind, id : Filename(Path(kind, id)).dir = ""
  BY DEF Filename, Path
<1>3. Base.dir = "logs"
  BY DEF Base, Path
<1>4. \A f \in FileNames : ~IsHistoricalLogFile(Filename(f))
  <2> SUFFICES ASSUME NEW f \in FileNames PROVE Filename(f).dir # Base.dir
    BY DEF IsHistoricalLogFile
  <2> QED
    BY <1>1, <1>2, <1>3
<1> QED
  BY <1>4 DEF GetHistoricalFiles

\* So every rotation renames to base.1.log.
LEMMA TargetIsFirst == ASSUME TypeOK PROVE Target = History(1)
<1>1. GetHistoricalFiles(DOMAIN disk) = {}
  BY NothingListed DEF TypeOK
<1>2. Max({0}) = 0
  BY DEF Max
<1>3. {0} \cup {f.id : f \in {}} = {0}
  OBVIOUS
<1> QED
  BY <1>1, <1>2, <1>3 DEF Target, CalculateNextSequenceNumber

\* And no file is deleted for its age.
LEMMA NothingDeleted ==
    ASSUME NEW D \in SUBSET FileNames, NEW d \in [D -> Seq(Lines)]
    PROVE  DeleteOldestFiles(d) = d
BY NothingListed DEF DeleteOldestFiles

\* Two sequences with nothing in common, one after the other.
LEMMA InjectiveConcat ==
    ASSUME NEW s \in Seq(Lines), NEW t \in Seq(Lines), IsInjective(s), IsInjective(t),
           Range(s) \cap Range(t) = {}
    PROVE  s \o t \in Seq(Lines) /\ IsInjective(s \o t) /\ Range(s \o t) = Range(s) \cup Range(t)
<1>1. /\ s \o t \in Seq(Lines) /\ Len(s \o t) = Len(s) + Len(t)
      /\ \A i \in 1 .. (Len(s) + Len(t)) :
           (s \o t)[i] = IF i <= Len(s) THEN s[i] ELSE t[i - Len(s)]
  BY ConcatProperties
<1>2. \A i \in 1 .. Len(s), j \in 1 .. Len(t) : s[i] # t[j]
  BY DEF Range
<1>3. IsInjective(s \o t)
  <2> SUFFICES ASSUME NEW i \in 1 .. (Len(s) + Len(t)), NEW j \in 1 .. (Len(s) + Len(t)),
                      (s \o t)[i] = (s \o t)[j]
               PROVE  i = j
    BY <1>1 DEF IsInjective
  <2>1. CASE i <= Len(s) /\ j <= Len(s)
    BY <1>1, <2>1 DEF IsInjective
  <2>2. CASE i > Len(s) /\ j > Len(s)
    <3>1. i - Len(s) \in DOMAIN t /\ j - Len(s) \in DOMAIN t
      BY <2>2
    <3>2. t[i - Len(s)] = t[j - Len(s)]
      BY <1>1, <2>2
    <3>3. i - Len(s) = j - Len(s)
      BY <3>1, <3>2 DEF IsInjective
    <3> QED
      BY <3>3
  <2>3. CASE i <= Len(s) /\ j > Len(s)
    BY <1>1, <1>2, <2>3
  <2>4. CASE i > Len(s) /\ j <= Len(s)
    BY <1>1, <1>2, <2>4
  <2> QED
    BY <2>1, <2>2, <2>3, <2>4
<1> QED
  BY <1>1, <1>3, RangeConcatenation

\* What a step does with the lines of p that were in its buffer and with fresh ones:
\* out goes to p's file, kept is in the buffer, gone is lost.
Moves(p, out, kept, gone, fresh) ==
    /\ out \in Seq(Lines) /\ kept \in Seq(Lines) /\ gone \subseteq Lines /\ fresh \subseteq Lines
    /\ IsInjective(out) /\ IsInjective(kept) /\ Range(out) \cap Range(kept) = {}
    /\ gone \cap (Range(out) \cup Range(kept)) = {}
    /\ Range(out) \cup Range(kept) \cup gone = Range(buffered[p]) \cup fresh
    /\ out = <<>> \/ kept = <<>>
    /\ open[p] \/ out = <<>>
    /\ disk' = IF open[p] THEN [disk EXCEPT ![name[p]] = @ \o out] ELSE disk
    /\ buffered' = [buffered EXCEPT ![p] = kept]
    /\ lost' = lost \cup gone /\ discarded' = discarded
    /\ Range(accepted') = Range(accepted) \cup fresh
    /\ \A i \in 1 .. Len(accepted') : accepted'[i].n = i
    /\ \A line \in fresh : line.n = Len(accepted) + 1

\* Accepted lines have numbers up to the number of accepted lines.
LEMMA AcceptedNumbers ==
    ASSUME TypeOK, PlaceInv
    PROVE  \A line \in Range(accepted) : line.n \in Nat /\ line.n <= Len(accepted)
<1>1. accepted \in Seq(Lines) /\ Len(accepted) \in Nat
  BY DEF TypeOK
<1>2. \A line \in Range(accepted) : \E i \in 1 .. Len(accepted) : line = accepted[i]
  BY <1>1 DEF Range
<1>3. \A i \in 1 .. Len(accepted) : accepted[i].n = i
  BY DEF PlaceInv
<1>4. ASSUME NEW line \in Range(accepted)
      PROVE  line.n \in Nat /\ line.n <= Len(accepted)
  <2>1. PICK i \in 1 .. Len(accepted) : line = accepted[i]
    BY <1>2
  <2>2. line.n = i
    BY <1>3, <2>1
  <2> QED
    BY <1>1, <2>2
<1> QED
  BY <1>4

\* No line comes to be twice, and none disappears.
LEMMA LinesMove ==
    ASSUME TypeOK, PlaceInv, NEW p \in Processes, NEW out, NEW kept, NEW gone, NEW fresh,
           Moves(p, out, kept, gone, fresh)
    PROVE  PlaceInv'
<1>0. fresh \cap Range(accepted) = {}
  <2>1. Len(accepted) \in Nat /\ \A line \in fresh : line.n = Len(accepted) + 1
    BY DEF TypeOK, Moves
  <2> QED
    BY <2>1, AcceptedNumbers
<1> USE DEF Moves
<1>1. /\ \A f \in DOMAIN disk : disk[f] \in Seq(Lines)
      /\ \A q \in Processes : buffered[q] \in Seq(Lines)
      /\ open[p] => name[p] \in DOMAIN disk
  BY DEF TypeOK
<1>2. DOMAIN disk' = DOMAIN disk
  OBVIOUS
<1>3. \A q \in Processes : buffered'[q] = IF q = p THEN kept ELSE buffered[q]
  BY DEF TypeOK
<1>4. \A f \in DOMAIN disk : disk'[f] = IF open[p] /\ f = name[p] THEN disk[f] \o out
                                        ELSE disk[f]
  BY DEF TypeOK
<1>5. open[p] => /\ IsInjective(disk[name[p]] \o out)
                 /\ Range(disk[name[p]] \o out) = Range(disk[name[p]]) \cup Range(out)
  <2> SUFFICES ASSUME open[p]
               PROVE  /\ IsInjective(disk[name[p]] \o out)
                      /\ Range(disk[name[p]] \o out) = Range(disk[name[p]]) \cup Range(out)
    OBVIOUS
  <2>1. Range(disk[name[p]]) \cap Range(out) = {}
    BY <1>0, <1>1 DEF PlaceInv
  <2> QED
    BY <1>1, <2>1, InjectiveConcat DEF PlaceInv
<1>6. \A f \in DOMAIN disk : Range(disk'[f]) = IF open[p] /\ f = name[p]
                                               THEN Range(disk[f]) \cup Range(out)
                                               ELSE Range(disk[f])
  BY <1>4, <1>5
<1>7. \A q \in Processes : Range(buffered'[q]) = IF q = p THEN Range(kept)
                                                 ELSE Range(buffered[q])
  BY <1>3
<1>8. Range(out) = {} \/ open[p]
  BY DEF Range
<1> DEFINE moved == Range(buffered[p]) \cup fresh
<1>9. /\ \A f \in DOMAIN disk : Range(disk[f]) \cap moved = {}
      /\ \A q \in Processes \ {p} : Range(buffered[q]) \cap moved = {}
      /\ (lost \cup discarded) \cap moved = {}
  BY <1>0 DEF PlaceInv
<1>10. Range(out) \subseteq moved /\ Range(kept) \subseteq moved /\ gone \subseteq moved
       /\ moved = Range(out) \cup Range(kept) \cup gone
  OBVIOUS
<1>11. lost' = lost \cup gone /\ discarded' = discarded
       /\ Range(accepted') = Range(accepted) \cup fresh
       /\ IsInjective(kept) /\ Range(out) \cap Range(kept) = {}
       /\ gone \cap (Range(out) \cup Range(kept)) = {}
       /\ \A i \in 1 .. Len(accepted') : accepted'[i].n = i
  OBVIOUS
<1> HIDE DEF moved, Moves
<1>12. /\ \A f \in DOMAIN disk' : IsInjective(disk'[f])
       /\ \A q \in Processes : IsInjective(buffered'[q])
  <2>1. /\ \A f \in DOMAIN disk : IsInjective(disk[f])
        /\ \A q \in Processes : IsInjective(buffered[q])
    BY DEF PlaceInv
  <2>2. \A f \in DOMAIN disk' : IsInjective(disk'[f])
    BY <1>2, <1>4, <1>5, <2>1
  <2>3. \A q \in Processes : IsInjective(buffered'[q])
    BY <1>3, <1>11, <2>1
  <2> QED
    BY <2>2, <2>3
<1>13. \A f, g \in DOMAIN disk' : f # g => Range(disk'[f]) \cap Range(disk'[g]) = {}
  BY <1>2, <1>6, <1>9, <1>10 DEF PlaceInv
<1>14. \A f \in DOMAIN disk', q \in Processes : Range(disk'[f]) \cap Range(buffered'[q]) = {}
  <2> SUFFICES ASSUME NEW f \in DOMAIN disk, NEW q \in Processes
               PROVE  Range(disk'[f]) \cap Range(buffered'[q]) = {}
    BY <1>2
  <2>1. Range(disk[f]) \cap Range(buffered[q]) = {}
    BY DEF PlaceInv
  <2>2. CASE q = p
    BY <1>11, <1>6, <1>7, <1>9, <1>10, <2>2
  <2>3. CASE q # p
    BY <1>6, <1>7, <1>9, <1>10, <2>1, <2>3
  <2> QED
    BY <2>2, <2>3
<1>15. \A q, r \in Processes : q # r => Range(buffered'[q]) \cap Range(buffered'[r]) = {}
  <2> SUFFICES ASSUME NEW q \in Processes, NEW r \in Processes, q # r
               PROVE  Range(buffered'[q]) \cap Range(buffered'[r]) = {}
    OBVIOUS
  <2>1. Range(buffered[q]) \cap Range(buffered[r]) = {}
    BY DEF PlaceInv
  <2>2. CASE q # p /\ r # p
    BY <1>7, <2>1, <2>2
  <2>3. CASE q = p \/ r = p
    BY <1>7, <1>9, <1>10, <2>3
  <2> QED
    BY <2>2, <2>3
<1>16. /\ \A f \in DOMAIN disk' : Range(disk'[f]) \cap (lost' \cup discarded') = {}
       /\ \A q \in Processes : Range(buffered'[q]) \cap (lost' \cup discarded') = {}
       /\ lost' \cap discarded' = {}
  <2>1. /\ \A f \in DOMAIN disk : Range(disk[f]) \cap (lost \cup discarded) = {}
        /\ \A q \in Processes : Range(buffered[q]) \cap (lost \cup discarded) = {}
        /\ lost \cap discarded = {}
    BY DEF PlaceInv
  <2>2. ASSUME NEW f \in DOMAIN disk
        PROVE  Range(disk'[f]) \cap (lost' \cup discarded') = {}
    <3>1. Range(disk[f]) \cap (lost' \cup discarded') = {}
      BY <1>11, <1>9, <1>10, <2>1
    <3>2. Range(out) \cap (lost' \cup discarded') = {}
      BY <1>11, <1>9, <1>10
    <3> QED
      BY <1>6, <3>1, <3>2
  <2>3. ASSUME NEW q \in Processes
        PROVE  Range(buffered'[q]) \cap (lost' \cup discarded') = {}
    BY <1>11, <1>7, <1>9, <1>10, <2>1
  <2>4. lost' \cap discarded' = {}
    BY <1>11, <1>9, <1>10, <2>1
  <2> QED
    BY <1>2, <2>2, <2>3, <2>4
<1>17. moved \subseteq Range(accepted') /\ Range(accepted) \subseteq Range(accepted')
  BY <1>11 DEF PlaceInv, moved
<1>18. /\ \A f \in DOMAIN disk' : Range(disk'[f]) \subseteq Range(accepted')
       /\ \A q \in Processes : Range(buffered'[q]) \subseteq Range(accepted')
       /\ lost' \cup discarded' \subseteq Range(accepted')
  <2>1. /\ \A f \in DOMAIN disk : Range(disk[f]) \subseteq Range(accepted)
        /\ \A q \in Processes : Range(buffered[q]) \subseteq Range(accepted)
        /\ lost \cup discarded \subseteq Range(accepted)
    BY DEF PlaceInv
  <2>2. \A f \in DOMAIN disk : Range(disk'[f]) \subseteq Range(accepted')
    BY <1>6, <1>10, <1>17, <2>1
  <2>3. \A q \in Processes : Range(buffered'[q]) \subseteq Range(accepted')
    BY <1>7, <1>10, <1>17, <2>1
  <2>4. lost' \cup discarded' \subseteq Range(accepted')
    BY <1>11, <1>10, <1>17, <2>1
  <2> QED
    BY <1>2, <2>2, <2>3, <2>4
<1>19. \A line \in Range(accepted') :
         \/ \E f \in DOMAIN disk' : line \in Range(disk'[f])
         \/ \E q \in Processes : line \in Range(buffered'[q])
         \/ line \in lost' \cup discarded'
  <2> SUFFICES ASSUME NEW line \in Range(accepted')
               PROVE  \/ \E f \in DOMAIN disk' : line \in Range(disk'[f])
                      \/ \E q \in Processes : line \in Range(buffered'[q])
                      \/ line \in lost' \cup discarded'
    OBVIOUS
  <2>1. CASE line \in moved
    BY <1>11, <1>1, <1>2, <1>6, <1>7, <1>8, <1>10, <2>1
  <2>2. CASE line \notin moved
    <3>1. \/ \E f \in DOMAIN disk : line \in Range(disk[f])
          \/ \E q \in Processes \ {p} : line \in Range(buffered[q])
          \/ line \in lost \cup discarded
      BY <1>11, <2>2 DEF PlaceInv, moved
    <3> QED
      BY <1>11, <1>2, <1>6, <1>7, <3>1
  <2> QED
    BY <2>1, <2>2
<1> QED
  BY <1>11, <1>12, <1>13, <1>14, <1>15, <1>16, <1>18, <1>19 DEF PlaceInv

\* The ages of the lines that moved.
LEMMA AgesMove ==
    ASSUME TypeOK, PlaceInv, OpenInv, OwnerInv, AgeInv, NEW p \in Processes,
           NEW out, NEW kept, NEW gone, NEW fresh, Moves(p, out, kept, gone, fresh),
           \A q \in Processes : open'[q] => open[q] /\ name'[q] = name[q],
           strayed' = strayed
    PROVE  AgeInv'
<1> SUFFICES ASSUME ~strayed PROVE AgeInv'
  BY DEF AgeInv
<1>1. /\ \A f \in DOMAIN disk : disk[f] \in Seq(Lines)
      /\ \A q \in Processes : buffered[q] \in Seq(Lines)
      /\ open[p] => name[p] \in DOMAIN disk
      /\ name[p] \in {Base, Own(p)} /\ out \in Seq(Lines)
  BY DEF TypeOK, OwnerInv, Moves
<1>2. DOMAIN disk' = DOMAIN disk
  BY DEF Moves
<1>3. \A f \in DOMAIN disk :
        Range(disk'[f]) = IF open[p] /\ f = name[p] THEN Range(disk[f]) \cup Range(out)
                          ELSE Range(disk[f])
  <2> SUFFICES ASSUME NEW f \in DOMAIN disk
               PROVE  Range(disk'[f]) = IF open[p] /\ f = name[p]
                                        THEN Range(disk[f]) \cup Range(out) ELSE Range(disk[f])
    OBVIOUS
  <2>1. disk'[f] = IF open[p] /\ f = name[p] THEN disk[f] \o out ELSE disk[f]
    BY <1>1 DEF Moves, TypeOK
  <2>2. Range(disk[f] \o out) = Range(disk[f]) \cup Range(out)
    BY <1>1, RangeConcatenation
  <2> QED
    BY <2>1, <2>2
<1>4. \A q \in Processes : Range(buffered'[q]) = IF q = p THEN Range(kept)
                                                 ELSE Range(buffered[q])
  BY DEF Moves, TypeOK
<1>5. HeldIn(History(1))' = HeldIn(History(1)) /\ discarded' = discarded
  BY <1>1, <1>2, <1>3, NamesDiffer DEF HeldIn, Moves
<1>6. HeldIn(Base)' = IF open[p] /\ name[p] = Base THEN HeldIn(Base) \cup Range(out)
                      ELSE HeldIn(Base)
  BY <1>1, <1>2, <1>3 DEF HeldIn
<1>7. HeldIn(Base) \cup HeldIn(History(1)) \cup discarded \subseteq Range(accepted)
  BY DEF HeldIn, PlaceInv
<1>8. Range(out) \cup Range(kept) \subseteq Range(buffered[p]) \cup fresh
  BY DEF Moves
<1>9. Older(Range(accepted), fresh)
  <2>1. Len(accepted) \in Nat /\ \A line \in fresh : line.n = Len(accepted) + 1
    BY DEF Moves, TypeOK
  <2>2. \A line \in Range(accepted) : line.n \in Nat /\ line.n <= Len(accepted)
    BY AcceptedNumbers
  <2> QED
    BY <2>1, <2>2 DEF Older
<1>10. open[p] /\ name[p] = Base =>
         Older(discarded \cup HeldIn(History(1)) \cup HeldIn(Base), Range(out) \cup Range(kept))
  BY <1>7, <1>8, <1>9 DEF AgeInv, Older
<1>11. Range(out) = {} \/ Range(kept) = {}
  BY DEF Moves, Range
<1>12. Older(discarded', HeldIn(History(1))' \cup HeldIn(Base)')
  BY <1>5, <1>6, <1>10 DEF AgeInv, Older
<1>13. Older(HeldIn(History(1))', HeldIn(Base)')
  BY <1>5, <1>6, <1>10 DEF AgeInv, Older
<1>14. ASSUME NEW q \in Processes, open'[q], name'[q] = Base
       PROVE  Older(discarded' \cup HeldIn(History(1))' \cup HeldIn(Base)', Range(buffered'[q]))
  <2>1. open[q] /\ name[q] = Base
    BY <1>14
  <2>2. CASE q = p
    BY <1>4, <1>5, <1>6, <1>10, <1>11, <2>1, <2>2 DEF Older
  <2>3. CASE q # p
    <3>1. HeldIn(Base)' = HeldIn(Base)
      BY <1>6, <2>1, <2>3 DEF OpenInv
    <3> QED
      BY <1>4, <1>5, <2>1, <2>3, <3>1 DEF AgeInv
  <2> QED
    BY <2>2, <2>3
<1> QED
  BY <1>2, <1>12, <1>13, <1>14 DEF AgeInv

-------------------------------------------------------------------------------
(* Steps that move no line: the process has no file open.                  *)

States == {"off", "probe", "open", "ready", "rotate", "rename", "reopen", "cleanup"}

\* All but the ownership of base.log is kept by them for a common reason.
LEMMA ClosedStep ==
    ASSUME FileInv, reading' \subseteq FileNames, NEW p \in Processes, ~open[p],
           NEW there \in States, there # "rotate", pc' = [pc EXCEPT ![p] = there],
           name' \in [Processes -> FileNames], mutex' \subseteq Processes,
           \A q \in Processes \ {p} : name'[q] = name[q] /\ (q \in mutex' => q \in mutex),
           there = "off" => p \notin mutex',
           size' \in [Processes -> Nat], \A q \in Processes \ {p} : size'[q] = size[q],
           UNCHANGED <<open, buffered, disk, accepted, lost, discarded, sinceFlush, strayed>>,
           OwnerInv'
    PROVE  FileInv'
<1> USE DEF FileInv
<1>1. pc' \in [Processes -> States]
      /\ \A q \in Processes : pc'[q] = IF q = p THEN there ELSE pc[q]
  BY DEF TypeOK, States
<1>2. TypeOK'
  BY <1>1 DEF TypeOK, States
<1>3. OpenInv'
  BY DEF OpenInv
<1>4. buffered[p] = <<>>
  BY DEF TypeOK
<1>5. SizeInv'
  BY <1>1, <1>4 DEF SizeInv
<1>6. LossIsBounded'
  BY DEF LossIsBounded
<1>7. PlaceInv'
  BY DEF PlaceInv
<1>8. AgeInv'
  BY DEF AgeInv, HeldIn
<1> QED
  BY <1>2, <1>3, <1>5, <1>6, <1>7, <1>8

\* CreateMutexW makes the mutex: no other process can have base.log, because its
\* owner has a handle to the mutex.
LEMMA InitializeFirstInv ==
    ASSUME FileInv, reading' \subseteq FileNames, NEW p \in Processes, InitializeFirst(p)
    PROVE  FileInv'
<1> USE DEF InitializeFirst, Goto, GenerateFileName, history
<1>1. pc[p] = "off" /\ ~open[p] /\ mutex = {}
  BY DEF FileInv, TypeOK
<1>2. /\ name' \in [Processes -> FileNames]
      /\ \A q \in Processes : name'[q] = IF q = p THEN Base ELSE name[q]
      /\ \A q \in Processes : pc'[q] = IF q = p THEN "open" ELSE pc[q]
  BY NamesDiffer DEF FileInv, TypeOK
<1>3. OwnerInv'
  BY <1>1, <1>2, NamesDiffer DEF FileInv, OwnerInv
<1>4. /\ pc' = [pc EXCEPT ![p] = "open"] /\ "open" \in States
      /\ size' \in [Processes -> Nat] /\ size' = size /\ mutex' \subseteq Processes
      /\ UNCHANGED <<open, buffered, disk, accepted, lost, discarded, sinceFlush, strayed>>
  BY DEF FileInv, TypeOK, States
<1> QED
  BY <1>1, <1>2, <1>3, <1>4, ClosedStep

\* The mutex exists: the name of the file has the process id.
LEMMA InitializeProbeInv ==
    ASSUME FileInv, reading' \subseteq FileNames, NEW p \in Processes, InitializeProbe(p)
    PROVE  FileInv'
<1> USE DEF InitializeProbe, Goto, GenerateFileName, history
<1>1. pc[p] = "off" /\ ~open[p]
  BY DEF FileInv, TypeOK
<1>2. /\ name' \in [Processes -> FileNames]
      /\ \A q \in Processes : name'[q] = IF q = p THEN Own(p) ELSE name[q]
      /\ \A q \in Processes : pc'[q] = IF q = p THEN "probe" ELSE pc[q]
  BY NamesDiffer DEF FileInv, TypeOK
<1>3. OwnerInv'
  BY <1>1, <1>2, NamesDiffer DEF FileInv, OwnerInv
<1>4. /\ pc' = [pc EXCEPT ![p] = "probe"] /\ "probe" \in States
      /\ size' \in [Processes -> Nat] /\ size' = size /\ mutex' \subseteq Processes
      /\ UNCHANGED <<open, buffered, disk, accepted, lost, discarded, sinceFlush, strayed>>
  BY DEF FileInv, TypeOK, States
<1> QED
  BY <1>1, <1>2, <1>3, <1>4, ClosedStep

\* The handle that is closed again is not base.log's owner's.
LEMMA InitializeCloseProbeInv ==
    ASSUME FileInv, reading' \subseteq FileNames, NEW p \in Processes, InitializeCloseProbe(p)
    PROVE  FileInv'
<1> USE DEF InitializeCloseProbe, Goto, fileVars, history
<1>1. pc[p] = "probe" /\ ~open[p]
  BY DEF FileInv, TypeOK
<1>2. \A q \in Processes : pc'[q] = IF q = p THEN "open" ELSE pc[q]
  BY DEF FileInv, TypeOK
<1>3. OwnerInv'
  BY <1>1, <1>2, NamesDiffer DEF FileInv, OwnerInv
<1> QED
  BY <1>1, <1>2, <1>3, ClosedStep DEF FileInv, TypeOK, States

\* The logger goes on without a file.
LEMMA RotateRenameFailsInv ==
    ASSUME FileInv, reading' \subseteq FileNames, NEW p \in Processes, RotateRenameFails(p)
    PROVE  FileInv'
<1> USE DEF RotateRenameFails, Goto, fileVars, history
<1>1. pc[p] = "rename" /\ ~open[p]
  BY DEF FileInv, TypeOK
<1>2. \A q \in Processes : pc'[q] = IF q = p THEN "ready" ELSE pc[q]
  BY DEF FileInv, TypeOK
<1>3. OwnerInv'
  BY <1>1, <1>2 DEF FileInv, OwnerInv
<1> QED
  BY <1>1, <1>2, <1>3, ClosedStep DEF FileInv, TypeOK, States

\* The mutex is released after the file is closed.
LEMMA DestroyMutexInv ==
    ASSUME FileInv, reading' \subseteq FileNames, NEW p \in Processes, DestroyMutex(p)
    PROVE  FileInv'
<1> USE DEF DestroyMutex, Goto, history
<1>1. pc[p] = "cleanup" /\ ~open[p] /\ buffered[p] = <<>>
  BY DEF FileInv, TypeOK
<1>2. /\ open' = open /\ buffered' = buffered
      /\ name' \in [Processes -> FileNames] /\ size' \in [Processes -> Nat]
      /\ \A q \in Processes \ {p} : name'[q] = name[q] /\ size'[q] = size[q]
      /\ name'[p] = Base
      /\ \A q \in Processes : pc'[q] = IF q = p THEN "off" ELSE pc[q]
  BY <1>1, NamesDiffer DEF FileInv, TypeOK
<1>3. OwnerInv'
  BY <1>1, <1>2, NamesDiffer DEF FileInv, OwnerInv
<1> QED
  BY <1>1, <1>2, <1>3, ClosedStep DEF FileInv, TypeOK, States

-------------------------------------------------------------------------------
(* Steps that move lines from the buffer.                                  *)

\* What is left to show of them is what p's own size and buffer are.
LEMMA MoveStep ==
    ASSUME FileInv, reading' \subseteq FileNames, NEW p \in Processes,
           NEW out, NEW kept, NEW gone, NEW fresh, Moves(p, out, kept, gone, fresh),
           NEW there \in States, pc' = [pc EXCEPT ![p] = there],
           name' \in [Processes -> FileNames], mutex' \subseteq Processes,
           \A q \in Processes \ {p} : name'[q] = name[q] /\ (q \in mutex' => q \in mutex),
           there = "off" => p \notin mutex',
           NEW stays \in BOOLEAN, open' = [open EXCEPT ![p] = stays],
           stays => open[p] /\ there \in {"ready", "rotate"} /\ name'[p] = name[p],
           ~stays => kept = <<>> /\ there # "rotate",
           size' \in [Processes -> Nat], \A q \in Processes \ {p} : size'[q] = size[q],
           sinceFlush' \in [Processes -> Nat], accepted' \in Seq(Lines), strayed' = strayed,
           stays => /\ Bytes(kept) <= size'[p]
                    /\ strayed \/ size'[p] = Bytes(disk'[name[p]]) + Bytes(kept),
           there = "ready" /\ size'[p] >= MaxSize => kept = <<>>,
           \A length \in Lengths :
             (\A other \in Lengths : other <= length) => Bytes(kept) < MaxSize + length,
           OwnerInv'
    PROVE  FileInv'
<1> USE DEF FileInv
<1>1. /\ pc' \in [Processes -> States]
      /\ \A q \in Processes : pc'[q] = IF q = p THEN there ELSE pc[q]
      /\ open' \in [Processes -> BOOLEAN]
      /\ \A q \in Processes : open'[q] = IF q = p THEN stays ELSE open[q]
  BY DEF TypeOK, States
<1>2. /\ kept \in Seq(Lines) /\ out \in Seq(Lines) /\ gone \subseteq Lines
      /\ disk' = IF open[p] THEN [disk EXCEPT ![name[p]] = @ \o out] ELSE disk
      /\ buffered' = [buffered EXCEPT ![p] = kept]
      /\ lost' = lost \cup gone /\ discarded' = discarded
  BY DEF Moves
<1>3. /\ buffered' \in [Processes -> Seq(Lines)]
      /\ \A q \in Processes : buffered'[q] = IF q = p THEN kept ELSE buffered[q]
  BY <1>2 DEF TypeOK
<1>4. /\ DOMAIN disk' = DOMAIN disk /\ disk' \in [DOMAIN disk -> Seq(Lines)]
      /\ \A f \in DOMAIN disk : f # name[p] => disk'[f] = disk[f]
      /\ ~open[p] => disk' = disk
  <2>1. CASE open[p]
    <3>1. disk[name[p]] \o out \in Seq(Lines) /\ disk \in [DOMAIN disk -> Seq(Lines)]
      BY <1>2, <2>1, ConcatProperties DEF TypeOK
    <3> QED
      BY <1>2, <2>1, <3>1
  <2>2. CASE ~open[p]
    BY <1>2, <2>2 DEF TypeOK
  <2> QED
    BY <2>1, <2>2
<1>5. TypeOK'
  <2>1. \A q \in Processes :
          /\ open'[q] => pc'[q] \in {"ready", "rotate"} /\ name'[q] \in DOMAIN disk'
          /\ ~open'[q] => buffered'[q] = <<>>
          /\ pc'[q] = "off" => q \notin mutex'
    BY SMTT(30), <1>1, <1>3, <1>4 DEF TypeOK
  <2>2. lost' \cup discarded' \subseteq Lines
    BY <1>2 DEF TypeOK
  <2> QED
    BY <1>1, <1>3, <1>4, <2>1, <2>2 DEF TypeOK, States
<1>6. OpenInv'
  BY SMTT(30), <1>1 DEF OpenInv
<1>7. SizeInv'
  <2> SUFFICES ASSUME NEW q \in Processes
               PROVE  /\ open'[q] =>
                           /\ Bytes(buffered'[q]) <= size'[q]
                           /\ strayed \/ size'[q] = Bytes(disk'[name'[q]]) + Bytes(buffered'[q])
                      /\ pc'[q] = "rotate" => open'[q]
                      /\ pc'[q] = "ready" /\ size'[q] >= MaxSize => buffered'[q] = <<>>
    BY DEF SizeInv, Bytes
  <2>1. CASE q = p
    BY <1>1, <1>3, <2>1
  <2>2. CASE q # p
    <3>1. /\ open'[q] = open[q] /\ buffered'[q] = buffered[q] /\ size'[q] = size[q]
          /\ pc'[q] = pc[q] /\ name'[q] = name[q]
      BY <1>1, <1>3, <2>2
    <3>2. open[q] => disk'[name[q]] = disk[name[q]]
      BY <1>4, <2>2 DEF OpenInv, TypeOK
    <3> QED
      BY <3>1, <3>2 DEF SizeInv
  <2> QED
    BY <2>1, <2>2
<1>8. LossIsBounded'
  <2> SUFFICES ASSUME NEW q \in Processes, NEW length \in Lengths,
                      \A other \in Lengths : other <= length
               PROVE  Bytes(buffered'[q]) < MaxSize + length
    BY DEF LossIsBounded, Bytes
  <2> QED
    BY <1>3 DEF LossIsBounded
<1>9. PlaceInv'
  BY LinesMove
<1>10. AgeInv'
  <2>1. \A q \in Processes : open'[q] => open[q] /\ name'[q] = name[q]
    BY <1>1
  <2> QED
    BY <2>1, AgesMove
<1> QED
  BY <1>5, <1>6, <1>7, <1>8, <1>9, <1>10

\* A buffer that is written out whole.
LEMMA BufferMoves ==
    ASSUME FileInv, NEW p \in Processes, WriteOut(p, buffered[p]),
           buffered' = [buffered EXCEPT ![p] = <<>>], UNCHANGED <<accepted, lost, discarded>>
    PROVE  Moves(p, buffered[p], <<>>, {}, {})
<1>1. buffered[p] \in Seq(Lines) /\ IsInjective(buffered[p]) /\ (open[p] \/ buffered[p] = <<>>)
  BY DEF FileInv, TypeOK, PlaceInv
<1>2. <<>> \in Seq(Lines) /\ IsInjective(<<>>) /\ Range(<<>>) = {}
  BY DEF IsInjective, Range
<1>3. \A i \in 1 .. Len(accepted') : accepted'[i].n = i
  BY DEF FileInv, PlaceInv
<1>4. /\ lost' = lost \cup {} /\ Range(accepted') = Range(accepted) \cup {}
      /\ Range(buffered[p]) \cap Range(<<>>) = {}
      /\ Range(buffered[p]) \cup Range(<<>>) \cup {} = Range(buffered[p]) \cup {}
      /\ {} \cap (Range(buffered[p]) \cup Range(<<>>)) = {} /\ {} \subseteq Lines
  BY <1>2
<1>5. disk' = IF open[p] THEN [disk EXCEPT ![name[p]] = @ \o buffered[p]] ELSE disk
  BY DEF WriteOut
<1> QED
  BY <1>1, <1>2, <1>3, <1>4, <1>5 DEF Moves

\* Nothing is in a buffer.
LEMMA EmptyBuffer ==
    \A length \in Lengths :
      (\A other \in Lengths : other <= length) => Bytes(<<>>) < MaxSize + length
BY BytesEmpty, FileSizeAssumption, FileLengthAssumption

\* fflush: the file gets the buffer's bytes.
LEMMA FlushInv ==
    ASSUME FileInv, reading' \subseteq FileNames, NEW p \in Processes, Flush(p)
    PROVE  FileInv'
<1> USE DEF Flush
<1>1. /\ pc[p] = "ready" /\ open[p] /\ Moves(p, buffered[p], <<>>, {}, {})
      /\ buffered[p] \in Seq(Lines) /\ name[p] \in DOMAIN disk
      /\ disk \in [DOMAIN disk -> Seq(Lines)] /\ size[p] \in Nat
  BY BufferMoves DEF FileInv, TypeOK
<1>2. disk'[name[p]] = disk[name[p]] \o buffered[p] /\ disk[name[p]] \in Seq(Lines)
  BY <1>1 DEF WriteOut
<1>3. Bytes(disk'[name[p]]) + Bytes(<<>>) = Bytes(disk[name[p]]) + Bytes(buffered[p])
  BY <1>1, <1>2, BytesConcat, BytesEmpty, BytesNat
<1>4. Bytes(<<>>) <= size'[p]
      /\ (strayed \/ size'[p] = Bytes(disk'[name[p]]) + Bytes(<<>>))
  BY <1>1, <1>3, BytesEmpty DEF FileInv, SizeInv
<1>5. pc' = [pc EXCEPT ![p] = "ready"] /\ open' = [open EXCEPT ![p] = TRUE]
      /\ sinceFlush' \in [Processes -> Nat]
  BY <1>1 DEF FileInv, TypeOK
<1>6. OwnerInv'
  BY <1>1 DEF FileInv, OwnerInv, WriteOut
<1> QED
  BY <1>1, <1>4, <1>5, <1>6, EmptyBuffer, MoveStep DEF FileInv, TypeOK, States

\* CloseCurrentFile in Rotate: the file that is to be renamed is there.
LEMMA RotateCloseInv ==
    ASSUME FileInv, reading' \subseteq FileNames, NEW p \in Processes, RotateClose(p)
    PROVE  FileInv'
<1> USE DEF RotateClose, CloseCurrentFile, Goto
<1>1. /\ pc[p] = "rotate" /\ open[p] /\ Moves(p, buffered[p], <<>>, {}, {})
      /\ name[p] \in DOMAIN disk
  BY BufferMoves DEF FileInv, TypeOK, SizeInv
<1>2. DOMAIN disk' = DOMAIN disk /\ sinceFlush' \in [Processes -> Nat]
      /\ \A q \in Processes : pc'[q] = IF q = p THEN "rename" ELSE pc[q]
  BY <1>1 DEF WriteOut, FileInv, TypeOK
<1>3. OwnerInv'
  BY <1>1, <1>2 DEF FileInv, OwnerInv
<1> QED
  BY <1>1, <1>2, <1>3, EmptyBuffer, MoveStep DEF FileInv, TypeOK, States

\* CloseCurrentFile in ~FileManager.
LEMMA DestroyCloseInv ==
    ASSUME FileInv, reading' \subseteq FileNames, NEW p \in Processes, DestroyClose(p)
    PROVE  FileInv'
<1> USE DEF DestroyClose, CloseCurrentFile, Goto
<1>1. pc[p] = "ready" /\ Moves(p, buffered[p], <<>>, {}, {})
  BY BufferMoves DEF FileInv, TypeOK
<1>2. DOMAIN disk' = DOMAIN disk /\ sinceFlush' \in [Processes -> Nat]
      /\ \A q \in Processes : pc'[q] = IF q = p THEN "cleanup" ELSE pc[q]
  BY <1>1 DEF WriteOut, FileInv, TypeOK
<1>3. OwnerInv'
  BY <1>1, <1>2 DEF FileInv, OwnerInv
<1> QED
  BY <1>1, <1>2, <1>3, EmptyBuffer, MoveStep DEF FileInv, TypeOK, States

\* A crash: the system has a part of the buffer, the rest of it is lost.
LEMMA CrashMoves ==
    ASSUME FileInv, NEW p \in Processes, NEW k \in 0 .. Len(buffered[p]),
           WriteOut(p, SubSeq(buffered[p], 1, k)),
           lost' = lost \cup {buffered[p][i] : i \in k + 1 .. Len(buffered[p])},
           buffered' = [buffered EXCEPT ![p] = <<>>], UNCHANGED <<accepted, discarded>>
    PROVE  Moves(p, SubSeq(buffered[p], 1, k), <<>>,
                 {buffered[p][i] : i \in k + 1 .. Len(buffered[p])}, {})
<1> DEFINE b == buffered[p]
           out == SubSeq(b, 1, k)
           gone == {b[i] : i \in k + 1 .. Len(b)}
<1>1. /\ b \in Seq(Lines) /\ IsInjective(b) /\ (open[p] \/ b = <<>>) /\ Len(b) \in Nat
      /\ k \in Nat /\ k <= Len(b)
  BY DEF FileInv, TypeOK, PlaceInv
<1>2. <<>> \in Seq(Lines) /\ IsInjective(<<>>) /\ Range(<<>>) = {}
  BY DEF IsInjective, Range
<1>3. \A i \in 1 .. Len(accepted') : accepted'[i].n = i
  BY DEF FileInv, PlaceInv
<1>4. disk' = IF open[p] THEN [disk EXCEPT ![name[p]] = @ \o out] ELSE disk
  BY DEF WriteOut
<1>5. lost' = lost \cup gone /\ buffered' = [buffered EXCEPT ![p] = <<>>]
  OBVIOUS
<1> HIDE DEF b
<1>6. out \in Seq(Lines) /\ Len(out) = k /\ \A i \in 1 .. k : out[i] = b[i]
  BY <1>1
<1>7. IsInjective(out)
  BY <1>1, <1>6 DEF IsInjective
<1>8. Range(out) = {b[i] : i \in 1 .. k}
  <2>1. DOMAIN out = 1 .. k
    BY <1>1, <1>6
  <2> QED
    BY <1>6, <2>1 DEF Range
<1>9. gone \subseteq Lines /\ Range(b) = {b[i] : i \in 1 .. Len(b)}
  BY <1>1 DEF Range
<1>10. Range(out) \cup gone = Range(b)
  BY <1>1, <1>8, <1>9
<1>11. gone \cap Range(out) = {}
  BY <1>1, <1>8 DEF IsInjective
<1>12. open[p] \/ out = <<>>
  BY <1>1, <1>6
<1> HIDE DEF out, gone
<1>13. Moves(p, out, <<>>, gone, {})
  BY <1>2, <1>3, <1>4, <1>5, <1>6, <1>7, <1>9, <1>10, <1>11, <1>12 DEF Moves, b
<1> QED
  BY <1>13 DEF b, out, gone

\* A process dies: its handles are closed.
LEMMA CrashInv ==
    ASSUME FileInv, reading' \subseteq FileNames, NEW p \in Processes, Crash(p)
    PROVE  FileInv'
<1> USE DEF Crash
<1>1. PICK k \in 0 .. Len(buffered[p]) :
        /\ WriteOut(p, SubSeq(buffered[p], 1, k))
        /\ lost' = lost \cup {buffered[p][i] : i \in k + 1 .. Len(buffered[p])}
  OBVIOUS
<1>2. Moves(p, SubSeq(buffered[p], 1, k), <<>>,
            {buffered[p][i] : i \in k + 1 .. Len(buffered[p])}, {})
  BY <1>1, CrashMoves
<1>3. DOMAIN disk' = DOMAIN disk
  BY <1>2 DEF Moves
<1>4. /\ sinceFlush' \in [Processes -> Nat] /\ size' \in [Processes -> Nat]
      /\ name' \in [Processes -> FileNames]
      /\ \A q \in Processes : /\ name'[q] = IF q = p THEN Base ELSE name[q]
                              /\ pc'[q] = IF q = p THEN "off" ELSE pc[q]
                              /\ q # p => size'[q] = size[q]
  BY NamesDiffer DEF FileInv, TypeOK
<1>5. OwnerInv'
  BY <1>3, <1>4, NamesDiffer DEF FileInv, OwnerInv
<1> QED
  BY <1>2, <1>4, <1>5, EmptyBuffer, MoveStep DEF FileInv, TypeOK, States

\* A line more: it is in the buffer, or the buffer goes to the file with it.
LEMMA WriteMoves ==
    ASSUME FileInv, NEW p \in Processes, NEW line \in Lines, line.n = Len(accepted) + 1,
           Write(p, line), UNCHANGED <<lost, discarded>>
    PROVE  LET lines == Append(buffered[p], line)
               flush == (size[p] + line.length) % FlushSize = 0
           IN  /\ Moves(p, IF flush THEN lines ELSE <<>>, IF flush THEN <<>> ELSE lines,
                        {}, {line})
               /\ accepted' \in Seq(Lines)
<1> DEFINE b == buffered[p]
           lines == Append(b, line)
           flush == (size[p] + line.length) % FlushSize = 0
           out == IF flush THEN lines ELSE <<>>
           kept == IF flush THEN <<>> ELSE lines
<1>1. b \in Seq(Lines) /\ IsInjective(b) /\ accepted \in Seq(Lines) /\ Len(accepted) \in Nat
  BY DEF FileInv, TypeOK, PlaceInv
<1>2. <<>> \in Seq(Lines) /\ IsInjective(<<>>) /\ Range(<<>>) = {}
  BY DEF IsInjective, Range
<1>3. <<line>> \in Seq(Lines) /\ IsInjective(<<line>>) /\ Range(<<line>>) = {line}
  BY DEF IsInjective, Range
<1>4. line \notin Range(accepted) /\ Range(b) \subseteq Range(accepted)
  <2>1. \A other \in Range(accepted) : other.n <= Len(accepted)
    BY AcceptedNumbers DEF FileInv
  <2>2. line \notin Range(accepted)
    BY <1>1, <2>1
  <2> QED
    BY <2>2 DEF FileInv, PlaceInv
<1>5. /\ lines \in Seq(Lines) /\ IsInjective(lines) /\ Range(lines) = Range(b) \cup {line}
  <2>1. lines = b \o <<line>>
    BY <1>1, AppendIsConcat
  <2>2. Range(b) \cap Range(<<line>>) = {}
    BY <1>3, <1>4
  <2> HIDE DEF b, lines
  <2>3. /\ b \o <<line>> \in Seq(Lines) /\ IsInjective(b \o <<line>>)
        /\ Range(b \o <<line>>) = Range(b) \cup Range(<<line>>)
    BY <1>1, <1>3, <2>2, InjectiveConcat
  <2> QED
    BY <1>3, <2>1, <2>3
<1>6. /\ accepted' = Append(accepted, line) /\ accepted' \in Seq(Lines)
      /\ Range(accepted') = Range(accepted) \cup {line}
  <2>1. accepted' = Append(accepted, line)
    BY DEF Write
  <2>2. Append(accepted, line) = accepted \o <<line>>
    BY <1>1, AppendIsConcat
  <2>3. Range(accepted \o <<line>>) = Range(accepted) \cup Range(<<line>>)
    <3>1. accepted \in Seq(Lines) /\ <<line>> \in Seq(Lines)
      BY <1>1, <1>3
    <3> HIDE DEF b, lines, flush, out, kept
    <3> QED
      BY <3>1, RangeConcatenation
  <2>4. Append(accepted, line) \in Seq(Lines)
    BY <1>1, AppendProperties
  <2> QED
    BY <1>3, <2>1, <2>2, <2>3, <2>4
<1>7. \A i \in 1 .. Len(accepted') : accepted'[i].n = i
  <2>1. \A i \in 1 .. Len(accepted) : accepted[i].n = i
    BY DEF FileInv, PlaceInv
  <2> QED
    BY <1>1, <1>6, <2>1, AppendProperties
<1>8. /\ open[p] /\ disk' = [disk EXCEPT ![name[p]] = @ \o out]
      /\ buffered' = [buffered EXCEPT ![p] = kept]
  BY DEF Write, WriteOut
<1> HIDE DEF b, lines, flush
<1>9. /\ out \in Seq(Lines) /\ kept \in Seq(Lines) /\ IsInjective(out) /\ IsInjective(kept)
      /\ Range(out) \cap Range(kept) = {} /\ Range(out) \cup Range(kept) = Range(b) \cup {line}
      /\ out = <<>> \/ kept = <<>>
  BY <1>2, <1>5
<1> HIDE DEF out, kept
<1>10. UNCHANGED <<lost, discarded>> => Moves(p, out, kept, {}, {line})
  BY <1>6, <1>7, <1>8, <1>9 DEF Moves, b
<1> QED
  BY <1>6, <1>10 DEF out, kept, flush, lines, b

\* Write, and what NeedsRotation makes of the size: the line that fills the file is
\* the last before the rotation.
LEMMA LogInv ==
    ASSUME FileInv, reading' \subseteq FileNames, NEW p \in Processes, NEW length \in Lengths,
           Log(p, length)
    PROVE  FileInv'
<1> DEFINE b == buffered[p]
           line == [by |-> p, n |-> Len(accepted) + 1, length |-> length]
           lines == Append(b, line)
           flush == (size[p] + line.length) % FlushSize = 0
           out == IF flush THEN lines ELSE <<>>
           kept == IF flush THEN <<>> ELSE lines
           there == IF NeedsRotation(p) THEN "rotate" ELSE "ready"
           file == disk[name[p]]
<1>1. /\ Len(accepted) < MaxLines /\ pc[p] = "ready" /\ Write(p, line)
      /\ pc' = [pc EXCEPT ![p] = there]
      /\ UNCHANGED <<mutex, name, open, lost, discarded, strayed>>
  BY DEF Log
<1>2. line \in Lines /\ line.n = Len(accepted) + 1 /\ line.length = length
      /\ length \in Nat /\ length > 0
  <2>1. Len(accepted) + 1 \in 1 .. MaxLines
    BY <1>1, FileSizeAssumption DEF FileInv, TypeOK
  <2> QED
    BY <2>1, FileLengthAssumption DEF Lines
<1>3. /\ b \in Seq(Lines) /\ size[p] \in Nat /\ open[p] /\ sinceFlush[p] \in Nat
      /\ file \in Seq(Lines) /\ name[p] \in DOMAIN disk
  BY <1>1 DEF FileInv, TypeOK, Write
<1>4. /\ size' = [size EXCEPT ![p] = size[p] + length]
      /\ sinceFlush' = [sinceFlush EXCEPT ![p] = IF flush THEN 0 ELSE sinceFlush[p] + length]
      /\ disk' = [disk EXCEPT ![name[p]] = file \o out]
  BY <1>1, <1>2, <1>3 DEF Write, WriteOut
<1>5. /\ Bytes(b) <= size[p]
      /\ strayed \/ size[p] = Bytes(file) + Bytes(b)
      /\ size[p] >= MaxSize => b = <<>>
  BY <1>1, <1>3 DEF FileInv, SizeInv
<1> HIDE DEF line
<1>6. Moves(p, out, kept, {}, {line}) /\ accepted' \in Seq(Lines)
  <2> HIDE DEF there
  <2>1. UNCHANGED <<lost, discarded>>
    BY <1>1
  <2> QED
    BY <1>1, <1>2, <2>1, WriteMoves
<1>7. /\ size'[p] = size[p] + length
      /\ \A q \in Processes \ {p} : size'[q] = size[q]
      /\ size' \in [Processes -> Nat] /\ sinceFlush' \in [Processes -> Nat]
  BY <1>2, <1>3, <1>4 DEF FileInv, TypeOK
<1>8. disk'[name[p]] = file \o out
  BY <1>3, <1>4 DEF FileInv, TypeOK
<1>9. Bytes(lines) = Bytes(b) + length /\ lines \in Seq(Lines)
  BY <1>2, <1>3, BytesAppend, AppendProperties
<1>10. /\ Bytes(b) \in Nat /\ Bytes(file) \in Nat /\ Bytes(<<>>) = 0
       /\ Bytes(file \o lines) = Bytes(file) + Bytes(lines) /\ file \o <<>> = file
  <2>1. Bytes(file \o lines) = Bytes(file) + Bytes(lines)
    BY <1>3, <1>9, BytesConcat
  <2> QED
    BY <1>3, <2>1, BytesEmpty, BytesNat
<1> HIDE DEF b, lines, file, flush
<1>11. /\ Bytes(kept) <= size'[p]
       /\ strayed \/ size'[p] = Bytes(disk'[name[p]]) + Bytes(kept)
  <2>1. CASE flush
    BY <1>2, <1>3, <1>5, <1>7, <1>8, <1>9, <1>10, <2>1
  <2>2. CASE ~flush
    BY <1>2, <1>3, <1>5, <1>7, <1>8, <1>9, <1>10, <2>2
  <2> QED
    BY <2>1, <2>2
<1>12. ASSUME NEW long \in Lengths, \A other \in Lengths : other <= long
       PROVE  Bytes(kept) < MaxSize + long
  <2>1. length <= long /\ long \in Nat /\ MaxSize \in Nat \ {0}
    BY <1>12, FileLengthAssumption, FileSizeAssumption
  <2>2. CASE size[p] >= MaxSize
    BY <1>2, <1>5, <1>9, <1>10, <2>1, <2>2
  <2>3. CASE size[p] < MaxSize
    BY <1>2, <1>3, <1>5, <1>9, <1>10, <2>1, <2>3
  <2> QED
    BY <1>3, <2>1, <2>2, <2>3
<1>13. there \in {"ready", "rotate"} /\ (there = "ready" => ~(size'[p] >= MaxSize))
  BY DEF NeedsRotation
<1> HIDE DEF out, kept, there
<1>14. DOMAIN disk' = DOMAIN disk /\ \A q \in Processes : pc'[q] = IF q = p THEN there ELSE pc[q]
  BY <1>1, <1>4 DEF FileInv, TypeOK
<1>15. OwnerInv'
  <2> SUFFICES ASSUME ~strayed PROVE OwnerInv'
    BY <1>1 DEF OwnerInv
  <2> QED
    BY <1>1, <1>13, <1>14 DEF FileInv, OwnerInv
<1>16. /\ there \in States /\ TRUE \in BOOLEAN /\ open' = [open EXCEPT ![p] = TRUE]
       /\ name' \in [Processes -> FileNames] /\ mutex' \subseteq Processes
       /\ there # "off"
  BY <1>1, <1>3, <1>13 DEF FileInv, TypeOK, States
<1>17. /\ there = "ready" /\ size'[p] >= MaxSize => kept = <<>>
       /\ pc' = [pc EXCEPT ![p] = there]
  BY <1>1, <1>13
<1> QED
  BY <1>1, <1>3, <1>6, <1>7, <1>11, <1>12, <1>13, <1>15, <1>16, <1>17, MoveStep

-------------------------------------------------------------------------------
(* Steps that open or rename a file.                                       *)

\* OpenLogFile: whether it opens the file, creates it or fails, no line moves.
LEMMA OpenStep ==
    ASSUME FileInv, reading' \subseteq FileNames, NEW p \in Processes, ~open[p],
           NEW f \in FileNames, OpenLogFile(p, f), pc' = [pc EXCEPT ![p] = "ready"],
           strayed \/ f \in {Base, Own(p)},
           size' \in [Processes -> Nat], \A q \in Processes \ {p} : size'[q] = size[q],
           open'[p] => strayed \/ size'[p] = Bytes(disk'[f]),
           UNCHANGED <<mutex, buffered, accepted, lost, discarded, sinceFlush, strayed>>,
           OwnerInv'
    PROVE  FileInv'
<1> USE DEF FileInv
<1>1. /\ pc' \in [Processes -> States]
      /\ \A q \in Processes : pc'[q] = IF q = p THEN "ready" ELSE pc[q]
      /\ name' \in [Processes -> FileNames]
      /\ \A q \in Processes : name'[q] = IF q = p THEN f ELSE name[q]
      /\ open' \in [Processes -> BOOLEAN]
      /\ \A q \in Processes : open'[q] = IF q = p THEN CanOpen(p, f) ELSE open[q]
  BY DEF OpenLogFile, TypeOK, States, CanOpen
<1>2. buffered[p] = <<>> /\ Bytes(<<>>) = 0
  BY BytesEmpty DEF TypeOK
<1>3. <<>> \in Seq(Lines) /\ Range(<<>>) = {} /\ IsInjective(<<>>)
  BY DEF Range, IsInjective
<1>4. /\ DOMAIN disk' \subseteq FileNames /\ disk' \in [DOMAIN disk' -> Seq(Lines)]
      /\ DOMAIN disk \subseteq DOMAIN disk' /\ DOMAIN disk' \subseteq DOMAIN disk \cup {f}
      /\ \A g \in DOMAIN disk : disk'[g] = disk[g]
      /\ f \in DOMAIN disk' \ DOMAIN disk => disk'[f] = <<>>
      /\ CanOpen(p, f) => f \in DOMAIN disk'
  <2>1. CASE CanOpen(p, f) /\ f \notin DOMAIN disk
    <3>1. disk' = [g \in DOMAIN disk \cup {f} |-> IF g = f THEN <<>> ELSE disk[g]]
      BY <2>1 DEF OpenLogFile
    <3> QED
      BY <1>3, <2>1, <3>1 DEF TypeOK
  <2>2. CASE ~(CanOpen(p, f) /\ f \notin DOMAIN disk)
    <3>1. disk' = disk
      BY <2>2 DEF OpenLogFile
    <3> QED
      BY <2>2, <3>1 DEF TypeOK
  <2> QED
    BY <2>1, <2>2
<1>5. /\ buffered' = buffered /\ accepted' = accepted /\ lost' = lost
      /\ discarded' = discarded /\ strayed' = strayed
  OBVIOUS
<1>6. TypeOK'
  <2>1. \A q \in Processes :
          /\ open'[q] => pc'[q] \in {"ready", "rotate"} /\ name'[q] \in DOMAIN disk'
          /\ ~open'[q] => buffered'[q] = <<>>
          /\ pc'[q] = "off" => q \notin mutex'
    BY <1>1, <1>2, <1>4, <1>5 DEF TypeOK
  <2> QED
    BY <1>1, <1>4, <1>5, <2>1 DEF TypeOK, States
<1>7. OpenInv'
  BY <1>1 DEF OpenInv, CanOpen
<1>8. SizeInv'
  <2> SUFFICES ASSUME NEW q \in Processes
               PROVE  /\ open'[q] =>
                           /\ Bytes(buffered'[q]) <= size'[q]
                           /\ strayed' \/ size'[q] = Bytes(disk'[name'[q]]) + Bytes(buffered'[q])
                      /\ pc'[q] = "rotate" => open'[q]
                      /\ pc'[q] = "ready" /\ size'[q] >= MaxSize => buffered'[q] = <<>>
    BY DEF SizeInv, Bytes
  <2>1. CASE q = p
    BY <1>1, <1>2, <1>5, <2>1
  <2>2. CASE q # p
    BY <1>1, <1>4, <1>5, <2>2 DEF SizeInv, TypeOK
  <2> QED
    BY <2>1, <2>2
<1>9. LossIsBounded'
  BY DEF LossIsBounded
<1>10. \A g \in DOMAIN disk' : Range(disk'[g]) = HeldIn(g)
  BY <1>3, <1>4 DEF HeldIn
<1>11. PlaceInv'
  <2>1. \A g \in DOMAIN disk' : IsInjective(disk'[g])
    BY <1>3, <1>4 DEF PlaceInv
  <2>2. \A g, h \in DOMAIN disk' : g # h => Range(disk'[g]) \cap Range(disk'[h]) = {}
    BY <1>10 DEF PlaceInv, HeldIn
  <2>3. \A g \in DOMAIN disk', q \in Processes : Range(disk'[g]) \cap Range(buffered[q]) = {}
    BY <1>10 DEF PlaceInv, HeldIn
  <2>4. \A g \in DOMAIN disk' : /\ Range(disk'[g]) \cap (lost \cup discarded) = {}
                                /\ Range(disk'[g]) \subseteq Range(accepted)
    BY <1>10 DEF PlaceInv, HeldIn
  <2>5. \A line \in Range(accepted) :
          \/ \E g \in DOMAIN disk' : line \in Range(disk'[g])
          \/ \E q \in Processes : line \in Range(buffered[q])
          \/ line \in lost \cup discarded
    BY <1>4 DEF PlaceInv
  <2> QED
    BY <1>5, <2>1, <2>2, <2>3, <2>4, <2>5 DEF PlaceInv
<1>12. AgeInv'
  <2>1. CASE strayed
    <3>1. strayed'
      BY <1>5, <2>1
    <3> QED
      BY <3>1 DEF AgeInv
  <2>2. HeldIn(Base)' = HeldIn(Base) /\ HeldIn(History(1))' = HeldIn(History(1))
    BY <1>4, <1>10 DEF HeldIn
  <2>3. ~strayed => \A g \in DOMAIN disk' : g.kind = "history" => g = History(1)
    BY <1>4, NamesDiffer DEF AgeInv
  <2>4. ~strayed => \A q \in Processes : open'[q] /\ name'[q] = Base =>
          Older(discarded \cup HeldIn(History(1)) \cup HeldIn(Base), Range(buffered[q]))
    BY <1>1, <1>2, <1>3 DEF AgeInv, Older
  <2> QED
    BY <1>5, <2>1, <2>2, <2>3, <2>4 DEF AgeInv
<1> QED
  BY <1>6, <1>7, <1>8, <1>9, <1>11, <1>12

\* OpenLogFile in Initialize, with the size of the file that is there.
LEMMA InitializeOpenInv ==
    ASSUME FileInv, reading' \subseteq FileNames, NEW p \in Processes, InitializeOpen(p)
    PROVE  FileInv'
<1> USE DEF InitializeOpen, Goto, history
<1>1. pc[p] = "open" /\ ~open[p] /\ name[p] \in FileNames /\ name' = name
  BY DEF FileInv, TypeOK, OpenLogFile
<1>2. \A q \in Processes : pc'[q] = IF q = p THEN "ready" ELSE pc[q]
  BY DEF FileInv, TypeOK
<1>3. /\ strayed \/ name[p] \in {Base, Own(p)}
      /\ strayed' = strayed
      /\ ~strayed => /\ pc[p] # "off"
                     /\ \A q \in Processes : pc[q] = "rename" => name[q] \in DOMAIN disk
  BY <1>1 DEF FileInv, OwnerInv
<1>4. DOMAIN disk \subseteq DOMAIN disk' /\ DOMAIN disk' \subseteq DOMAIN disk \cup {name[p]}
  BY DEF OpenLogFile
<1>5. open'[p] => name[p] \in DOMAIN disk'
  BY <1>1 DEF OpenLogFile, FileInv, TypeOK
<1>6. disk' \in [DOMAIN disk' -> Seq(Lines)]
  <2>1. <<>> \in Seq(Lines) /\ disk \in [DOMAIN disk -> Seq(Lines)]
    BY DEF FileInv, TypeOK
  <2> QED
    BY <2>1 DEF OpenLogFile
<1>7. open'[p] => Bytes(disk'[name[p]]) \in Nat
  BY <1>5, <1>6, BytesNat
<1>8. /\ size' \in [Processes -> Nat] /\ \A q \in Processes \ {p} : size'[q] = size[q]
  BY <1>7 DEF FileInv, TypeOK
<1>9. open'[p] => size'[p] = Bytes(disk'[name[p]])
  BY DEF FileInv, TypeOK
<1>10. OwnerInv'
  <2> SUFFICES ASSUME ~strayed PROVE OwnerInv'
    BY <1>3 DEF OwnerInv
  <2>1. \A q \in Processes : pc[q] = "reopen" => name[q] = Base /\ Base \notin DOMAIN disk'
    BY <1>1, <1>4 DEF FileInv, OwnerInv
  <2> QED
    BY <1>1, <1>2, <1>4, <2>1 DEF FileInv, OwnerInv
<1> QED
  BY <1>1, <1>3, <1>8, <1>9, <1>10, OpenStep

\* OpenLogFile in Rotate: base.log is new, as base_PID.log was not the file that was
\* rotated.
LEMMA RotateReopenInv ==
    ASSUME FileInv, reading' \subseteq FileNames, NEW p \in Processes, RotateReopen(p)
    PROVE  FileInv'
<1> USE DEF RotateReopen, Goto, history, GenerateFileName
<1>1. pc[p] = "reopen" /\ ~open[p] /\ Base \in FileNames /\ OpenLogFile(p, Base)
  BY NamesDiffer DEF FileInv, TypeOK
<1>2. /\ \A q \in Processes : pc'[q] = IF q = p THEN "ready" ELSE pc[q]
      /\ \A q \in Processes : name'[q] = IF q = p THEN Base ELSE name[q]
  BY <1>1 DEF FileInv, TypeOK, OpenLogFile
<1>3. strayed' = strayed
  OBVIOUS
<1>4. strayed \/ (name[p] = Base /\ Base \notin DOMAIN disk)
  BY <1>1 DEF FileInv, OwnerInv
<1>5. DOMAIN disk \subseteq DOMAIN disk' /\ DOMAIN disk' \subseteq DOMAIN disk \cup {Base}
  BY <1>1 DEF OpenLogFile
<1>6. /\ size' \in [Processes -> Nat] /\ \A q \in Processes \ {p} : size'[q] = size[q]
      /\ open'[p] => size'[p] = 0
  BY DEF FileInv, TypeOK
<1>7. open'[p] => CanOpen(p, Base)
  BY <1>1 DEF FileInv, TypeOK, OpenLogFile
<1>8. open'[p] => strayed \/ size'[p] = Bytes(disk'[Base])
  BY <1>1, <1>4, <1>6, <1>7, BytesEmpty DEF OpenLogFile
<1>9. OwnerInv'
  <2> SUFFICES ASSUME ~strayed PROVE OwnerInv'
    BY <1>3 DEF OwnerInv
  <2>1. \A q \in Processes : q # p => ~(pc[q] = "reopen")
    BY <1>1, <1>4 DEF FileInv, OwnerInv
  <2> QED
    BY <1>1, <1>2, <1>4, <1>5, <2>1 DEF FileInv, OwnerInv
<1> QED
  BY <1>1, <1>6, <1>8, <1>9, OpenStep

\* rename and DeleteOldestFiles: base.1.log is replaced, and what it held is
\* discarded, the oldest lines there are.
LEMMA RotateRenameInv ==
    ASSUME FileInv, reading' \subseteq FileNames, NEW p \in Processes, RotateRename(p)
    PROVE  FileInv'
<1> USE DEF FileInv, RotateRename, Goto, fileVars
<1> DEFINE old == name[p]
           new == History(1)
<1>1. /\ pc[p] = "rename" /\ ~open[p] /\ old \in DOMAIN disk /\ old \in FileNames
      /\ new \in FileNames /\ TypeOK
      /\ disk \in [DOMAIN disk -> Seq(Lines)] /\ DOMAIN disk \subseteq FileNames
  BY NamesDiffer DEF TypeOK, CanRename
<1>2. /\ \A q \in Processes \ {p} : ~(open[q] /\ name[q] = old)
      /\ \A q \in Processes \ {p} : ~(open[q] /\ name[q] = new)
  BY <1>1, TargetIsFirst DEF CanRename, CanOpen
<1>3. disk' = Renamed(disk, old, new)
  <2>1. disk' = DeleteOldestFiles(Renamed(disk, old, new))
    BY <1>1, TargetIsFirst
  <2> DEFINE D == (DOMAIN disk \cup {new}) \ {old}
  <2>2. Renamed(disk, old, new) \in [D -> Seq(Lines)] /\ D \in SUBSET FileNames
    BY <1>1 DEF Renamed
  <2> HIDE DEF D
  <2> QED
    BY <2>1, <2>2, NothingDeleted
<1>4. /\ DOMAIN disk' = (DOMAIN disk \cup {new}) \ {old}
      /\ \A f \in DOMAIN disk' : disk'[f] = IF f = new THEN disk[old] ELSE disk[f]
      /\ disk' \in [DOMAIN disk' -> Seq(Lines)] /\ DOMAIN disk' \subseteq FileNames
  BY <1>1, <1>3 DEF Renamed
<1> DEFINE gone == LinesOf(disk) \ LinesOf(disk')
<1>5. /\ \A line : line \in LinesOf(disk) <=> \E f \in DOMAIN disk : line \in Range(disk[f])
      /\ \A line : line \in LinesOf(disk') <=> \E f \in DOMAIN disk' : line \in Range(disk'[f])
  BY DEF LinesOf
<1>6. discarded' = discarded \cup gone /\ strayed' = (strayed \/ old # Base)
      /\ buffered' = buffered /\ accepted' = accepted /\ lost' = lost /\ name' = name
      /\ open' = open /\ size' = size /\ mutex' = mutex /\ sinceFlush' = sinceFlush
  OBVIOUS
<1>7. /\ pc' \in [Processes -> States]
      /\ \A q \in Processes : pc'[q] = IF q = p THEN "reopen" ELSE pc[q]
  BY DEF TypeOK, States
<1> HIDE DEF gone, RotateRename
<1>8. gone \subseteq LinesOf(disk) /\ gone \cap LinesOf(disk') = {}
  BY DEF gone
<1>9. LinesOf(disk) \subseteq Lines
  BY <1>1, <1>5 DEF Range
<1>10. \A q \in Processes : open[q] => name[q] # old /\ name[q] # new
  BY <1>1, <1>2
<1>11. TypeOK'
  <2>1. \A q \in Processes : open[q] => name[q] \in DOMAIN disk'
    BY <1>4, <1>10 DEF TypeOK
  <2>2. \A q \in Processes :
          /\ open'[q] => pc'[q] \in {"ready", "rotate"} /\ name'[q] \in DOMAIN disk'
          /\ ~open'[q] => buffered'[q] = <<>>
          /\ pc'[q] = "off" => q \notin mutex'
    BY <1>1, <1>6, <1>7, <2>1 DEF TypeOK
  <2>3. lost' \cup discarded' \subseteq Lines /\ strayed' \in BOOLEAN
    BY <1>6, <1>8, <1>9 DEF TypeOK
  <2> QED
    BY <1>4, <1>6, <1>7, <2>2, <2>3 DEF TypeOK, States
<1>12. OpenInv'
  BY <1>6 DEF OpenInv
<1>13. OwnerInv'
  <2> SUFFICES ASSUME ~strayed, old = Base PROVE OwnerInv'
    BY <1>6 DEF OwnerInv
  <2>1. Base \notin DOMAIN disk' /\ \A q \in Processes : name[q] # Base /\ name[q] \in DOMAIN disk
          => name[q] \in DOMAIN disk'
    BY <1>4
  <2>2. \A q \in Processes : q # p /\ pc[q] # "off" => name[q] # Base
    BY <1>1 DEF OwnerInv
  <2> QED
    BY <1>1, <1>6, <1>7, <2>1, <2>2 DEF OwnerInv
<1>14. SizeInv'
  <2> SUFFICES ASSUME NEW q \in Processes
               PROVE  /\ open'[q] =>
                           /\ Bytes(buffered'[q]) <= size'[q]
                           /\ strayed' \/ size'[q] = Bytes(disk'[name'[q]]) + Bytes(buffered'[q])
                      /\ pc'[q] = "rotate" => open'[q]
                      /\ pc'[q] = "ready" /\ size'[q] >= MaxSize => buffered'[q] = <<>>
    BY DEF SizeInv, Bytes
  <2>1. open[q] => disk'[name[q]] = disk[name[q]]
    BY <1>4, <1>10 DEF TypeOK
  <2> QED
    BY <1>1, <1>6, <1>7, <2>1 DEF SizeInv
<1>15. LossIsBounded'
  BY <1>6 DEF LossIsBounded
<1> DEFINE From(f) == IF f = new THEN old ELSE f
<1>16. /\ \A f \in DOMAIN disk' : From(f) \in DOMAIN disk /\ disk'[f] = disk[From(f)]
       /\ \A f, g \in DOMAIN disk' : f # g => From(f) # From(g)
  BY <1>1, <1>4
<1> HIDE DEF From
<1>17. LinesOf(disk') \subseteq LinesOf(disk)
  BY <1>5, <1>16
<1>18. PlaceInv'
  <2> HIDE DEF FileInv
  <2>1. PlaceInv
    BY DEF FileInv
  <2>2. \A f, g \in DOMAIN disk' : f # g => Range(disk'[f]) \cap Range(disk'[g]) = {}
    BY <1>16, <2>1 DEF PlaceInv
  <2>3. \A f \in DOMAIN disk', q \in Processes : Range(disk'[f]) \cap Range(buffered[q]) = {}
    BY <1>16, <2>1 DEF PlaceInv
  <2>4. \A f \in DOMAIN disk' : Range(disk'[f]) \cap (lost \cup discarded') = {}
    <3>1. \A f \in DOMAIN disk' : Range(disk'[f]) \cap (lost \cup discarded) = {}
      BY <1>16, <2>1 DEF PlaceInv
    <3>2. \A f \in DOMAIN disk' : Range(disk'[f]) \cap gone = {}
      BY <1>5, <1>8
    <3> QED
      BY <1>6, <3>1, <3>2
  <2>5. \A q \in Processes : Range(buffered[q]) \cap (lost \cup discarded') = {}
    <3>1. \A q \in Processes : Range(buffered[q]) \cap LinesOf(disk) = {}
      BY <1>5, <2>1 DEF PlaceInv
    <3> QED
      BY <1>6, <1>8, <2>1, <3>1 DEF PlaceInv
  <2>6. lost \cap discarded' = {}
    <3>1. LinesOf(disk) \cap lost = {}
      BY <1>5, <2>1 DEF PlaceInv
    <3> QED
      BY <1>6, <1>8, <2>1, <3>1 DEF PlaceInv
  <2>7. LinesOf(disk) \subseteq Range(accepted)
    BY <1>5, <2>1 DEF PlaceInv
  <2>8. /\ \A f \in DOMAIN disk' : Range(disk'[f]) \subseteq Range(accepted)
        /\ lost \cup discarded' \subseteq Range(accepted)
    BY <1>5, <1>6, <1>8, <1>17, <2>1, <2>7 DEF PlaceInv
  <2>9. \A line \in Range(accepted) :
          \/ \E f \in DOMAIN disk' : line \in Range(disk'[f])
          \/ \E q \in Processes : line \in Range(buffered[q])
          \/ line \in lost \cup discarded'
    <3>1. LinesOf(disk) \subseteq LinesOf(disk') \cup gone
      BY DEF gone
    <3> QED
      BY <1>5, <1>6, <2>1, <3>1 DEF PlaceInv
  <2>10. \A f \in DOMAIN disk' : IsInjective(disk'[f])
    BY <1>16, <2>1 DEF PlaceInv
  <2>11. /\ \A i \in 1 .. Len(accepted) : accepted[i].n = i
         /\ \A q \in Processes : IsInjective(buffered[q])
         /\ \A q, r \in Processes : q # r => Range(buffered[q]) \cap Range(buffered[r]) = {}
         /\ \A q \in Processes : Range(buffered[q]) \subseteq Range(accepted)
    BY <2>1 DEF PlaceInv
  <2> QED
    BY <1>6, <2>2, <2>3, <2>4, <2>5, <2>6, <2>8, <2>9, <2>10, <2>11 DEF PlaceInv
<1>19. AgeInv'
  <2> SUFFICES ASSUME ~strayed, old = Base PROVE AgeInv'
    BY <1>6 DEF AgeInv
  <2>1. \A f \in DOMAIN disk' : f.kind = "history" => f = History(1)
    BY <1>4 DEF AgeInv
  <2>2. HeldIn(History(1))' = HeldIn(Base) /\ HeldIn(Base)' = {}
    BY <1>1, <1>4, NamesDiffer DEF HeldIn
  <2>3. discarded' \subseteq discarded \cup HeldIn(History(1))
    <3>1. LinesOf(disk) \subseteq LinesOf(disk') \cup HeldIn(History(1))
      <4> SUFFICES ASSUME NEW f \in DOMAIN disk, NEW line \in Range(disk[f]), f # new
                   PROVE  line \in LinesOf(disk')
        BY <1>5 DEF HeldIn
      <4>1. CASE f = old
        <5>1. new \in DOMAIN disk' /\ disk'[new] = disk[old]
          BY <1>4, NamesDiffer
        <5> QED
          BY <1>5, <4>1, <5>1
      <4>2. CASE f # old
        <5>1. f \in DOMAIN disk' /\ disk'[f] = disk[f]
          BY <1>4, <4>2
        <5> QED
          BY <1>5, <5>1
      <4> QED
        BY <4>1, <4>2
    <3> QED
      BY <1>6, <1>8, <3>1
  <2>4. \A q \in Processes : ~(open'[q] /\ name'[q] = Base)
    BY <1>6, <1>10
  <2>5. Older(discarded', HeldIn(Base)) /\ Older({}, {})
    BY <2>3 DEF AgeInv, Older
  <2>6. Older(discarded', HeldIn(History(1))' \cup HeldIn(Base)')
    BY <2>2, <2>5
  <2>7. Older(HeldIn(History(1))', HeldIn(Base)')
    BY <2>2 DEF Older
  <2> QED
    BY <2>1, <2>4, <2>6, <2>7 DEF AgeInv
<1> QED
  BY <1>11, <1>12, <1>13, <1>14, <1>15, <1>18, <1>19

-------------------------------------------------------------------------------
(* The invariant holds.                                                    *)

\* Initially there are no files.
LEMMA FileInvInit == Init => FileInv
<1> SUFFICES ASSUME Init PROVE FileInv
  OBVIOUS
<1> USE DEF Init
<1>1. <<>> \in Seq(Lines) /\ Range(<<>>) = {} /\ IsInjective(<<>>) /\ Len(<<>>) = 0
  BY DEF Range, IsInjective
<1>2. DOMAIN disk = {} /\ disk \in [DOMAIN disk -> Seq(Lines)]
  OBVIOUS
<1>3. TypeOK
  BY <1>1, <1>2, NamesDiffer DEF TypeOK
<1>4. OpenInv /\ OwnerInv
  BY NamesDiffer DEF OpenInv, OwnerInv
<1>5. SizeInv /\ LossIsBounded
  BY EmptyBuffer DEF SizeInv, LossIsBounded
<1>6. PlaceInv
  BY <1>1, <1>2 DEF PlaceInv
<1>7. AgeInv
  BY <1>2 DEF AgeInv, Older, HeldIn
<1> QED
  BY <1>3, <1>4, <1>5, <1>6, <1>7 DEF FileInv

\* Every step of a logger keeps it, whatever others open to read.
LEMMA FileInvStep ==
    ASSUME FileInv, reading' \subseteq FileNames, NEW p \in Processes, Life(p) \/ Crash(p)
    PROVE  FileInv'
<1>1. CASE InitializeFirst(p)
  BY <1>1, InitializeFirstInv
<1>2. CASE InitializeProbe(p)
  BY <1>2, InitializeProbeInv
<1>3. CASE InitializeCloseProbe(p)
  BY <1>3, InitializeCloseProbeInv
<1>4. CASE InitializeOpen(p)
  BY <1>4, InitializeOpenInv
<1>5. CASE RotateClose(p)
  BY <1>5, RotateCloseInv
<1>6. CASE RotateRename(p)
  BY <1>6, RotateRenameInv
<1>7. CASE RotateRenameFails(p)
  BY <1>7, RotateRenameFailsInv
<1>8. CASE RotateReopen(p)
  BY <1>8, RotateReopenInv
<1>9. CASE DestroyClose(p)
  BY <1>9, DestroyCloseInv
<1>10. CASE DestroyMutex(p)
  BY <1>10, DestroyMutexInv
<1>11. CASE Flush(p)
  BY <1>11, FlushInv
<1>12. CASE \E length \in Lengths : Log(p, length)
  BY <1>12, LogInv
<1>13. CASE Crash(p)
  BY <1>13, CrashInv
<1> QED
  BY <1>1, <1>2, <1>3, <1>4, <1>5, <1>6, <1>7, <1>8, <1>9, <1>10, <1>11, <1>12, <1>13
  DEF Life

\* A step that only changes what others read keeps it too.
LEMMA FileInvReading ==
    ASSUME FileInv, reading' \subseteq FileNames,
           UNCHANGED <<pc, mutex, fileVars, disk, history>>
    PROVE  FileInv'
<1> USE DEF FileInv, fileVars, history
<1>1. TypeOK'
  BY DEF TypeOK
<1>2. OpenInv' /\ OwnerInv'
  BY DEF OpenInv, OwnerInv
<1>3. SizeInv' /\ LossIsBounded'
  BY DEF SizeInv, LossIsBounded
<1>4. PlaceInv'
  BY DEF PlaceInv
<1>5. AgeInv'
  BY DEF AgeInv, HeldIn
<1> QED
  BY <1>1, <1>2, <1>3, <1>4, <1>5

\* The owner of base.log has it alone, and a base_PID.log has one owner.
LEMMA OwnersDiffer == ASSUME OwnerInv PROVE OwnFileUntilStrayed
BY NamesDiffer DEF OwnerInv, OwnFileUntilStrayed, OwnFile

\* When nobody reads, a logger's step leaves it with its file open.
LEMMA KeepsStep ==
    ASSUME FileInv, KeepsInv, NEW p \in Processes, Life(p) \/ Crash(p), reading' = reading
    PROVE  KeepsInv'
<1> SUFFICES ASSUME ~strayed', NEW q \in Processes, pc'[q] = "ready" PROVE open'[q]
  BY DEF KeepsInv, KeepsFile
<1> USE DEF Goto, fileVars, history
<1>1. ~strayed
  BY DEF Life, InitializeFirst, InitializeProbe, InitializeCloseProbe, InitializeOpen,
         RotateClose, RotateRename, RotateRenameFails, RotateReopen, DestroyClose,
         DestroyMutex, Flush, Log, Crash
<1>2. /\ pc \in [Processes -> States] /\ open \in [Processes -> BOOLEAN]
      /\ name \in [Processes -> FileNames]
      /\ \A r \in Processes : open[r] => pc[r] # "off"
  BY DEF FileInv, TypeOK, States
<1>3. pc[q] = "ready" => open[q]
  BY <1>1 DEF KeepsInv, KeepsFile
<1>4. ASSUME pc[p] # "off" PROVE CanOpen(p, name[p])
  <2>1. OwnFile
    BY <1>1, OwnersDiffer DEF FileInv, OwnFileUntilStrayed
  <2> QED
    BY <1>2, <1>4, <2>1 DEF OwnFile, CanOpen, KeepsInv
<1>5. CASE InitializeFirst(p) \/ InitializeProbe(p) \/ InitializeCloseProbe(p)
  BY <1>2, <1>3, <1>5 DEF InitializeFirst, InitializeProbe, InitializeCloseProbe
<1>6. CASE InitializeOpen(p)
  BY <1>2, <1>3, <1>4, <1>6 DEF InitializeOpen, OpenLogFile
<1>7. CASE RotateClose(p) \/ RotateRename(p) \/ DestroyClose(p)
  BY <1>2, <1>3, <1>7 DEF RotateClose, RotateRename, DestroyClose, CloseCurrentFile
<1>8. CASE RotateRenameFails(p)
  <2>1. pc[p] = "rename"
    BY <1>8 DEF RotateRenameFails
  <2>2. name[p] \in DOMAIN disk
    BY <1>1, <2>1 DEF FileInv, OwnerInv
  <2>3. CanOpen(p, Target)
    <3>1. Target = History(1)
      BY TargetIsFirst DEF FileInv
    <3>2. \A r \in Processes : name[r] # History(1)
      BY <1>1, NamesDiffer DEF FileInv, OwnerInv
    <3> QED
      BY <3>1, <3>2 DEF CanOpen, KeepsInv
  <2> QED
    BY <1>4, <1>8, <2>1, <2>2, <2>3 DEF RotateRenameFails, CanRename
<1>9. CASE RotateReopen(p)
  <2>1. pc[p] = "reopen" /\ name[p] = Base
    BY <1>1, <1>9 DEF RotateReopen, FileInv, OwnerInv
  <2>2. CanOpen(p, Base)
    BY <1>4, <2>1
  <2> QED
    BY <1>2, <1>3, <1>9, <2>2 DEF RotateReopen, OpenLogFile, GenerateFileName
<1>10. CASE DestroyMutex(p) \/ Crash(p)
  BY <1>2, <1>3, <1>10 DEF DestroyMutex, Crash
<1>11. CASE Flush(p)
  BY <1>2, <1>3, <1>11 DEF Flush
<1>12. ASSUME NEW length \in Lengths, Log(p, length) PROVE open'[q]
  <2>1. open' = open /\ open[p] /\ \A r \in Processes \ {p} : pc'[r] = pc[r]
    BY <1>2, <1>12 DEF Log, Write
  <2> QED
    BY <1>3, <2>1
<1> QED
  BY <1>5, <1>6, <1>7, <1>8, <1>9, <1>10, <1>11, <1>12 DEF Life

\* Every behaviour has the invariant (file_manager.cpp: Initialize, Write, Rotate and
\* ~FileManager of any number of processes, with crashes).
THEOREM FileInvariant == Spec => [](FileInv /\ KeepsInv)
<1>1. Init => FileInv /\ KeepsInv
  <2>1. Init => KeepsInv
    BY DEF Init, KeepsInv, KeepsFile
  <2> QED
    BY <2>1, FileInvInit
<1>2. FileInv /\ KeepsInv /\ [Next]_vars => (FileInv /\ KeepsInv)'
  <2> SUFFICES ASSUME FileInv, KeepsInv, [Next]_vars PROVE FileInv' /\ KeepsInv'
    OBVIOUS
  <2>1. reading' = reading /\ reading' \subseteq FileNames
    BY DEF Next, vars, FileInv, TypeOK
  <2>2. CASE Next
    <3>1. PICK p \in Processes : Life(p) \/ Crash(p)
      BY <2>2 DEF Next
    <3> QED
      BY <2>1, <3>1, FileInvStep, KeepsStep
  <2>3. CASE UNCHANGED vars
    <3>1. FileInv'
      BY <2>1, <2>3, FileInvReading DEF vars
    <3>2. KeepsInv'
      BY <2>3 DEF vars, fileVars, history, KeepsInv, KeepsFile
    <3> QED
      BY <3>1, <3>2
  <2> QED
    BY <2>2, <2>3
<1> QED
  BY <1>1, <1>2, PTL DEF Spec

-------------------------------------------------------------------------------
(* What follows from it.                                                   *)

\* The type invariant holds; in particular no buffer outlives its file's handle.
THEOREM TypeCorrect == Spec => []TypeOK
<1>1. FileInv => TypeOK
  BY DEF FileInv
<1> QED
  BY <1>1, FileInvariant, PTL

\* Until a base_PID.log is rotated, two live loggers never have the same current
\* file (the named mutex and the process id in GenerateFileName).
THEOREM OwnFiles == Spec => []OwnFileUntilStrayed
<1>1. FileInv => OwnFileUntilStrayed
  BY OwnersDiffer DEF FileInv
<1> QED
  BY <1>1, FileInvariant, PTL

\* Until then Initialize and Rotate never leave a logger with a null handle.
THEOREM FilesAreKept == Spec => []KeepsFile
<1>1. KeepsInv => KeepsFile
  BY DEF KeepsInv
<1> QED
  BY <1>1, FileInvariant, PTL

\* Until then current_file_size_ is the size of the file with its buffer.
THEOREM SizesAreExact == Spec => []SizeIsExact
<1>1. FileInv => SizeIsExact
  BY DEF FileInv, SizeInv, SizeIsExact
<1> QED
  BY <1>1, FileInvariant, PTL

\* The buffer that a crash can lose is bounded by max_size_ and a line.
THEOREM LossBound == Spec => []LossIsBounded
<1>1. FileInv => LossIsBounded
  BY DEF FileInv
<1> QED
  BY <1>1, FileInvariant, PTL

\* Rotation discards the oldest lines, until a base_PID.log is rotated.
THEOREM HistoryStaysNewest == Spec => []HistoryIsNewest
<1>1. FileInv => HistoryIsNewest
  <2> SUFFICES ASSUME FileInv, ~strayed, NEW gone \in discarded, NEW f \in DOMAIN disk,
                      f.kind = "history", NEW line \in Range(disk[f])
               PROVE  line.n > gone.n
    BY DEF HistoryIsNewest
  <2>1. f = History(1) /\ line \in HeldIn(History(1))
    BY DEF FileInv, AgeInv, HeldIn
  <2>2. gone.n < line.n
    BY <2>1 DEF FileInv, AgeInv, Older
  <2>3. gone \in Lines /\ line \in Lines
    BY DEF FileInv, TypeOK, Range
  <2> QED
    BY <2>2, <2>3, LineLength
<1> QED
  BY <1>1, FileInvariant, PTL

\* A line that is in a place is in no other.
LEMMA OnePlace == ASSUME TypeOK, PlaceInv PROVE AcceptedInOnePlace
<1> DEFINE At(seq, line) == {i \in DOMAIN seq : seq[i] = line}
           InFile(line, f) == {<<"disk", f, i>> : i \in At(disk[f], line)}
           InBuffer(line, p) == {<<"buffer", p, i>> : i \in At(buffered[p], line)}
           OnDisk(line) == UNION {InFile(line, f) : f \in DOMAIN disk}
           Buffered(line) == UNION {InBuffer(line, p) : p \in Processes}
           Lost(line) == {<<"lost">> : gone \in lost \cap {line}}
           Discarded(line) == {<<"discarded">> : gone \in discarded \cap {line}}
           Places(line) == OnDisk(line) \cup Buffered(line) \cup Lost(line) \cup Discarded(line)
<1>1. SUFFICES ASSUME NEW line \in Range(accepted) PROVE \E x : Places(line) = {x}
  <2>1. \A x : Cardinality({x}) = 1
    BY FS_Singleton
  <2>2. \A line \in Range(accepted) : Cardinality(Places(line)) = 1
    BY <1>1, <2>1
  <2> QED
    BY <2>2 DEF AcceptedInOnePlace
<1>2. \A f \in DOMAIN disk : line \notin Range(disk[f]) => InFile(line, f) = {}
  BY DEF Range
<1>3. \A p \in Processes : line \notin Range(buffered[p]) => InBuffer(line, p) = {}
  BY DEF Range
<1>4. \A f \in DOMAIN disk : line \in Range(disk[f]) => \E x : InFile(line, f) = {x}
  <2> SUFFICES ASSUME NEW f \in DOMAIN disk, line \in Range(disk[f])
               PROVE  \E x : InFile(line, f) = {x}
    OBVIOUS
  <2>1. PICK i \in DOMAIN disk[f] : disk[f][i] = line
    BY DEF Range
  <2>2. At(disk[f], line) = {i}
    BY <2>1 DEF PlaceInv, IsInjective
  <2>3. InFile(line, f) = {<<"disk", f, i>>}
    BY <2>2
  <2> QED
    BY <2>3
<1>5. \A p \in Processes : line \in Range(buffered[p]) => \E x : InBuffer(line, p) = {x}
  <2> SUFFICES ASSUME NEW p \in Processes, line \in Range(buffered[p])
               PROVE  \E x : InBuffer(line, p) = {x}
    OBVIOUS
  <2>1. PICK i \in DOMAIN buffered[p] : buffered[p][i] = line
    BY DEF Range
  <2>2. At(buffered[p], line) = {i}
    BY <2>1 DEF PlaceInv, IsInjective
  <2>3. InBuffer(line, p) = {<<"buffer", p, i>>}
    BY <2>2
  <2> QED
    BY <2>3
<1>6. /\ Lost(line) = IF line \in lost THEN {<<"lost">>} ELSE {}
      /\ Discarded(line) = IF line \in discarded THEN {<<"discarded">>} ELSE {}
  OBVIOUS
<1> HIDE DEF InFile, InBuffer, Lost, Discarded
<1>7. CASE \E f \in DOMAIN disk : line \in Range(disk[f])
  <2>1. PICK f \in DOMAIN disk : line \in Range(disk[f])
    BY <1>7
  <2>2. /\ \A g \in DOMAIN disk \ {f} : line \notin Range(disk[g])
        /\ \A p \in Processes : line \notin Range(buffered[p])
        /\ line \notin lost /\ line \notin discarded
    BY <2>1 DEF PlaceInv
  <2>3. OnDisk(line) = InFile(line, f)
    <3>1. \A g \in DOMAIN disk : g # f => InFile(line, g) = {}
      BY <1>2, <2>2
    <3> QED
      BY <3>1
  <2>4. Buffered(line) = {}
    BY <1>3, <2>2
  <2> QED
    BY <1>4, <1>6, <2>1, <2>2, <2>3, <2>4
<1>8. CASE \E p \in Processes : line \in Range(buffered[p])
  <2>1. PICK p \in Processes : line \in Range(buffered[p])
    BY <1>8
  <2>2. /\ \A f \in DOMAIN disk : line \notin Range(disk[f])
        /\ \A q \in Processes \ {p} : line \notin Range(buffered[q])
        /\ line \notin lost /\ line \notin discarded
    BY <2>1 DEF PlaceInv
  <2>3. Buffered(line) = InBuffer(line, p)
    <3>1. \A q \in Processes : q # p => InBuffer(line, q) = {}
      BY <1>3, <2>2
    <3> QED
      BY <3>1
  <2>4. OnDisk(line) = {}
    BY <1>2, <2>2
  <2> QED
    BY <1>5, <1>6, <2>1, <2>2, <2>3, <2>4
<1>9. CASE line \in lost \cup discarded
  <2>1. /\ \A f \in DOMAIN disk : line \notin Range(disk[f])
        /\ \A p \in Processes : line \notin Range(buffered[p])
        /\ ~(line \in lost /\ line \in discarded)
    BY <1>9 DEF PlaceInv
  <2>2. OnDisk(line) = {} /\ Buffered(line) = {}
    BY <1>2, <1>3, <2>1
  <2> QED
    BY <1>6, <1>9, <2>1, <2>2
<1> QED
  BY <1>7, <1>8, <1>9 DEF PlaceInv

\* Closing, renaming, reopening and crashing neither drop nor duplicate a line.
THEOREM LinesAreInOnePlace == Spec => []AcceptedInOnePlace
<1>1. FileInv => AcceptedInOnePlace
  BY OnePlace DEF FileInv
<1> QED
  BY <1>1, FileInvariant, PTL

================================================================================
