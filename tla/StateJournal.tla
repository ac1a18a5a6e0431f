---------------------------- MODULE StateJournal ----------------------------
(***************************************************************************)
(* class StateJournal of src/common/StateJournal.hpp: the append-only log  *)
(* of consensus transitions.  Any thread of the node may append.  The      *)
(* process may crash between any two system calls and start again; what it *)
(* wrote stays in the files.                                               *)
(*                                                                         *)
(* A file is a sequence of lines and a line a sequence of records: a short *)
(* write leaves a record without its newline, and the next record goes on  *)
(* in the same line.  num is what extract_seq reads from a record, 0 when  *)
(* the write was cut before the number.                                    *)
(***************************************************************************)
EXTENDS Integers, Sequences

CONSTANTS
    Writer,     \* threads that append
    MAX_LINES,  \* stands for the 10 MiB above which the file is rotated
    MaxSeq,     \* bound on the sequence numbers
    MaxBoots    \* bound on the starts of the process

ASSUME JournalAssumption == MAX_LINES \in Nat /\ MaxSeq \in Nat /\ MaxBoots \in Nat

VARIABLES
    jseq,      \* m_seq
    current,   \* the file
    backup,    \* the file with suffix ".1"
    writer,    \* what each thread is doing
    boot,      \* number of the process, 0 while it is down
    boots,     \* processes started
    gen,       \* history: rotations finished
    spoiled,   \* history: the backup was emptied for a copy that did not finish
    misread,   \* history: a read error ended a copy
    written    \* history: the records written whole, and when

journalVars == <<jseq, current, backup, writer, boot, boots, gen, spoiled,
                 misread, written>>

WriterIdle == [at |-> "idle", seq |-> 0]

JournalInit ==
    /\ jseq = 0 /\ current = <<>> /\ backup = <<>>
    /\ writer = [w \in Writer |-> WriterIdle]
    /\ boot = 1 /\ boots = 1
    /\ gen = 0 /\ spoiled = FALSE /\ misread = FALSE /\ written = {}

\* The number is taken before the mutex is.
TakeSeq(w) ==
    /\ boot > 0 /\ writer[w].at = "idle" /\ jseq < MaxSeq
    /\ jseq' = jseq + 1
    /\ writer' = [writer EXCEPT ![w] = [at |-> "lock", seq |-> jseq + 1]]
    /\ UNCHANGED <<current, backup, boot, boots, gen, spoiled, misread, written>>

MutexFree == \A w \in Writer : writer[w].at \in {"idle", "lock"}

\* A file that cannot be opened ends the call.  Otherwise, if the file lock is
\* obtained, the file is too long and the backup can be opened (which empties
\* it), the file is copied; else the record is written.
LockFile(w) ==
    /\ writer[w].at = "lock" /\ MutexFree
    /\ \/ /\ writer' = [writer EXCEPT ![w] = WriterIdle]
          /\ UNCHANGED <<backup, spoiled>>
       \/ /\ Len(current) > MAX_LINES
          /\ writer' = [writer EXCEPT ![w].at = "copy"]
          /\ backup' = <<>> /\ spoiled' = TRUE
       \/ /\ writer' = [writer EXCEPT ![w].at = "write"]
          /\ UNCHANGED <<backup, spoiled>>
    /\ UNCHANGED <<jseq, current, boot, boots, gen, misread, written>>

\* Mutant: the file is truncated whatever became of the copy.
CopyFile_Unchecked(w) ==
    /\ writer[w].at = "copy"
    /\ \E n \in 0 .. Len(current) : backup' = SubSeq(current, 1, n)
    /\ writer' = [writer EXCEPT ![w].at = "truncate"]
    /\ UNCHANGED <<jseq, current, boot, boots, gen, spoiled, misread, written>>
\* A short write leaves the file alone.  An error of read ends the loop like
\* the end of the file.
CopyFile(w) ==
    /\ writer[w].at = "copy"
    /\ \/ /\ backup' = current
          /\ writer' = [writer EXCEPT ![w].at = "truncate"]
          /\ UNCHANGED misread
       \/ /\ \E n \in 0 .. Len(current) - 1 : backup' = SubSeq(current, 1, n)
          /\ \/ writer' = [writer EXCEPT ![w].at = "write"] /\ UNCHANGED misread
             \/ writer' = [writer EXCEPT ![w].at = "truncate"] /\ misread' = TRUE
    /\ UNCHANGED <<jseq, current, boot, boots, gen, spoiled, written>>

\* The result of ftruncate is ignored.
TruncateFile(w) ==
    /\ writer[w].at = "truncate"
    /\ \/ current' = <<>> /\ gen' = gen + 1 /\ spoiled' = FALSE
       \/ UNCHANGED <<current, gen, spoiled>>
    /\ writer' = [writer EXCEPT ![w].at = "write"]
    /\ UNCHANGED <<jseq, backup, boot, boots, misread, written>>

\* A record follows in the last line if that has no newline.
LastLine == current[Len(current)]
Extended(r) ==
    IF current # <<>> /\ ~LastLine[Len(LastLine)].whole
    THEN [current EXCEPT ![Len(current)] = Append(@, r)]
    ELSE Append(current, <<r>>)

WriteRecord(w) ==
    /\ writer[w].at = "write"
    /\ \/ \E num \in {0, writer[w].seq}, whole \in BOOLEAN :
             /\ whole => num = writer[w].seq
             /\ current' = Extended([num |-> num, whole |-> whole, boot |-> boot])
             /\ written' = IF whole THEN written \cup {[num |-> num, boot |-> boot, gen |-> gen]}
                                    ELSE written
       \/ UNCHANGED <<current, written>>
    /\ writer' = [writer EXCEPT ![w] = WriterIdle]
    /\ UNCHANGED <<jseq, backup, boot, boots, gen, spoiled, misread>>

Crash ==
    /\ boot > 0
    /\ boot' = 0
    /\ writer' = [w \in Writer |-> WriterIdle]
    /\ UNCHANGED <<jseq, current, backup, boots, gen, spoiled, misread, written>>

\* extract_seq finds the first number of a line.
LineSeq(line) == IF \E i \in 1 .. Len(line) : line[i].num > 0
                 THEN line[CHOOSE i \in 1 .. Len(line) :
                             /\ line[i].num > 0
                             /\ \A j \in 1 .. i - 1 : line[j].num = 0].num
                 ELSE 0

\* Mutant: the constructor takes the number of the last line.
Recovered_LastLine ==
    IF current = <<>> THEN 0 ELSE LineSeq(LastLine)
\* The constructor takes the largest number in the file.
Recovered ==
    LET nums == {0} \cup {LineSeq(current[i]) : i \in 1 .. Len(current)}
    IN CHOOSE n \in nums : \A m \in nums : m <= n

Restart ==
    /\ boot = 0 /\ boots < MaxBoots
    /\ boots' = boots + 1 /\ boot' = boots + 1
    /\ jseq' = Recovered
    /\ UNCHANGED <<current, backup, writer, gen, spoiled, misread, written>>

JournalNext ==
    \/ \E w \in Writer : \/ TakeSeq(w) \/ LockFile(w) \/ CopyFile(w)
                         \/ TruncateFile(w) \/ WriteRecord(w)
    \/ Crash \/ Restart

JournalSpec == JournalInit /\ [][JournalNext]_journalVars

-----------------------------------------------------------------------------
Holds(file, num, b) ==
    \E i \in 1 .. Len(file) : \E j \in 1 .. Len(file[i]) :
        file[i][j] = [num |-> num, whole |-> TRUE, boot |-> b]

\* Rotation loses nothing that it rotates: whatever system call a crash, a
\* failed copy or another thread comes after, a record written since the last
\* rotation is in the file, and one written between the last two rotations is
\* in the backup until the next rotation empties it.  An error while reading
\* the file back is excepted: append takes it for the end of the file.
RotationKeepsRecords ==
    misread \/ \A r \in written :
        /\ r.gen = gen => Holds(current, r.num, r.boot)
        /\ r.gen + 1 = gen /\ ~spoiled => Holds(backup, r.num, r.boot)

\* Recovery continues the numbering: across crashes and restarts, and in
\* whatever order the threads write, no two well-formed lines of the file have
\* the same number.  A record that shares its line with a torn one is hidden
\* from extract_seq, and one that was rotated away is not read: their numbers
\* may be given out again.
NumbersAreUnique ==
    LET wellFormed == {i \in 1 .. Len(current) : Len(current[i]) = 1
                                                 /\ current[i][1].whole}
    IN \A i, j \in wellFormed : i # j => current[i][1].num # current[j][1].num
=============================================================================
