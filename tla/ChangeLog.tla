------------------------------- MODULE ChangeLog -------------------------------
(***************************************************************************)
(* The change log of a sync folder: a ring of groups of log blocks in a    *)
(* file, appended to by the disk monitor and by the warm-up, read in pages *)
(* by the application, and found again after a restart.                    *)
(*   services/clouddiskservice/sync_folder/src/cloud_disk_service_logfile  *)
(*                                                                         *)
(* A block is its line number; Empty stands for a timestamp of 0.          *)
(***************************************************************************)
EXTENDS Integers, FiniteSets

CONSTANTS
    PerGroup,     \* LOGBLOCK_PER_GROUP
    Groups,       \* LOGGROUP_MAX
    Producers,    \* threads that log
    MaxLines,     \* bound on the lines logged
    MaxCrashes,   \* bound on restarts of the service
    MaxFaults,    \* bound on reads and writes of the file that fail
    PageSize      \* lines an application asks for, 0 for no reader

VARIABLES
    ring,         \* the file: [0..Groups-1 -> [cnt, nsl]]
    cur, rev,     \* currentLine_, reversal_
    pend,         \* pend[p]: a line reserved and not written yet
    written,      \* lines written
    reader,       \* the application's query: [pc, usn, from, line, end,
                  \* ret]; it has not been overtaken since line from
    got,          \* lines returned to it
    passed,       \* lines it asked for ahead of the log (after a restart), was
                  \* given before they were written, or that could not be read
    gap,          \* a line is missing in the file below one that was written
    crashes, faults

vars == <<ring, cur, rev, pend, written, reader, got, passed, gap, crashes, faults>>

Max == PerGroup * Groups          \* LOG_COUNT_MAX
Empty == -1
Blank == [cnt |-> 0, nsl |-> [o \in 0..PerGroup-1 |-> Empty]]

Bucket(line) == (line % Max) \div PerGroup
Offset(line) == line % PerGroup

Init ==
    /\ ring = [b \in 0..Groups-1 |-> Blank]
    /\ cur = 0 /\ rev = FALSE
    /\ pend = [p \in Producers |-> Empty]
    /\ written = {}
    /\ reader = [pc |-> "idle", usn |-> 0, from |-> 0, line |-> 0, end |-> 0,
                 ret |-> "OK"]
    /\ got = {} /\ passed = {} /\ gap = FALSE /\ crashes = 0 /\ faults = 0

-----------------------------------------------------------------------------
(* GenerateLogBlock takes the next line, then WriteLogFile writes it under *)
(* fileMtx_.  (A producer is not left behind by almost a whole lap: 65472  *)
(* lines in the code.)                                                     *)
Reserve(p) ==
    /\ pend[p] = Empty /\ cur < MaxLines
    /\ \A q \in Producers : pend[q] # Empty => cur - pend[q] < Max - PerGroup
    /\ pend' = [pend EXCEPT ![p] = cur]
    /\ cur' = cur + 1
    /\ UNCHANGED <<ring, rev, written, reader, got, passed, gap, crashes, faults>>

IOFails == faults < MaxFaults /\ faults' = faults + 1

(* A block that is in use means that the ring has come round: the group is *)
(* cleared first.                                                          *)
FillLogGroup(g, line) ==
    LET base == IF g.nsl[Offset(line)] # Empty THEN Blank ELSE g
    IN [cnt |-> base.cnt + 1, nsl |-> [base.nsl EXCEPT ![Offset(line)] = line]]

(* GenerateLogBlock does not look at the result: a line that could not be  *)
(* written, because the group could not be read or not be stored, is gone. *)
WriteLogFile(p) ==
    LET line == pend[p]
    IN /\ line # Empty
       /\ pend' = [pend EXCEPT ![p] = Empty]
       /\ \/ /\ ring' = [ring EXCEPT ![Bucket(line)] = FillLogGroup(@, line)]
             /\ written' = written \cup {line}
             /\ UNCHANGED <<gap, faults>>
          \/ /\ IOFails
             /\ gap' = TRUE
             /\ UNCHANGED <<ring, written>>
       /\ UNCHANGED <<cur, rev, reader, got, passed, crashes>>

-----------------------------------------------------------------------------
StartTooLate ==
    IF cur <= Max /\ ~rev THEN 0 ELSE ((cur - 1) \div PerGroup) * PerGroup - Max + 2 * PerGroup

(* The group that is written next may be cleared at any time.              *)
GetStartLine ==
    IF cur <= Max /\ ~rev THEN 0
    ELSE ((cur - 1) \div PerGroup) * PerGroup - Max + PerGroup

(* (The last disjunct of the code, for line numbers that wrap around after *)
(* 2^64 lines, is out of the model's range.)                               *)
CheckLineIsValid(line) == line >= GetStartLine /\ line < cur

(* PraseRequest: a page of lines from usn on, or from the oldest one for 0.*)
StartQuery ==
    /\ PageSize > 0 /\ reader.pc = "idle"
    /\ LET from == IF reader.usn = 0 THEN GetStartLine ELSE reader.usn
       IN reader' = [reader EXCEPT !.pc = "read", !.line = from, !.end = from + PageSize,
                                   !.from = IF reader.usn = 0 THEN from ELSE @, !.ret = "OK"]
    /\ UNCHANGED <<ring, cur, rev, pend, written, got, passed, gap, crashes, faults>>

(* PraseLog of one line: the end, an error the loop passes over (the line  *)
(* is not valid, or it or the entry it names cannot be read), or a block.  *)
PraseLog ==
    LET line == reader.line
        next == IF line + 1 = reader.end THEN "done" ELSE "read"
        block == ring[Bucket(line)].nsl[Offset(line)]
    IN /\ reader.pc = "read"
       /\ \/ /\ line = cur
             /\ reader' = [reader EXCEPT !.pc = "eof", !.ret = "OK"]
             /\ UNCHANGED <<got, passed, faults>>
          \/ /\ line # cur /\ ~CheckLineIsValid(line)
             /\ reader' = [reader EXCEPT !.pc = next, !.line = line + 1, !.ret = "INVALID",
                                         !.from = IF line < cur THEN line + 1 ELSE @]
             /\ passed' = IF line > cur THEN passed \cup {line} ELSE passed
             /\ UNCHANGED <<got, faults>>
          \/ /\ line # cur /\ CheckLineIsValid(line)
             /\ IOFails
             /\ passed' = passed \cup {line}
             /\ reader' = [reader EXCEPT !.pc = next, !.line = line + 1, !.ret = "FAILED"]
             /\ UNCHANGED got
          \/ /\ line # cur /\ CheckLineIsValid(line)
             /\ got' = got \cup {block}
             /\ passed' = IF block = line THEN passed ELSE passed \cup {line}
             /\ reader' = [reader EXCEPT !.pc = next, !.line = line + 1, !.ret = "OK"]
             /\ UNCHANGED faults
       /\ UNCHANGED <<ring, cur, rev, pend, written, gap, crashes>>

NextUsn == reader.line

(* The answer: after an error of its last line the application starts over.*)
Answer ==
    /\ reader.pc \in {"done", "eof"}
    /\ reader' = [reader EXCEPT !.pc = "idle",
                     !.usn = IF reader.ret = "OK" THEN NextUsn ELSE 0]
    /\ got' = IF reader.ret = "OK" THEN got ELSE {}
    /\ passed' = IF reader.ret = "OK" THEN passed ELSE {}
    /\ UNCHANGED <<ring, cur, rev, pend, written, gap, crashes, faults>>

-----------------------------------------------------------------------------
(* GetCurrentLine: the groups that continue group 0.                       *)
Continues(b) ==
    /\ ring[b].nsl[0] # Empty
    /\ ring[b].nsl[0] = ring[b - 1].nsl[0] + ring[b - 1].cnt

FirstLine(b) == IF ring[b].nsl[0] = Empty THEN 0 ELSE ring[b].nsl[0]

GetCurrentLine ==
    LET last == CHOOSE b \in 0..Groups-1 :
                    /\ \A c \in 1..b : Continues(c)
                    /\ b = Groups - 1 \/ ~Continues(b + 1)
    IN FirstLine(last) + ring[last].cnt

GetReversal(line) == line > Max \/ ring[Groups - 1].nsl[PerGroup - 1] # Empty

(* The service is killed and loads the file again.                         *)
Restart ==
    /\ crashes < MaxCrashes
    /\ crashes' = crashes + 1
    /\ pend' = [p \in Producers |-> Empty]
    /\ cur' = GetCurrentLine
    /\ rev' = GetReversal(GetCurrentLine)
    /\ reader' = [reader EXCEPT !.pc = "idle"]
    /\ gap' = (gap \/ \E p \in Producers : pend[p] # Empty /\ \E w \in written : w > pend[p])
    /\ UNCHANGED <<ring, written, got, passed, faults>>

Next ==
    \/ \E p \in Producers : Reserve(p) \/ WriteLogFile(p)
    \/ StartQuery \/ PraseLog \/ Answer
    \/ Restart

Spec == Init /\ [][Next]_vars

-----------------------------------------------------------------------------
TypeOK ==
    /\ cur \in Nat /\ rev \in BOOLEAN
    /\ \A b \in 0..Groups-1 : ring[b].cnt \in 0..PerGroup
    /\ \A b \in 0..Groups-1, o \in 0..PerGroup-1 : ring[b].nsl[o] \in Nat \cup {Empty}

(* Every line the log calls valid, and that is not being written, is in    *)
(* its place in the file, whatever order the producers write in, wherever  *)
(* the ring has come round and wherever the service was killed.  Excepted  *)
(* are behaviours with a gap: a line that was not written, because its     *)
(* write failed or the service was killed between the writes of two        *)
(* producers, makes a group be cleared a lap later in mid-use.             *)
ValidLinesAreThere ==
    \A line \in 0..MaxLines :
        (/\ ~gap
         /\ CheckLineIsValid(line)
         /\ \A p \in Producers : pend[p] # line)
        => ring[Bucket(line)].nsl[Offset(line)] = line

(* The log promises the changes of all groups but one.                     *)
LogIsLongEnough == cur - GetStartLine >= (IF cur < Max - PerGroup THEN cur ELSE Max - PerGroup)

(* A restart continues after the last line in the file: no line number is  *)
(* given to two changes.  After a gap it is: GetCurrentLine counts blocks  *)
(* and takes the count for the place of the last one, although the API     *)
(* says that the update sequence number is monotonically increasing.       *)
LinesAreNotReused == ~gap => \A line \in written : line < cur

(* The pages follow one another: a change that the log still holds, and    *)
(* that was written and could be read when its page was read, is not       *)
(* passed over.  An error of a line in the middle of a page is passed over *)
(* silently, and after a gap the numbers may start over.                   *)
PagesMissNothing ==
    \A line \in written :
        (~gap /\ line >= GetStartLine /\ line \in reader.from..(reader.usn - 1)) => line \in got \cup passed

(* What the API says of a page that ends the log: all file changes have    *)
(* been returned.                                                          *)
EndMeansAllReturned ==
    reader.pc = "eof" => \A line \in GetStartLine..(reader.line - 1) : line \in got

=============================================================================
