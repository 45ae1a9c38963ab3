------------------------------ MODULE History ------------------------------
(***************************************************************************)
(* The recent-history store: a window of Max records that the core keeps   *)
(* in memory, adds to once per second, and writes whole to one file after  *)
(* each addition.  Another process, the API gateway, reads the file at any *)
(* time.  fopen("wb") empties the file and fclose fills it, so between the *)
(* two the file is empty; 5 records of 72 bytes are one write, which       *)
(* succeeds or leaves nothing.                                             *)
(*                                                                         *)
(* A record is the number of the addition that made it; 0 is a blank one.  *)
(***************************************************************************)
EXTENDS Integers, FiniteSets

CONSTANTS
    Max,        \* HISTORY_MAX_ENTRIES
    MaxAdds,    \* bound: additions in a behaviour
    MaxStarts   \* bound: starts of the core in a behaviour

ASSUME MaxAssumption == Max \in Nat \ {0}
ASSUME BoundsAssumption == MaxAdds \in Nat /\ MaxStarts \in Nat

Slot == 1..Max
Records == 0..MaxAdds

VARIABLES
    \* The core.
    pc,        \* "down", "idle", or "opened" between fopen and fclose
    history,   \* history
    count,     \* history_count
    starts,    \* starts so far
    adds,      \* additions so far, in all runs
    since,     \* history variable: adds at the start of this run
    lossless,  \* history variable: every save so far went well
    \* The file.
    file,      \* "absent", "empty" or "full"
    saved,     \* its records, when it is full
    \* The gateway.
    gotCount,  \* count of the last history_get
    got,       \* entries of the last history_get
    newest     \* history variable: the newest record ever got

core    == <<pc, history, count, starts, adds, since, lossless>>
disk    == <<file, saved>>
gateway == <<gotCount, got, newest>>
vars    == <<core, disk, gateway>>

BlankWindow == [i \in Slot |-> 0]

TypeOK ==
    /\ pc \in {"down", "idle", "opened"}
    /\ history \in [Slot -> Records]
    /\ count \in 0..Max
    /\ starts \in 0..MaxStarts
    /\ adds \in Records
    /\ since \in 0..adds
    /\ lossless \in BOOLEAN
    /\ file \in {"absent", "empty", "full"}
    /\ saved \in [Slot -> Records]
    /\ gotCount \in {0, Max}
    /\ got \in [Slot -> Records]
    /\ newest \in Records

Init ==
    /\ pc = "down" /\ history = BlankWindow /\ count = 0 /\ starts = 0
    /\ adds = 0 /\ since = 0 /\ lossless = TRUE
    /\ file = "absent" /\ saved = BlankWindow
    /\ gotCount = 0 /\ got = BlankWindow /\ newest = 0

\* Defect: the records loaded and not counted.
NotCounted == 0

\* What fread returns: the blank records of the file count as records.
ReadCount == IF file = "full" THEN Max ELSE 0

\* history_init: what fread finds is loaded.
HistoryInit ==
    /\ pc = "down" /\ starts < MaxStarts
    /\ starts' = starts + 1
    /\ since' = adds
    /\ history' = IF file = "full" THEN saved ELSE BlankWindow
    /\ count' = ReadCount
    /\ pc' = "idle"
    /\ UNCHANGED <<adds, lossless, disk, gateway>>

\* Defect: the window moved by one record too many.
OffByOne(e) == [i \in Slot |-> IF i < Max - 1 THEN history[i + 2] ELSE e]

\* Defect: the last place cleared and never filled.
NeverFilled(e) == [i \in Slot |-> IF i < Max THEN history[i + 1] ELSE 0]

\* memmove, then the last place.
Shifted(e) == [i \in Slot |-> IF i < Max THEN history[i + 1] ELSE e]

\* Defect: one place more than there is.
HasRoomPastTheEnd == count <= Max

HasRoom == count < Max

\* history_add, in memory: the next free place or, when there is none, the
\* window moves by one.
Remember ==
    /\ adds < MaxAdds
    /\ adds' = adds + 1
    /\ IF HasRoom
       THEN /\ history' = [history EXCEPT ![count + 1] = adds + 1]
            /\ count' = count + 1
       ELSE /\ history' = Shifted(adds + 1)
            /\ count' = count

\* history_add up to the fopen of history_save, which empties the file ...
HistoryAdd ==
    /\ pc = "idle"
    /\ Remember
    /\ pc' = "opened" /\ file' = "empty"
    /\ UNCHANGED <<starts, since, lossless, saved, gateway>>

\* ... or cannot open it, and the record is in memory only.
HistoryAddUnsaved ==
    /\ pc = "idle"
    /\ Remember
    /\ lossless' = FALSE
    /\ UNCHANGED <<pc, starts, since, disk, gateway>>

\* fclose writes the whole window ...
HistorySave ==
    /\ pc = "opened"
    /\ pc' = "idle" /\ file' = "full" /\ saved' = history
    /\ UNCHANGED <<history, count, starts, adds, since, lossless, gateway>>

\* ... or fails, which nobody notices: fwrite only filled a buffer.
HistorySaveFails ==
    /\ pc = "opened"
    /\ pc' = "idle"
    /\ lossless' = FALSE
    /\ UNCHANGED <<history, count, starts, adds, since, disk, gateway>>

\* history_shutdown, and the end of the process.
HistoryShutdown ==
    /\ pc = "idle"
    /\ pc' = "down" /\ history' = BlankWindow /\ count' = 0
    /\ UNCHANGED <<starts, adds, since, lossless, disk, gateway>>

Crash ==
    /\ pc # "down"
    /\ pc' = "down" /\ history' = BlankWindow /\ count' = 0
    /\ lossless' = (lossless /\ pc # "opened")
    /\ UNCHANGED <<starts, adds, since, disk, gateway>>

\* The newest record of a window: there is one, 0 if all are blank.
IsNewest(w, r) == (\E i \in Slot : w[i] = r) /\ \A i \in Slot : w[i] <= r

\* history_get, in another process: as many records as the file holds.
HistoryGet ==
    /\ IF file = "full"
       THEN /\ gotCount' = Max /\ got' = saved
            /\ \E r \in Records : IsNewest(saved, r) /\ newest' = r
       ELSE gotCount' = 0 /\ UNCHANGED <<got, newest>>
    /\ UNCHANGED <<core, disk>>

Next == \/ HistoryInit \/ HistoryAdd \/ HistoryAddUnsaved \/ HistorySave
        \/ HistorySaveFails \/ HistoryShutdown \/ Crash \/ HistoryGet

Spec == Init /\ [][Next]_vars

----------------------------------------------------------------------------
(* Properties.                                                             *)

\* The records of a window that are not blank are in the order they were
\* added in, with nothing twice.
InOrder(w) ==
    \A i, j \in Slot : i < j /\ w[i] # 0 /\ w[j] # 0 => w[i] < w[j]

\* Memory, file and answers keep that order through restarts, crashes in the
\* middle of a save and saves that fail.
RecordsInOrder == InOrder(history) /\ InOrder(saved) /\ InOrder(got)

\* The records added in this run are the last ones of the window, the newest
\* at history_count, each next to the one before it.
RunIsRecent ==
    pc # "down" =>
        \A k \in 0..(Max - 1) :
            adds - k > since => count > k /\ history[count - k] = adds - k

\* A reader never gets an older window than it got before.
NeverGoesBack == [][newest' >= newest]_vars

\* README.md, of GET /API/V1/HISTORY: "Five most recent detection records":
\* they are kept, if every save went well.
RecentKept ==
    pc = "idle" /\ lossless =>
        \A k \in 0..(Max - 1) :
            adds - k > 0 => \E i \in Slot : history[i] = adds - k

\* "Retains recent detections": once a window was saved, a reader gets one.
NeverEmptied == newest > 0 => gotCount > 0
============================================================================
