---------------------------- MODULE PatternStress ----------------------------
(***************************************************************************)
(* src/engine/stress/stress-test.py: processes that write to random blocks *)
(* of a volume (random_write), processes that read and check them          *)
(* (read_and_check), and one that removes replicas and adds them again     *)
(* (rebuild_replicas).  No lock orders them.  A write is a pattern, the    *)
(* time it was made, that is stored in an array shared by the processes    *)
(* and then, with the number of the block, on the disk; what orders the    *)
(* comparison is a slack on the times.                                     *)
(*                                                                         *)
(* A process may be delayed, within limits that are constants here.  The   *)
(* blocks of one request are independent of each other, so a request is    *)
(* for one block.                                                          *)
(***************************************************************************)
EXTENDS Integers, FiniteSets

CONSTANTS
    Writers, Readers,
    Blocks,        \* 0 .. MAX_BLOCKS - 1
    MAX_TIME_SLACK,
    WriteDelay,    \* from a pattern's time to the end of its write
    ReadDelay,     \* from a read of the disk to the time it is compared with
    MaxTime,       \* bound: the clock
    MaxFaults      \* bound: losses of data, replicas and commands that fail

Bounds == /\ 0 \in Blocks /\ {MAX_TIME_SLACK, MaxTime, MaxFaults} \subseteq Nat
          /\ WriteDelay \in Nat /\ ReadDelay \in Nat
          /\ WriteDelay + ReadDelay < MAX_TIME_SLACK

VARIABLES
    now,       \* milliseconds since INIT_TIME
    testdata,  \* the shared array
    stored,    \* each block on the disk: its number and its pattern
    damaged,   \* history: blocks the volume has lost since they were written
    writer, reader,
    rebuild,   \* rebuild_replicas: pc, replica
    healthy,   \* replicas that have the data
    faultsLeft

vars == <<now, testdata, stored, damaged, writer, reader, rebuild, healthy, faultsLeft>>

Replica == {2, 3}
Hole == [offset |-> 0, pattern |-> 0]
Content == [offset : Blocks, pattern : 0 .. MaxTime]

(* A reader between two blocks; "bad" is a history of what it has read. *)
Idle == [pc |-> "idle", block |-> 0, data |-> Hole, bad |-> FALSE, time |-> 0, pattern |-> 0]

TypeOK ==
    /\ now \in 0 .. MaxTime
    /\ testdata \in [Blocks -> 0 .. MaxTime]
    /\ stored \in [Blocks -> Content] /\ damaged \subseteq Blocks
    /\ writer \in [Writers -> [pc : {"idle", "share", "write", "dead"},
                               block : Blocks, pattern : 0 .. MaxTime]]
    /\ reader \in [Readers -> [pc : {"idle", "clock", "compare", "data", "hole", "alarm", "dead"},
                               block : Blocks, data : Content, bad : BOOLEAN,
                               time : 0 .. MaxTime, pattern : 0 .. MaxTime]]
    /\ rebuild \in [pc : {"purge", "rm", "add", "dead"}, replica : Replica]
    /\ healthy \subseteq Replica /\ faultsLeft \in 0 .. MaxFaults

Init == /\ now = 0 /\ damaged = {}
        /\ testdata = [k \in Blocks |-> 0] /\ stored = [k \in Blocks |-> Hole]
        /\ writer = [p \in Writers |-> [pc |-> "idle", block |-> 0, pattern |-> 0]]
        /\ reader = [r \in Readers |-> Idle]
        /\ rebuild = [pc |-> "purge", replica |-> 2]
        /\ healthy = Replica /\ faultsLeft = MaxFaults

Fails == faultsLeft > 0 /\ faultsLeft' = faultsLeft - 1

Abs(n) == IF n < 0 THEN -n ELSE n

gen_pattern == now

gen_blockdata(block, pattern) == [offset |-> block, pattern |-> pattern]

-----------------------------------------------------------------------------
(* random_write *)

WriterOnly == UNCHANGED <<now, reader, rebuild, healthy, faultsLeft>>

GenPattern(p) ==
    /\ writer[p].pc = "idle"
    /\ \E k \in Blocks :
          writer' = [writer EXCEPT ![p] = [pc |-> "share", block |-> k, pattern |-> gen_pattern]]
    /\ WriterOnly /\ UNCHANGED <<testdata, stored, damaged>>

Share(p) ==
    /\ writer[p].pc = "share"
    /\ testdata' = [testdata EXCEPT ![writer[p].block] = writer[p].pattern]
    /\ writer' = [writer EXCEPT ![p].pc = "write"]
    /\ WriterOnly /\ UNCHANGED <<stored, damaged>>

(* write and flush; with no replica an IOError ends the process. *)
WriteToDisk(p) ==
    /\ writer[p].pc = "write"
    /\ LET k == writer[p].block IN
       IF healthy # {}
       THEN /\ stored' = [stored EXCEPT ![k] = gen_blockdata(k, writer[p].pattern)]
            /\ damaged' = damaged \ {k}
            /\ writer' = [writer EXCEPT ![p].pc = "idle"]
       ELSE /\ writer' = [writer EXCEPT ![p].pc = "dead"]
            /\ UNCHANGED <<stored, damaged>>
    /\ WriterOnly /\ UNCHANGED testdata

-----------------------------------------------------------------------------
(* read_and_check *)

ReaderOnly == UNCHANGED <<now, testdata, stored, damaged>>

(***************************************************************************)
(* A read that is too short kills every python process; an error ends the  *)
(* reader only.                                                            *)
(***************************************************************************)
ReadDisk(r) ==
    /\ reader[r].pc = "idle"
    /\ \/ /\ healthy # {}
          /\ \E k \in Blocks :
                reader' = [reader EXCEPT ![r] = [Idle EXCEPT !.pc = "clock", !.block = k,
                                      !.data = stored[k], !.bad = k \in damaged, !.time = now]]
          /\ UNCHANGED <<writer, rebuild>>
       \/ /\ healthy = {}
          /\ reader' = [reader EXCEPT ![r].pc = "dead"]
          /\ UNCHANGED <<writer, rebuild>>
       \/ /\ healthy = {}
          /\ reader' = [q \in Readers |-> [reader[q] EXCEPT !.pc = "dead"]]
          /\ writer' = [p \in Writers |-> [writer[p] EXCEPT !.pc = "dead"]]
          /\ rebuild' = [rebuild EXCEPT !.pc = "dead"]
    /\ ReaderOnly /\ UNCHANGED <<healthy, faultsLeft>>

TakeTime(r) == /\ reader[r].pc = "clock"
               /\ reader' = [reader EXCEPT ![r].pc = "compare", ![r].time = gen_pattern]
               /\ ReaderOnly /\ UNCHANGED <<writer, rebuild, healthy, faultsLeft>>

(* Slip for TooRecent: only the pattern that was read is looked at. *)
TooRecentByData(time, pattern, data) == time - data.pattern < MAX_TIME_SLACK

TooRecent(time, pattern, data) == \/ time - pattern < MAX_TIME_SLACK
                                  \/ time - data.pattern < MAX_TIME_SLACK

(***************************************************************************)
(* A block of zeros is counted as a hole.  Two assertions are made about   *)
(* other blocks; one that fails is printed.                                *)
(***************************************************************************)
Verdict(k, pattern, data) ==
    IF data = Hole THEN "hole"
    ELSE IF data.offset = k /\ Abs(data.pattern - pattern) < MAX_TIME_SLACK THEN "data"
    ELSE "alarm"

Compare(r) ==
    /\ reader[r].pc = "compare"
    /\ LET read == reader[r]
           pattern == testdata[read.block] IN
       reader' = [reader EXCEPT ![r] =
                     IF TooRecent(read.time, pattern, read.data) THEN Idle
                     ELSE [read EXCEPT !.pc = Verdict(read.block, pattern, read.data),
                                       !.pattern = pattern]]
    /\ ReaderOnly /\ UNCHANGED <<writer, rebuild, healthy, faultsLeft>>

(* The verdict is counted or printed, and the reader goes on. *)
NextBlock(r) == /\ reader[r].pc \in {"data", "hole", "alarm"}
                /\ reader' = [reader EXCEPT ![r] = Idle]
                /\ ReaderOnly /\ UNCHANGED <<writer, rebuild, healthy, faultsLeft>>

-----------------------------------------------------------------------------
(* rebuild_replicas: each command is a check_call, which ends the process if it fails. *)

RebuildOnly == UNCHANGED <<now, testdata, stored, damaged, writer, reader>>

RebuildRaises == /\ rebuild.pc # "dead" /\ Fails
                 /\ rebuild' = [rebuild EXCEPT !.pc = "dead"]
                 /\ RebuildOnly /\ UNCHANGED healthy

(* The snapshots are removed, and a replica is chosen. *)
Purge == /\ rebuild.pc = "purge"
         /\ \E i \in Replica : rebuild' = [pc |-> "rm", replica |-> i]
         /\ RebuildOnly /\ UNCHANGED <<healthy, faultsLeft>>

RmReplica == /\ rebuild.pc = "rm"
             /\ healthy' = healthy \ {rebuild.replica}
             /\ rebuild' = [rebuild EXCEPT !.pc = "add"]
             /\ RebuildOnly /\ UNCHANGED faultsLeft

AddReplica == /\ rebuild.pc = "add" /\ healthy # {}
              /\ healthy' = healthy \cup {rebuild.replica}
              /\ rebuild' = [rebuild EXCEPT !.pc = "purge"]
              /\ RebuildOnly /\ UNCHANGED faultsLeft

-----------------------------------------------------------------------------
(***************************************************************************)
(* Time, and the volume.  A block it loses reads as zeros, as it read      *)
(* before, or as another block.                                            *)
(***************************************************************************)
Tick == /\ now < MaxTime
        /\ \A p \in Writers : writer[p].pc \in {"share", "write"}
                                 => now - writer[p].pattern < WriteDelay
        /\ \A r \in Readers : reader[r].pc = "clock" => now - reader[r].time < ReadDelay
        /\ now' = now + 1
        /\ UNCHANGED <<testdata, stored, damaged, writer, reader, rebuild, healthy, faultsLeft>>

LosesBlock == \E k \in Blocks :
    /\ stored[k] # Hole /\ Fails
    /\ \E c \in {Hole} \cup {[stored[k] EXCEPT !.pattern = 0]} \cup {stored[j] : j \in Blocks} :
          c # stored[k] /\ stored' = [stored EXCEPT ![k] = c]
    /\ damaged' = damaged \cup {k}
    /\ UNCHANGED <<now, testdata, writer, reader, rebuild, healthy>>

ReplicaFails == /\ \E i \in healthy : healthy' = healthy \ {i}
                /\ Fails
                /\ UNCHANGED <<now, testdata, stored, damaged, writer, reader, rebuild>>

-----------------------------------------------------------------------------
Next == \/ \E p \in Writers : GenPattern(p) \/ Share(p) \/ WriteToDisk(p)
        \/ \E r \in Readers : ReadDisk(r) \/ TakeTime(r) \/ Compare(r) \/ NextBlock(r)
        \/ Purge \/ RmReplica \/ AddReplica \/ RebuildRaises
        \/ Tick \/ LosesBlock \/ ReplicaFails

Spec == Init /\ [][Next]_vars

(***************************************************************************)
(* As long as the delays of a writer and of a reader are together less     *)
(* than the slack, an alarm is about a block that was damaged: writes that *)
(* reach the array in one order and the disk in the other, and reads that  *)
(* are overtaken by a write before they are compared, raise none.          *)
(***************************************************************************)
AlarmsAreAboutDamage ==
    \A r \in Readers : reader[r].pc = "alarm" => reader[r].bad

=============================================================================
