------------------------------ MODULE CursorFile ------------------------------
(***************************************************************************)
(* FileBlockCursorStore: named cursors in one file, read and replaced      *)
(* under a mutex that all stores of the process on that path share.  The   *)
(* processes may share the file too; then only the rename protects it.     *)
(* Faults: a system call fails, the process is killed, the power fails.    *)
(*                                                                         *)
(* A version of the file is the cursors written into it and whether they   *)
(* are on disk.  Until the directory is synchronised a power failure may   *)
(* bring back the version it named before.                                 *)
(***************************************************************************)
EXTENDS Naturals

CONSTANTS
    Threads,    \* callers of a store
    Names,      \* cursor names
    MaxBlock,   \* bound: highest block number
    Budgets     \* bounds: how many events of each kind may happen, and `processes'

VARIABLES
    file,     \* the version the path names
    older,    \* versions a power failure may bring back
    calls,    \* where each thread's call is
    floor,    \* history: the least each name may hold after the calls that returned
    budget    \* events of each kind that may still happen

vars == <<file, older, calls, floor, budget>>

Cursors == [block : 1..MaxBlock, complete : BOOLEAN, log : 0..1]
Nothing == [n \in {} |-> 0]    \* nlohmann::json::object()
Idle == [pc |-> "idle"]

InitState ==
    /\ file = [data |-> Nothing, synced |-> TRUE] /\ older = {}
    /\ calls = [t \in Threads |-> Idle]
    /\ floor = Nothing
Init == InitState /\ budget \in Budgets

Spend(kind) == budget[kind] > 0 /\ budget' = [budget EXCEPT ![kind] = @ - 1]

(* cursor_path_mutex: one mutex per path and process.  With two processes every thread
   is in a process of its own. *)
Locked == budget.processes = 1 /\ \E t \in Threads : calls[t] # Idle

(* cursor_advances *)
CursorAdvances(current, next) ==
    IF next.block # current.block THEN next.block > current.block
    ELSE IF current.complete THEN next.complete
    ELSE next.complete \/ (next.log # 0 /\ next.log >= current.log)

AtLeast(a, b) ==
    \/ a.block > b.block
    \/ a.block = b.block /\ (a.complete \/ (~b.complete /\ a.log >= b.log))

(* save, save_cursor and rewind: what a call makes of the cursor that is there. *)
Save(n, block) ==
    [name |-> n, cursor |-> [block |-> block, complete |-> TRUE, log |-> 0], rewinds |-> FALSE,
     writes |-> n \in DOMAIN file.data => block >= file.data[n].block]
SaveCursor(n, c) ==
    [name |-> n, cursor |-> c, rewinds |-> FALSE,
     writes |-> n \in DOMAIN file.data => CursorAdvances(file.data[n], c)]
Rewind(n, from) ==
    [name |-> n, cursor |-> [block |-> from, complete |-> FALSE, log |-> 0], rewinds |-> TRUE,
     writes |-> n \in DOMAIN file.data /\ from <= file.data[n].block]

With(data, n, c) == [m \in DOMAIN data \cup {n} |-> IF m = n THEN c ELSE data[m]]

(* A call takes the mutex and reads the file (read_cursor_file: a missing or empty file
   holds nothing); it returns if there is nothing to write.  load and load_cursor only
   read. *)
Call(t) ==
    /\ calls[t] = Idle /\ ~Locked /\ Spend("calls")
    /\ \E n \in Names :
       \E op \in {Save(n, b) : b \in 1..MaxBlock} \cup {SaveCursor(n, c) : c \in Cursors}
                    \cup {Rewind(n, b) : b \in 1..MaxBlock} :
          /\ op.writes
          /\ calls' = [calls EXCEPT ![t] = [pc |-> "create", name |-> n, cursor |-> op.cursor,
                                            rewinds |-> op.rewinds, synced |-> FALSE,
                                            data |-> With(file.data, n, op.cursor)]]
    /\ UNCHANGED <<file, older, floor>>

(* Mutant: the temporary replaces the file before it is synchronised. *)
AfterRenamesFirst(pc) ==
    CASE pc = "create" -> "write" [] pc = "write" -> "rename" [] pc = "rename" -> "fsync"
      [] pc = "fsync" -> "close" [] pc = "close" -> "directory"

(* write_cursor_file: the order of its system calls. *)
After(pc) ==
    CASE pc = "create" -> "write" [] pc = "write" -> "fsync" [] pc = "fsync" -> "close"
      [] pc = "close" -> "rename" [] pc = "rename" -> "directory"

(* mkstemp, write, fsync and close touch only the temporary file. *)
Prepare(t) ==
    /\ calls[t].pc \in {"create", "write", "fsync", "close"}
    /\ calls' = [calls EXCEPT ![t].pc = After(@), ![t].synced = @ \/ calls[t].pc = "fsync"]
    /\ UNCHANGED <<file, older, floor, budget>>

(* rename; a rewind lowers what its name may hold, nothing else does. *)
Replace(t) ==
    LET c == calls[t] IN
    /\ c.pc = "rename"
    /\ calls' = [calls EXCEPT ![t].pc = After(@)]
    /\ file' = [data |-> c.data, synced |-> c.synced]
    /\ older' = older \cup {file}
    /\ floor' = IF c.name \in DOMAIN floor /\ ~c.rewinds /\ AtLeast(floor[c.name], c.cursor)
                THEN floor ELSE With(floor, c.name, c.cursor)
    /\ UNCHANGED budget

(* The directory is synchronised if that works; either way the call returns. *)
Return(t) ==
    /\ calls[t].pc = "directory"
    /\ \/ older' = {} /\ UNCHANGED budget
       \/ Spend("faults") /\ UNCHANGED older
    /\ calls' = [calls EXCEPT ![t] = Idle]
    /\ UNCHANGED <<file, floor>>

(* A system call fails: discard() removes the temporary and the exception leaves the call. *)
Fails(t) ==
    /\ calls[t].pc \in {"create", "write", "fsync", "close", "rename"} /\ Spend("faults")
    /\ calls' = [calls EXCEPT ![t] = Idle]
    /\ UNCHANGED <<file, older, floor>>

(* External: the process is killed; the power fails. *)
Killed ==
    /\ Spend("crashes")
    /\ calls' = [t \in Threads |-> Idle]
    /\ UNCHANGED <<file, older, floor>>
PowerFails ==
    /\ Spend("crashes")
    /\ calls' = [t \in Threads |-> Idle]
    /\ \E v \in older \cup {file} :
          /\ file' = v
          /\ floor' = IF older = {} THEN floor ELSE v.data
    /\ older' = {}

Next ==
    \/ \E t \in Threads : Call(t) \/ Prepare(t) \/ Replace(t) \/ Return(t) \/ Fails(t)
    \/ Killed \/ PowerFails
Spec == Init /\ [][Next]_vars

-----------------------------------------------------------------------------
(* Whatever a power failure leaves at the path is a whole file: one that was on disk
   before the rename made it visible. *)
WholeFile == \A v \in older \cup {file} : v.synced

(* In one process, no cursor is lost or lowered by a save: not by a concurrent call for
   another name, a failed call, a kill at any point, or a power failure after the
   directory was synchronised. *)
CursorsKept ==
    budget.processes = 1
        => \A n \in DOMAIN floor : n \in DOMAIN file.data /\ AtLeast(file.data[n], floor[n])
=============================================================================
